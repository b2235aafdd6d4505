--------------------------- MODULE MCAnswerCache ---------------------------
(* Small instances of AnswerCache for TLC. *)
EXTENDS AnswerCache

\* Stale answers are served, and popular ones about to expire prefetched.
BothFeatures == [minTTL |-> 0, maxTTL |-> 1, negativeTTL |-> 0, staleMaxAge |-> 1,
                 prefetch |-> TRUE, threshold |-> 0, minHits |-> 1]
NoReloads == {}
OneTTL == {NoRecords, 1}
=============================================================================
