------------------------- MODULE MCPersistentCache -------------------------
(* Small instances of PersistentCache for TLC. *)
EXTENDS PersistentCache

\* TTLs of one, no prefetching and no stale window.
NoStale == [minTTL |-> 0, maxTTL |-> 1, negativeTTL |-> 0, staleMaxAge |-> 0,
            prefetch |-> FALSE, threshold |-> 0, minHits |-> 1]
\* The minimum exceeds the maximum, which wins; the negative TTL is left alone.
MinOverMax == [NoStale EXCEPT !.minTTL = 2]
OneReload == {MinOverMax}
OneTTL == {NoRecords, 1}
=============================================================================
