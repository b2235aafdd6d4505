---------------------------- MODULE MCResolution ----------------------------
(* Small instances of Resolution for TLC. *)
EXTENDS Resolution

CONSTANTS clean, poisoned

\* The default order with every client, and without a relay and with another ban
\* list: the local answer is banned, too.
Usual == [order |-> <<"records", "cache", "relay", "plain">>, relay |-> TRUE,
          adaptive |-> TRUE, ban |-> {}]
Other == [order |-> <<"cache", "records", "relay", "doh">>, relay |-> FALSE,
          adaptive |-> FALSE, ban |-> {poisoned, Local}]
BothConfigs == {Usual, Other}
=============================================================================
