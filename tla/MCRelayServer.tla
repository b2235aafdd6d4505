--------------------------- MODULE MCRelayServer ---------------------------
(* Small instances of RelayServer for TLC. *)
EXTENDS RelayServer, TLC

CONSTANTS k1, k2

\* The first limits; the second asks for a token, and allows only another name.
Limiting == [token |-> FALSE, allow |-> {}, limit |-> 2]
Guarded  == [token |-> TRUE, allow |-> {k2}, limit |-> 0]
BothPolicies == {Limiting, Guarded}
=============================================================================
