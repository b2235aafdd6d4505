---------------------------- MODULE SingleFlight ----------------------------
(***************************************************************************)
(* What coalescing promises its callers.  Everyone who asks for a key      *)
(* while an attempt for it is under way becomes a member of that attempt;  *)
(* an attempt lands once, with one outcome, which every member gets; and   *)
(* an answer is no older than the start of the attempt.  Outcomes are      *)
(* versions of the world the upstreams answer from, or Failed.             *)
(***************************************************************************)
EXTENDS Integers

CONSTANTS Callers, Keys

Failed  == -1
Nothing == -2       \* no outcome yet

NoFlight == [members |-> {}, since |-> 0]

VARIABLES
    world,          \* the version upstreams answer from
    flight,         \* the attempt under way for each key
    got             \* the outcome a caller has in its hands

vars == <<world, flight, got>>

Init ==
    /\ world = 0
    /\ flight = [k \in Keys |-> NoFlight]
    /\ got = [c \in Callers |-> Nothing]

Idle(c) == got[c] = Nothing /\ \A k \in Keys : c \notin flight[k].members

\* A member of the attempt under way or, if there is none, of a new one.
Ask(c, k) ==
    /\ Idle(c)
    /\ flight' = [flight EXCEPT ![k] =
          [members |-> @.members \cup {c},
           since |-> IF @ = NoFlight THEN world ELSE @.since]]
    /\ UNCHANGED <<world, got>>

Land(k, outcome) ==
    /\ flight[k] # NoFlight
    /\ outcome = Failed \/ outcome \in flight[k].since..world
    /\ got' = [c \in Callers |-> IF c \in flight[k].members THEN outcome ELSE got[c]]
    /\ flight' = [flight EXCEPT ![k] = NoFlight]
    /\ UNCHANGED world

Return(c) ==
    /\ got[c] # Nothing
    /\ got' = [got EXCEPT ![c] = Nothing]
    /\ UNCHANGED <<world, flight>>

\* The truth behind the upstreams changes.
WorldChanges ==
    /\ world' = world + 1
    /\ UNCHANGED <<flight, got>>

Next ==
    \/ \E c \in Callers, k \in Keys : Ask(c, k)
    \/ \E k \in Keys, outcome \in {Failed} \cup (0..world) : Land(k, outcome)
    \/ \E c \in Callers : Return(c)
    \/ WorldChanges

Spec == Init /\ [][Next]_vars
=============================================================================
