------------------------------ MODULE MCProcess ------------------------------
(* Small instances of Process for TLC. *)
EXTENDS Process

CONSTANTS mild, strict

\* A process with both roles.  The first text leaves the resolver the timeout of
\* [upstream], the second switches a TTL of the cache off and needs a restart, too.
Edits == {[mode |-> "both", dot |-> FALSE, hot |-> mild,
           ttl |-> 1, timeout |-> 0, fallback |-> 2, cold |-> 1],
          [mode |-> "both", dot |-> FALSE, hot |-> strict,
           ttl |-> 0, timeout |-> 1, fallback |-> 2, cold |-> 2]}

\* The mode changes, too, and a DoT listener serves the relay; no time is zero.
Moded(mode, hot) == [mode |-> mode, dot |-> TRUE, hot |-> hot,
                     ttl |-> 1, timeout |-> 1, fallback |-> 1, cold |-> 1]
EditsOfMode == {Moded("both", mild), Moded("relay", mild), Moded("relay", strict)}
==============================================================================
