---------------------------- MODULE MCStateQueue ----------------------------
(* Small instances of StateQueue for TLC. *)
EXTENDS StateQueue, TLC

CONSTANTS a

\* init() found one start state.
OneStartState == [k \in Queues |-> IF k = 0 THEN a ELSE Null]
NoStartState == [k \in Queues |-> Null]

\* explore(): a thread enqueues to its own queue only.
OwnQueue == [t \in Threads |-> {t}]
\* Everybody uses queue 0.
SharedQueue == [t \in Threads |-> {0}]

Symmetry == Permutations(Nodes) \cup Permutations(States \ {a})
=============================================================================
