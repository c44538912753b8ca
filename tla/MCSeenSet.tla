----------------------------- MODULE MCSeenSet -----------------------------
(* Small instances of SeenSet for TLC. *)
EXTENDS SeenSet, TLC

CONSTANTS st1, st2, st3

\* Two states that collide in every table and one that follows them.
CollidingHash == [s \in States |-> CASE s = st1 -> 3 [] s = st2 -> 3 [] s = st3 -> 0]

\* The secondary threads are interchangeable.
SecondaryThreads == Permutations(Threads \ {Main})
=============================================================================
