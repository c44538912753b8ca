-------------------------- MODULE AbstractSeenSet --------------------------
(***************************************************************************)
(* What explore() relies on when it calls set_insert from several threads: *)
(* a set that only grows, and an insertion that takes effect at one moment *)
(* between its call and its return and says whether it was the one that    *)
(* added the state.                                                        *)
(***************************************************************************)
CONSTANTS Callers, Elements, NoElement

VARIABLES
    seen,   \* the elements added so far
    op      \* op[c]: the insertion that c is in the middle of

setVars == <<seen, op>>

NoOp == [arg |-> NoElement, added |-> FALSE]

SetInit == seen = {} /\ op = [c \in Callers |-> NoOp]

Call(c, e) ==
    /\ op[c] = NoOp
    /\ op' = [op EXCEPT ![c] = [arg |-> e, added |-> FALSE]]
    /\ UNCHANGED seen

Add(c) ==
    /\ op[c].arg \in Elements \ seen
    /\ seen' = seen \cup {op[c].arg}
    /\ op' = [op EXCEPT ![c].added = TRUE]

\* true to the caller that added the element ...
ReturnTrue(c) ==
    /\ op[c].added
    /\ op' = [op EXCEPT ![c] = NoOp]
    /\ UNCHANGED seen

\* ... and false to one that found it in the set.
ReturnFalse(c) ==
    /\ op[c].arg \in seen
    /\ ~op[c].added
    /\ op' = [op EXCEPT ![c] = NoOp]
    /\ UNCHANGED seen

SetNext ==
    \E c \in Callers :
        \/ \E e \in Elements : Call(c, e)
        \/ Add(c)
        \/ ReturnTrue(c)
        \/ ReturnFalse(c)

SetSpec == SetInit /\ [][SetNext]_setVars
=============================================================================
