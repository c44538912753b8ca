-------------------------- MODULE AbstractBarrier --------------------------
(***************************************************************************)
(* What the callers of rendezvous() and rendezvous_opt_out() rely on: a    *)
(* barrier that opens for all its members at once, when all of them are    *)
(* inside, and whose membership can only shrink after it has grown once.   *)
(* The header comments of rendezvous_arrive, rendezvous_depart and         *)
(* rendezvous_opt_out are the informal version of it.                      *)
(***************************************************************************)
EXTENDS FiniteSets

CONSTANTS
    Parties,   \* everybody who may ever take part
    First      \* the only member at first

VARIABLES
    members,   \* who takes part now
    inside     \* members that have come and not been let go

barrierVars == <<members, inside>>

BarrierInit == members = {First} /\ inside = {}

\* Everybody joins, while the first member is outside.
JoinAll ==
    /\ members = {First}
    /\ inside = {}
    /\ members' = Parties
    /\ UNCHANGED inside

Enter(p) ==
    /\ p \in members \ inside
    /\ inside' = inside \cup {p}
    /\ UNCHANGED members

\* The barrier opens.
Open ==
    /\ members # {}
    /\ inside = members
    /\ inside' = {}
    /\ UNCHANGED members

\* A member outside gives up its membership, but not when it is the one the
\* others are waiting for.
Resign(p) ==
    /\ p \in members \ inside
    /\ members = {p} \/ members \ {p} # inside
    /\ members' = members \ {p}
    /\ UNCHANGED inside

BarrierNext ==
    \/ JoinAll
    \/ Open
    \/ \E p \in Parties : Enter(p) \/ Resign(p)

BarrierSpec == BarrierInit /\ [][BarrierNext]_barrierVars
=============================================================================
