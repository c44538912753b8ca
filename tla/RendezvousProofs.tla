-------------------------- MODULE RendezvousProofs --------------------------
(***************************************************************************)
(* Proofs about Rendezvous, for every finite set of threads.               *)
(*                                                                         *)
(* LeaderAlone is not inductive: that a leader has nobody left to wait for *)
(* follows from its having seen rendezvous_pending drop to zero, hence     *)
(* from CountersAgree, and that no other thread is half way through the    *)
(* lock's critical section follows from LockOwner below.                   *)
(***************************************************************************)
EXTENDS Rendezvous, FiniteSetTheorems, TLAPS

\* The mutex is held exactly by the thread between its arrival and its wait or
\* departure.
LockOwner ==
    \A t \in Threads : rendezvous_lock = t <=> rpc[t] \in Leading \cup {"follow"}

\* A leader is a thread that took the last token.
LeaderTookLast ==
    \A t \in Threads : rpc[t] \in Leading => rendezvous_pending = 0

\* Before start_secondary_threads only the initial thread is active; afterwards
\* nobody is idle.
AloneOrStarted ==
    \/ \A t \in Threads \ {Main} : rpc[t] = "idle"
    \/ \A t \in Threads : rpc[t] # "idle"

RendezvousInv ==
    /\ RendezvousTypeOK
    /\ CountersAgree
    /\ LockOwner
    /\ LeaderTookLast
    /\ AloneOrStarted
    /\ rpc[Main] \notin {"idle", "new"}

-----------------------------------------------------------------------------

LEMMA ThreadSubsetsFinite ==
    /\ IsFiniteSet(OptedIn)
    /\ IsFiniteSet(Absent)
    /\ Cardinality(OptedIn) \in Nat
    /\ Cardinality(Absent) \in Nat
<1>1. OptedIn \subseteq Threads /\ Absent \subseteq Threads
  BY DEF OptedIn, Absent
<1>2. IsFiniteSet(OptedIn) /\ IsFiniteSet(Absent)
  BY <1>1, ThreadsAssumption, FS_Subset
<1>. QED
  BY <1>2, FS_CardinalityType

\* What the inductive invariant is for: a leader saw the last token go.
LEMMA InvImpliesLeaderAlone == RendezvousInv => LeaderAlone
<1>. SUFFICES ASSUME RendezvousInv,
                     NEW t \in Threads, rpc[t] \in Leading,
                     NEW u \in Threads \ {t}
              PROVE  rpc[u] \in {"wait", "out", "idle"}
  BY DEF LeaderAlone
<1>1. Absent = {}
  <2>1. Cardinality(Absent) = 0
    BY DEF RendezvousInv, LeaderTookLast, CountersAgree
  <2>. QED
    BY <2>1, ThreadSubsetsFinite, FS_EmptySet
<1>2. rpc[u] \notin {"new", "run", "woken", "outretry"}
  BY <1>1 DEF Absent
<1>3. rpc[u] \notin Leading \cup {"follow"}
  BY DEF RendezvousInv, LockOwner
<1>4. rpc[u] \in RPC
  BY DEF RendezvousInv, RendezvousTypeOK
<1>. QED
  BY <1>2, <1>3, <1>4 DEF RPC, Leading

-----------------------------------------------------------------------------

\* A thread that is outside the rendezvous is one of those it waits for.
LEMMA TokenAvailable ==
    ASSUME RendezvousInv, NEW t \in Threads, rpc[t] \in {"run", "outretry"}
    PROVE  /\ t \in Absent /\ t \in OptedIn
           /\ rendezvous_pending \in Nat \ {0}
           /\ running_count \in Nat \ {0}
           /\ Cardinality(Absent \ {t}) = rendezvous_pending - 1
           /\ Cardinality(OptedIn \ {t}) = running_count - 1
<1>1. t \in Absent /\ t \in OptedIn
  BY DEF Absent, OptedIn
<1>2. /\ Cardinality(Absent \ {t}) = Cardinality(Absent) - 1
      /\ Cardinality(OptedIn \ {t}) = Cardinality(OptedIn) - 1
  BY <1>1, ThreadSubsetsFinite, FS_RemoveElement
<1>3. Cardinality(Absent) # 0 /\ Cardinality(OptedIn) # 0
  BY <1>1, ThreadSubsetsFinite, FS_EmptySet
<1>. QED
  BY <1>1, <1>2, <1>3, ThreadSubsetsFinite DEF RendezvousInv, CountersAgree

LEMMA InitEstablishesInv == RendezvousInit => RendezvousInv
<1>. SUFFICES ASSUME RendezvousInit PROVE RendezvousInv
  OBVIOUS
<1>1. RendezvousTypeOK
  BY ThreadsAssumption DEF RendezvousInit, RendezvousTypeOK, RPC
<1>2. OptedIn = {Main} /\ Absent = {Main}
  BY ThreadsAssumption DEF RendezvousInit, OptedIn, Absent
<1>3. CountersAgree
  BY <1>2, FS_Singleton DEF RendezvousInit, CountersAgree
<1>4. LockOwner /\ LeaderTookLast /\ AloneOrStarted
      /\ rpc[Main] \notin {"idle", "new"}
  BY ThreadsAssumption
  DEF RendezvousInit, LockOwner, LeaderTookLast, AloneOrStarted, Leading
<1>. QED
  BY <1>1, <1>3, <1>4 DEF RendezvousInv

LEMMA StartSecondaryThreadsPreserves ==
    ASSUME RendezvousInv, NEW t \in Threads, StartSecondaryThreads(t)
    PROVE  RendezvousInv'
<1>. USE DEF StartSecondaryThreads, StartedThreads
<1>1. Cardinality(Threads) \in Nat
  BY ThreadsAssumption, FS_CardinalityType
<1>2. RendezvousTypeOK'
  BY <1>1 DEF RendezvousInv, RendezvousTypeOK, RPC
<1>3. OptedIn' = Threads /\ Absent' = Threads
  BY DEF OptedIn, Absent
<1>4. CountersAgree'
  BY <1>3 DEF CountersAgree
<1>5. LockOwner' /\ LeaderTookLast'
  BY DEF RendezvousInv, LockOwner, LeaderTookLast, Leading
<1>6. AloneOrStarted' /\ rpc'[Main] \notin {"idle", "new"}
  BY ThreadsAssumption DEF AloneOrStarted
<1>. QED
  BY <1>2, <1>4, <1>5, <1>6 DEF RendezvousInv

LEMMA ThreadMainPreserves ==
    ASSUME RendezvousInv, NEW t \in Threads, ThreadMain(t)
    PROVE  RendezvousInv'
<1>. USE DEF ThreadMain
<1>1. RendezvousTypeOK'
  BY DEF RendezvousInv, RendezvousTypeOK, RPC
<1>2. OptedIn' = OptedIn /\ Absent' = Absent
  BY DEF RendezvousInv, RendezvousTypeOK, OptedIn, Absent
<1>3. CountersAgree'
  BY <1>2 DEF RendezvousInv, CountersAgree
<1>4. LockOwner' /\ LeaderTookLast'
  BY DEF RendezvousInv, RendezvousTypeOK, LockOwner, LeaderTookLast, Leading
<1>5. AloneOrStarted' /\ rpc'[Main] \notin {"idle", "new"}
  BY ThreadsAssumption DEF RendezvousInv, RendezvousTypeOK, AloneOrStarted
<1>. QED
  BY <1>1, <1>3, <1>4, <1>5 DEF RendezvousInv

LEMMA ArrivePreserves ==
    ASSUME RendezvousInv, NEW t \in Threads, Arrive(t)
    PROVE  RendezvousInv'
<1>. USE DEF Arrive, LastToArrive
<1>0. rendezvous_pending \in Nat \ {0}
  BY TokenAvailable
<1>1. RendezvousTypeOK'
  BY <1>0 DEF RendezvousInv, RendezvousTypeOK, RPC
<1>2. OptedIn' = OptedIn /\ Absent' = Absent \ {t}
  BY DEF RendezvousInv, RendezvousTypeOK, OptedIn, Absent
<1>3. CountersAgree'
  BY <1>2, TokenAvailable DEF RendezvousInv, CountersAgree
<1>4. \A u \in Threads : rpc[u] \notin Leading \cup {"follow"}
  BY ThreadsAssumption DEF RendezvousInv, LockOwner
<1>5. LockOwner'
  BY <1>4 DEF RendezvousInv, RendezvousTypeOK, LockOwner, Leading
<1>6. LeaderTookLast'
  BY <1>0, <1>4 DEF RendezvousInv, RendezvousTypeOK, LeaderTookLast, Leading
<1>7. AloneOrStarted' /\ rpc'[Main] \notin {"idle", "new"}
  BY ThreadsAssumption DEF RendezvousInv, RendezvousTypeOK, AloneOrStarted
<1>. QED
  BY <1>1, <1>3, <1>5, <1>6, <1>7 DEF RendezvousInv

LEMMA WaitPreserves ==
    ASSUME RendezvousInv, NEW t \in Threads, Wait(t)
    PROVE  RendezvousInv'
<1>. USE DEF Wait
<1>1. RendezvousTypeOK'
  BY DEF RendezvousInv, RendezvousTypeOK, RPC
<1>2. OptedIn' = OptedIn /\ Absent' = Absent
  BY DEF RendezvousInv, RendezvousTypeOK, OptedIn, Absent
<1>3. CountersAgree'
  BY <1>2 DEF RendezvousInv, CountersAgree
<1>4. LockOwner' /\ LeaderTookLast'
  BY ThreadsAssumption
  DEF RendezvousInv, RendezvousTypeOK, LockOwner, LeaderTookLast, Leading
<1>5. AloneOrStarted' /\ rpc'[Main] \notin {"idle", "new"}
  BY ThreadsAssumption DEF RendezvousInv, RendezvousTypeOK, AloneOrStarted
<1>. QED
  BY <1>1, <1>3, <1>4, <1>5 DEF RendezvousInv

LEMMA LeaderActionPreserves ==
    ASSUME RendezvousInv, NEW t \in Threads, LeaderAction(t)
    PROVE  RendezvousInv'
<1>. USE DEF LeaderAction
<1>1. RendezvousTypeOK'
  BY DEF RendezvousInv, RendezvousTypeOK, RPC
<1>2. OptedIn' = OptedIn /\ Absent' = Absent
  BY DEF RendezvousInv, RendezvousTypeOK, OptedIn, Absent
<1>3. CountersAgree'
  BY <1>2 DEF RendezvousInv, CountersAgree
<1>4. LockOwner' /\ LeaderTookLast'
  BY DEF RendezvousInv, RendezvousTypeOK, LockOwner, LeaderTookLast, Leading
<1>5. AloneOrStarted' /\ rpc'[Main] \notin {"idle", "new"}
  BY ThreadsAssumption DEF RendezvousInv, RendezvousTypeOK, AloneOrStarted
<1>. QED
  BY <1>1, <1>3, <1>4, <1>5 DEF RendezvousInv

\* The counter is reset for everybody who is still opted in: by LeaderAlone they
\* all slept, so they are all awaited again.
LEMMA DepartPreserves ==
    ASSUME RendezvousInv, NEW t \in Threads, Depart(t)
    PROVE  RendezvousInv'
<1>. USE DEF Depart, Woken, Sleeping, PendingAfter
<1>0. \A u \in Threads \ {t} : rpc[u] \in {"wait", "out", "idle"}
  BY InvImpliesLeaderAlone DEF LeaderAlone, Leading
<1>1. RendezvousTypeOK'
  BY DEF RendezvousInv, RendezvousTypeOK, RPC
<1>2. OptedIn' = OptedIn /\ Absent' = OptedIn
  BY <1>0 DEF RendezvousInv, RendezvousTypeOK, OptedIn, Absent
<1>3. CountersAgree'
  BY <1>2 DEF RendezvousInv, CountersAgree
<1>4. LockOwner' /\ LeaderTookLast'
  BY <1>0, ThreadsAssumption
  DEF RendezvousInv, RendezvousTypeOK, LockOwner, LeaderTookLast, Leading
<1>5. AloneOrStarted' /\ rpc'[Main] \notin {"idle", "new"}
  BY <1>0, ThreadsAssumption DEF RendezvousInv, RendezvousTypeOK, AloneOrStarted
<1>. QED
  BY <1>1, <1>3, <1>4, <1>5 DEF RendezvousInv

LEMMA LeavePreserves ==
    ASSUME RendezvousInv, NEW t \in Threads, Leave(t)
    PROVE  RendezvousInv'
<1>. USE DEF Leave
<1>1. RendezvousTypeOK'
  BY DEF RendezvousInv, RendezvousTypeOK, RPC
<1>2. OptedIn' = OptedIn /\ Absent' = Absent
  BY DEF RendezvousInv, RendezvousTypeOK, OptedIn, Absent
<1>3. CountersAgree'
  BY <1>2 DEF RendezvousInv, CountersAgree
<1>4. LockOwner' /\ LeaderTookLast'
  BY DEF RendezvousInv, RendezvousTypeOK, LockOwner, LeaderTookLast, Leading
<1>5. AloneOrStarted' /\ rpc'[Main] \notin {"idle", "new"}
  BY ThreadsAssumption DEF RendezvousInv, RendezvousTypeOK, AloneOrStarted
<1>. QED
  BY <1>1, <1>3, <1>4, <1>5 DEF RendezvousInv

LEMMA OptOutPreserves ==
    ASSUME RendezvousInv, NEW t \in Threads, OptOut(t)
    PROVE  RendezvousInv'
<1>. USE DEF LeadsOptOut, LastToArrive
<1>0. /\ rendezvous_pending \in Nat \ {0} /\ running_count \in Nat \ {0}
      /\ rpc[t] \in {"run", "outretry"}
  BY TokenAvailable DEF OptOut
<1>1. RendezvousTypeOK'
  BY <1>0 DEF OptOut, RendezvousInv, RendezvousTypeOK, RPC
<1>2. \A u \in Threads : rpc[u] \notin Leading \cup {"follow"}
  BY ThreadsAssumption DEF OptOut, RendezvousInv, LockOwner
<1>3. CountersAgree' /\ LockOwner' /\ LeaderTookLast'
  <2>1. CASE LeadsOptOut
    <3>1. OptedIn' = OptedIn /\ Absent' = Absent \ {t}
      BY <2>1, <1>0 DEF OptOut, RendezvousInv, RendezvousTypeOK, OptedIn, Absent
    <3>2. CountersAgree'
      BY <3>1, <2>1, <1>0, TokenAvailable DEF OptOut, RendezvousInv, CountersAgree
    <3>3. LockOwner' /\ LeaderTookLast'
      BY <2>1, <1>2 DEF OptOut, RendezvousInv, RendezvousTypeOK, LockOwner,
                        LeaderTookLast, Leading
    <3>. QED
      BY <3>2, <3>3
  <2>2. CASE ~(LeadsOptOut)
    <3>1. OptedIn' = OptedIn \ {t} /\ Absent' = Absent \ {t}
      BY <2>2, <1>0 DEF OptOut, RendezvousInv, RendezvousTypeOK, OptedIn, Absent
    <3>2. CountersAgree'
      BY <3>1, <2>2, <1>0, TokenAvailable DEF OptOut, RendezvousInv, CountersAgree
    <3>3. LockOwner' /\ LeaderTookLast'
      BY <2>2, <1>2, ThreadsAssumption
      DEF OptOut, RendezvousInv, RendezvousTypeOK, LockOwner, LeaderTookLast, Leading
    <3>. QED
      BY <3>2, <3>3
  <2>. QED
    BY <2>1, <2>2
<1>4. AloneOrStarted' /\ rpc'[Main] \notin {"idle", "new"}
  BY ThreadsAssumption DEF OptOut, RendezvousInv, RendezvousTypeOK, AloneOrStarted
<1>. QED
  BY <1>1, <1>3, <1>4 DEF RendezvousInv

LEMMA NextPreserves ==
    RendezvousInv /\ [RendezvousNext]_rendezvousVars => RendezvousInv'
<1>. SUFFICES ASSUME RendezvousInv, [RendezvousNext]_rendezvousVars
              PROVE  RendezvousInv'
  OBVIOUS
<1>1. CASE UNCHANGED rendezvousVars
  BY <1>1 DEF rendezvousVars, RendezvousInv, RendezvousTypeOK, CountersAgree,
              OptedIn, Absent, LockOwner, LeaderTookLast, AloneOrStarted, Leading
<1>2. ASSUME NEW t \in Threads, RendezvousStep(t)
      PROVE  RendezvousInv'
  BY <1>2, StartSecondaryThreadsPreserves, ThreadMainPreserves, ArrivePreserves,
     WaitPreserves, LeaderActionPreserves, DepartPreserves, LeavePreserves,
     OptOutPreserves
  DEF RendezvousStep
<1>. QED
  BY <1>1, <1>2 DEF RendezvousNext, RendezvousDone

\* Every thread stays at a known point and neither counter ever drops below
\* zero, for any finite number of threads.
THEOREM RendezvousTypeCorrect == RendezvousSpec => []RendezvousTypeOK
<1>1. RendezvousInv => RendezvousTypeOK
  BY DEF RendezvousInv
<1>. QED
  BY <1>1, InitEstablishesInv, NextPreserves, PTL DEF RendezvousSpec

\* running_count and rendezvous_pending always count the threads their comments
\* say they count.
THEOREM RendezvousCountersAgree == RendezvousSpec => []CountersAgree
<1>1. RendezvousInv => CountersAgree
  BY DEF RendezvousInv
<1>. QED
  BY <1>1, InitEstablishesInv, NextPreserves, PTL DEF RendezvousSpec

\* The leader's action runs while nobody else can: set_update may free the old
\* set without further synchronisation.
THEOREM RendezvousLeaderAlone == RendezvousSpec => []LeaderAlone
BY InvImpliesLeaderAlone, InitEstablishesInv, NextPreserves, PTL DEF RendezvousSpec

-----------------------------------------------------------------------------
(***************************************************************************)
(* The rendezvous implements the abstract barrier.                         *)
(***************************************************************************)

\* Members inside are those that are not awaited.
LEMMA InsideOrAbsent ==
    RendezvousTypeOK =>
        /\ InsideBarrier \cup Absent = OptedIn
        /\ InsideBarrier \cap Absent = {}
BY DEF RendezvousTypeOK, RPC, InsideBarrier, Absent, OptedIn, Leading

LEMMA InitImplements == RendezvousInit => B!BarrierInit
<1>. SUFFICES ASSUME RendezvousInit PROVE OptedIn = {Main} /\ InsideBarrier = {}
  BY DEF B!BarrierInit
<1>. QED
  BY ThreadsAssumption DEF RendezvousInit, OptedIn, InsideBarrier, Leading

\* When the awaited thread t is the last one, everybody else is inside.
LEMMA LastOneAwaited ==
    ASSUME RendezvousInv, NEW t \in Threads, rpc[t] \in {"run", "outretry"}
    PROVE  /\ rendezvous_pending = 1 <=> Absent = {t}
           /\ running_count = 1 <=> OptedIn = {t}
<1>1. t \in Absent /\ t \in OptedIn
  BY DEF Absent, OptedIn
<1>2. /\ IsFiniteSet(Absent \ {t}) /\ IsFiniteSet(OptedIn \ {t})
      /\ Cardinality(Absent \ {t}) = rendezvous_pending - 1
      /\ Cardinality(OptedIn \ {t}) = running_count - 1
  BY ThreadSubsetsFinite, TokenAvailable, FS_Subset
<1>3. /\ Cardinality(Absent \ {t}) = 0 <=> Absent \ {t} = {}
      /\ Cardinality(OptedIn \ {t}) = 0 <=> OptedIn \ {t} = {}
  BY <1>2, FS_EmptySet
<1>4. rendezvous_pending \in Nat /\ running_count \in Nat
  BY DEF RendezvousInv, RendezvousTypeOK
<1>. QED
  BY <1>1, <1>2, <1>3, <1>4

LEMMA StepImplements ==
    ASSUME RendezvousInv, NEW t \in Threads, RendezvousStep(t)
    PROVE  B!BarrierNext \/ (OptedIn' = OptedIn /\ InsideBarrier' = InsideBarrier)
<1>. USE DEF RendezvousInv, RendezvousTypeOK, LeadsOptOut, LastToArrive
<1>1. CASE StartSecondaryThreads(t)
  <2>1. OptedIn = {Main} /\ InsideBarrier = {}
    BY <1>1 DEF StartSecondaryThreads, StartedThreads, OptedIn, InsideBarrier, Leading
  <2>2. OptedIn' = Threads /\ InsideBarrier' = {}
    BY <1>1 DEF StartSecondaryThreads, StartedThreads, OptedIn, InsideBarrier, Leading
  <2>. QED
    BY <2>1, <2>2 DEF B!BarrierNext, B!JoinAll
<1>2. CASE Arrive(t)
  <2>1. t \in OptedIn \ InsideBarrier /\ OptedIn' = OptedIn
        /\ InsideBarrier' = InsideBarrier \cup {t}
    BY <1>2 DEF Arrive, OptedIn, InsideBarrier, Leading
  <2>. QED
    BY <2>1 DEF B!BarrierNext, B!Enter
<1>3. CASE Depart(t)
  <2>1. \A u \in Threads \ {t} : rpc[u] \in {"wait", "out", "idle"}
    BY <1>3, InvImpliesLeaderAlone DEF Depart, LeaderAlone, Leading
  <2>2. t \in OptedIn /\ InsideBarrier = OptedIn
    BY <1>3, <2>1 DEF Depart, Woken, Sleeping, OptedIn, InsideBarrier, Leading
  <2>3. OptedIn' = OptedIn /\ InsideBarrier' = {}
    BY <1>3, <2>1 DEF Depart, Woken, Sleeping, OptedIn, InsideBarrier, Leading
  <2>. QED
    BY <2>2, <2>3 DEF B!BarrierNext, B!Open
<1>4. CASE OptOut(t)
  <2>0. t \in OptedIn \ InsideBarrier /\ rpc[t] \in {"run", "outretry"}
    BY <1>4 DEF OptOut, OptedIn, InsideBarrier, Leading
  <2>1. CASE LeadsOptOut
    <3>1. OptedIn' = OptedIn /\ InsideBarrier' = InsideBarrier \cup {t}
      BY <1>4, <2>0, <2>1 DEF OptOut, OptedIn, InsideBarrier, Leading
    <3>. QED
      BY <3>1, <2>0 DEF B!BarrierNext, B!Enter
  <2>2. CASE ~(LeadsOptOut)
    <3>1. OptedIn' = OptedIn \ {t} /\ InsideBarrier' = InsideBarrier
      BY <1>4, <2>0, <2>2 DEF OptOut, OptedIn, InsideBarrier, Leading
    <3>2. running_count \in Nat \ {0}
      BY <2>0, TokenAvailable
    <3>3. Absent # {t} \/ OptedIn = {t}
      BY <2>2, <2>0, <3>2, LastOneAwaited
    <3>4. OptedIn = {t} \/ OptedIn \ {t} # InsideBarrier
      BY <2>0, <3>3, InsideOrAbsent, TokenAvailable
    <3>. QED
      BY <3>1, <3>4, <2>0 DEF B!BarrierNext, B!Resign
  <2>. QED
    BY <2>1, <2>2
<1>5. CASE ThreadMain(t) \/ Wait(t) \/ LeaderAction(t) \/ Leave(t)
  BY <1>5 DEF ThreadMain, Wait, LeaderAction, Leave, OptedIn, InsideBarrier, Leading
<1>. QED
  BY <1>1, <1>2, <1>3, <1>4, <1>5 DEF RendezvousStep

LEMMA NextImplements ==
    RendezvousInv /\ [RendezvousNext]_rendezvousVars
        => [B!BarrierNext]_(B!barrierVars)
<1>. SUFFICES ASSUME RendezvousInv, [RendezvousNext]_rendezvousVars
              PROVE  B!BarrierNext
                     \/ (OptedIn' = OptedIn /\ InsideBarrier' = InsideBarrier)
  BY DEF B!barrierVars
<1>1. CASE UNCHANGED rendezvousVars
  BY <1>1 DEF rendezvousVars, OptedIn, InsideBarrier
<1>. QED
  BY <1>1, StepImplements DEF RendezvousNext, RendezvousDone

\* Mutex, condition variable and counters together implement a barrier that
\* opens for all its members at once and that an opt-out can never wedge, for
\* any finite number of threads.
THEOREM RendezvousImplementsBarrier == RendezvousSpec => ImplementsBarrier
BY InitEstablishesInv, NextPreserves, InitImplements, NextImplements, PTL
DEF RendezvousSpec, ImplementsBarrier, B!BarrierSpec
=============================================================================
