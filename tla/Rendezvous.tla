----------------------------- MODULE Rendezvous -----------------------------
(***************************************************************************)
(* The thread rendezvous of the generated verifier (the "Thread rendezvous *)
(* support" part of rumur/resources/header.c): a barrier over a shrinking  *)
(* set of threads, built from one mutex, one condition variable and two    *)
(* counters.                                                               *)
(*                                                                         *)
(* One step is what a thread does between taking rendezvous_lock and       *)
(* giving it up, except that a leader, which keeps the lock while it runs  *)
(* the caller's action, takes two.                                         *)
(*                                                                         *)
(*    rpc[t]      thread t is ...                                          *)
(*    "idle"      not counted yet: the initial thread is still alone       *)
(*    "new"       counted by start_secondary_threads, not running yet      *)
(*    "run"       outside the rendezvous                                   *)
(*    "follow"    in rendezvous_depart as a follower, still with the lock  *)
(*    "wait"      in pthread_cond_wait                                     *)
(*    "woken"     signalled, about to retake the lock and leave            *)
(*    "lead"      the leader, before its action                            *)
(*    "led"       the leader, after its action                             *)
(*    "outlead"   "outled": the same two points inside rendezvous_opt_out  *)
(*    "outretry"  about to arrive again ("goto retry")                     *)
(*    "out"       opted out                                                *)
(***************************************************************************)
EXTENDS Naturals, FiniteSets

CONSTANTS
    Threads,   \* the threads of the verifier
    Main,      \* the initial thread, thread_id 0
    NoThread   \* the owner of a free mutex

ASSUME ThreadsAssumption ==
    /\ IsFiniteSet(Threads)
    /\ Main \in Threads
    /\ NoThread \notin Threads

VARIABLES
    rendezvous_lock,      \* the thread that owns the mutex, or NoThread
    running_count,        \* threads opted in to the rendezvous
    rendezvous_pending,   \* threads opted in that have yet to arrive
    rpc                   \* where each thread is

rendezvousVars == <<rendezvous_lock, running_count, rendezvous_pending, rpc>>

RPC == {"idle", "new", "run", "follow", "wait", "woken", "lead", "led",
        "outlead", "outled", "outretry", "out"}

\* Threads that lead the rendezvous and hold its lock.
Leading == {"lead", "led", "outlead", "outled"}

RendezvousInit ==
    /\ rendezvous_lock = NoThread
    /\ running_count = 1
    /\ rendezvous_pending = 1
    /\ rpc = [t \in Threads |-> IF t = Main THEN "run" ELSE "idle"]

-----------------------------------------------------------------------------

\* The operators named Bug... are mistakes the properties below must catch.

\* What start_secondary_threads sets both counters to.
BugStartedThreads == Cardinality(Threads) - 1
StartedThreads == Cardinality(Threads)

\* start_secondary_threads: the counters are raised for everybody before the
\* first pthread_create.
StartSecondaryThreads(t) ==
    /\ t = Main
    /\ rpc[t] = "run"
    /\ \A u \in Threads \ {t} : rpc[u] = "idle"
    /\ running_count' = StartedThreads
    /\ rendezvous_pending' = StartedThreads
    /\ rpc' = [u \in Threads |-> IF u = t THEN "run" ELSE "new"]
    /\ UNCHANGED rendezvous_lock

\* A created thread gets to run, at any time after its creation.
ThreadMain(t) ==
    /\ rpc[t] = "new"
    /\ rpc' = [rpc EXCEPT ![t] = "run"]
    /\ UNCHANGED <<rendezvous_lock, running_count, rendezvous_pending>>

\* "If we were the last to arrive then it was our arrival that dropped the
\* counter to zero."
BugLastToArrive == rendezvous_pending <= 2
LastToArrive == rendezvous_pending = 1

\* rendezvous_arrive on behalf of rendezvous(): the lock stays with the caller.
Arrive(t) ==
    /\ rpc[t] = "run"
    /\ rendezvous_lock = NoThread
    /\ rendezvous_pending' = rendezvous_pending - 1
    /\ rendezvous_lock' = t
    /\ rpc' = [rpc EXCEPT ![t] =
                 IF LastToArrive THEN "lead" ELSE "follow"]
    /\ UNCHANGED running_count

\* rendezvous_depart, follower: pthread_cond_wait gives the lock up.
Wait(t) ==
    /\ rpc[t] = "follow"
    /\ rendezvous_lock' = NoThread
    /\ rpc' = [rpc EXCEPT ![t] = "wait"]
    /\ UNCHANGED <<running_count, rendezvous_pending>>

\* rendezvous_depart, leader: action().
LeaderAction(t) ==
    /\ rpc[t] \in {"lead", "outlead"}
    /\ rpc' = [rpc EXCEPT ![t] = IF rpc[t] = "lead" THEN "led" ELSE "outled"]
    /\ UNCHANGED <<rendezvous_lock, running_count, rendezvous_pending>>

\* pthread_cond_broadcast (the mistake: pthread_cond_signal).
Sleeping == {u \in Threads : rpc[u] = "wait"}
BugWoken == IF Sleeping = {} THEN {} ELSE {CHOOSE u \in Sleeping : TRUE}
Woken == Sleeping

\* The counter for the next rendezvous.
BugPendingAfter == rendezvous_pending
PendingAfter == running_count

\* rendezvous_depart, leader: reset the counter, wake every follower, unlock.
Depart(t) ==
    /\ rpc[t] \in {"led", "outled"}
    /\ rendezvous_pending' = PendingAfter
    /\ rendezvous_lock' = NoThread
    /\ rpc' = [u \in Threads |->
                 CASE u = t /\ rpc[t] = "led"    -> "run"
                   [] u = t /\ rpc[t] = "outled" -> "outretry"
                   [] u \in Woken                -> "woken"
                   [] OTHER                      -> rpc[u]]
    /\ UNCHANGED running_count

\* pthread_cond_wait returns with the lock, which rendezvous_depart releases.
Leave(t) ==
    /\ rpc[t] = "woken"
    /\ rendezvous_lock = NoThread
    /\ rpc' = [rpc EXCEPT ![t] = "run"]
    /\ UNCHANGED <<rendezvous_lock, running_count, rendezvous_pending>>

\* "leader && running_count > 1"
BugLeadsNever == FALSE
BugLeadsAlone == LastToArrive
LeadsOptOut == LastToArrive /\ running_count > 1

\* rendezvous_opt_out: a caller that completes the others' rendezvous leads it
\* and tries again; any other caller is removed.
OptOut(t) ==
    /\ rpc[t] \in {"run", "outretry"}
    /\ rendezvous_lock = NoThread
    /\ rendezvous_pending' = rendezvous_pending - 1
    /\ IF LeadsOptOut
         THEN /\ rpc' = [rpc EXCEPT ![t] = "outlead"]
              /\ rendezvous_lock' = t
              /\ UNCHANGED running_count
         ELSE /\ rpc' = [rpc EXCEPT ![t] = "out"]
              /\ running_count' = running_count - 1
              /\ UNCHANGED rendezvous_lock

RendezvousStep(t) ==
    \/ StartSecondaryThreads(t)
    \/ ThreadMain(t)
    \/ Arrive(t)
    \/ Wait(t)
    \/ LeaderAction(t)
    \/ Depart(t)
    \/ Leave(t)
    \/ OptOut(t)

\* Every thread has opted out, or the initial thread has while still alone.
RendezvousDone ==
    /\ \A t \in Threads : rpc[t] \in {"out", "idle"}
    /\ UNCHANGED rendezvousVars

RendezvousNext == RendezvousDone \/ \E t \in Threads : RendezvousStep(t)

\* The scheduler runs every thread, and a thread outside the rendezvous
\* comes back to it or opts out: with a migration pending every thread of the
\* verifier runs into it (set_insert, set_expand) or finishes (exit_with).
RendezvousFairness ==
    \A t \in Threads :
        /\ WF_rendezvousVars(ThreadMain(t))
        /\ WF_rendezvousVars(Arrive(t) \/ OptOut(t))
        /\ WF_rendezvousVars(Wait(t))
        /\ WF_rendezvousVars(LeaderAction(t))
        /\ WF_rendezvousVars(Depart(t))
        /\ WF_rendezvousVars(Leave(t))

RendezvousSpec == RendezvousInit /\ [][RendezvousNext]_rendezvousVars
RendezvousFairSpec == RendezvousSpec /\ RendezvousFairness

\* POSIX lets pthread_cond_wait return although nobody signalled.
SpuriousWakeup(t) ==
    /\ rpc[t] = "wait"
    /\ rpc' = [rpc EXCEPT ![t] = "woken"]
    /\ UNCHANGED <<rendezvous_lock, running_count, rendezvous_pending>>

\* The same program on a system that uses that freedom.
SpuriousSpec ==
    RendezvousInit
    /\ [][RendezvousNext \/ \E t \in Threads : SpuriousWakeup(t)]_rendezvousVars

-----------------------------------------------------------------------------
(***************************************************************************)
(* Properties                                                              *)
(***************************************************************************)

\* The counters are naturals (size_t in the code: they never wrap below zero)
\* and every thread is at a known point.
RendezvousTypeOK ==
    /\ rendezvous_lock \in Threads \cup {NoThread}
    /\ running_count \in Nat
    /\ rendezvous_pending \in Nat
    /\ rpc \in [Threads -> RPC]

\* Threads the barrier counts, and those of them it still waits for.
OptedIn == {t \in Threads : rpc[t] \notin {"idle", "out"}}
Absent == {t \in Threads : rpc[t] \in {"new", "run", "woken", "outretry"}}

\* The comments on running_count and rendezvous_pending ("how many threads are
\* opted in to rendezvous", "... and not sleeping"): the counters agree with
\* where the threads really are, through arrivals, wakeups and opt-outs.  In
\* particular rendezvous_arrive always finds a token to take.
CountersAgree ==
    /\ running_count = Cardinality(OptedIn)
    /\ rendezvous_pending = Cardinality(Absent)

\* "a rendezvous point is being exited while some participating threads have
\* yet to arrive" (the assertion in rendezvous_depart) never happens: while a
\* leader runs its action every other thread sleeps or has left for good.  This
\* is what set_update relies on to free the old set.
LeaderAlone ==
    \A t \in Threads :
        rpc[t] \in Leading =>
            \A u \in Threads \ {t} : rpc[u] \in {"wait", "out", "idle"}

\* The same assertion read literally, for the runs with spurious wakeups: no
\* thread that has yet to arrive is running while a leader completes the
\* rendezvous.
NobodyStillToArrive ==
    \A t \in Threads :
        rpc[t] \in Leading =>
            \A u \in Threads \ {t} : rpc[u] \notin {"new", "run", "outretry"}

\* Nobody is left behind: a thread that sleeps at the rendezvous gets out of it,
\* although others may be opting out at the same moment.
WaiterReleased == \A t \in Threads : rpc[t] = "wait" ~> rpc[t] = "run"

-----------------------------------------------------------------------------
(***************************************************************************)
(* What the rendezvous promises, and how its state maps to that promise.   *)
(***************************************************************************)

\* A thread is inside the barrier from its arrival to the leader's departure.
InsideBarrier == {t \in Threads : rpc[t] \in Leading \cup {"follow", "wait"}}

B == INSTANCE AbstractBarrier
        WITH Parties <- Threads, First <- Main,
             members <- OptedIn, inside <- InsideBarrier

\* Every step of the rendezvous is a step of the abstract barrier or changes
\* nothing in it: all members leave together once all have come, and a member
\* that resigns never leaves a complete barrier behind with nobody to open it.
ImplementsBarrier == B!BarrierSpec
=============================================================================
