-------------------------- MODULE StateQueueProofs --------------------------
(***************************************************************************)
(* Proofs about the queues: no node is touched after it was freed or freed *)
(* twice, what an enqueuer undoes is its own write, no state is lost,      *)
(* returned twice or left behind, the counts are right, and the whole      *)
(* implements first-in first-out queues with atomic operations.            *)
(*                                                                         *)
(* NodesInv accounts for every node in use.  It is on the list of one      *)
(* queue, or chained by an enqueuer whose compare-and-swap is still to     *)
(* come, or removed by one thread that is to free it; and these exclude    *)
(* each other.  The lists are given by a set of nodes per queue that the   *)
(* chained pointers map into itself one to one, from the head's node to    *)
(* the tail's: no order is needed here, and an existential quantifier      *)
(* stands for the set, for the code keeps no record of it.                 *)
(*                                                                         *)
(* Hazard pointers come in as Scanned: a thread that passes the second     *)
(* check protects a node that is on a list then, so one that is about to   *)
(* be freed is protected by those threads only that protected it when it   *)
(* was removed, and the scan comes to each of them.  Nothing in it rests   *)
(* on the ends never coming back to the same value.                        *)
(*                                                                         *)
(* OrderInv is about the order of the states.  Each queue has a walk,      *)
(* again bound by a quantifier: the seats from the head to the tail, of    *)
(* which each is where the one before it leads.  Every seat is Firm: it    *)
(* holds a state, and no enqueuer that may have to undo its write has      *)
(* written there.  So it is with the seat that a dequeuer has moved the    *)
(* head off and not read yet, whose node it protects.                      *)
(*                                                                         *)
(* BooksInv says where each state is: fresh, offered by one thread, in one *)
(* queue once, removed by one thread, or explored.  The count of a queue   *)
(* lags behind it by the calls that are between their compare-and-swap and *)
(* their update of it.  That nothing is left at the end needs what a call  *)
(* has Visited: a queue with a state in it is still ahead of some thread,  *)
(* for a thread that fills one has yet to call queue_dequeue, which then   *)
(* tries all of them.                                                      *)
(*                                                                         *)
(* Each step of queue_enqueue and queue_dequeue is shown to be one of four *)
(* Moves: a state is added, one is removed, one is returned, or none       *)
(* moves. These are the steps of AbstractQueues.                           *)
(***************************************************************************)
EXTENDS StateQueue, TLAPS, Integers, FiniteSetTheorems, WellFoundedInduction

Labels == {"idle", "eread", "efirst", "ehazard", "echeck", "ewrite", "ecas", "eundo",
           "ecount", "dread", "dhazard", "dcheck", "dnext", "dskip", "dcas", "dload",
           "dcount", "unhazard", "rold", "rnew", "rdefer", "done"}
Targets == Labels \cup {"dretry", "reclaim"}
Cells == States \cup Nodes \cup {Null}

\* Ends as they are stored and read: null together, the tail at a state.
Ends == {e \in EndsType : /\ e.head = Null <=> e.tail = Null
                          /\ e.tail # Null => IsStateSlot(e.tail)}

Locals == [pc : Labels, queue : Queues, s : States \cup {Null}, ends : Ends,
           old : Ends, node : Nodes \cup {Null}, attempts : Nat, got : Cells,
           victim : Nodes \cup {Null}, deferred : [1..THREADS-1 -> Nodes \cup {Null}],
           i : 0..THREADS-1, j : 0..THREADS, then : Targets, after : Targets]

QueuesTyped ==
    /\ mem \in [Nodes -> [1..NodeSlots+1 -> Cells]]
    /\ allocated \subseteq Nodes
    /\ ends \in [Queues -> Ends]
    /\ hazarded \in [Threads -> Nodes \cup {Null}]
    /\ th \in [Threads -> Locals]

-----------------------------------------------------------------------------
(***************************************************************************)
(* What the local variables l of a thread say.                             *)
(***************************************************************************)

\* Where the thread is, or goes once it has dropped its protection.
Goal(l) == IF l.pc = "unhazard" THEN l.then ELSE l.pc

EnqueueGoals == {"ehazard", "echeck", "ewrite", "ecas", "eundo"}
DequeueGoals == {"dhazard", "dcheck", "dnext", "dskip", "dcas", "dload"}

LocalsAgree(l) ==
    /\ Goal(l) \in {"eread", "efirst"} \cup EnqueueGoals => l.s \in States
    /\ Goal(l) = "efirst" => l.ends.tail = Null
    /\ Goal(l) \in EnqueueGoals => l.ends.tail # Null
    /\ Goal(l) \in DequeueGoals => l.ends.head # Null
    /\ l.pc \notin {"ecas", "eundo", "dskip"} => l.node = Null
    /\ l.pc = "unhazard" =>
         l.then \in {"efirst", "ehazard", "ecount", "dretry", "reclaim", "dcount"}
    /\ l.pc \in {"rold", "rnew", "rdefer"} \/ Goal(l) = "reclaim"
         => l.after \in {"dretry", "dcount"}
    /\ l.pc = "rold" => l.i \in 1..THREADS-1
    /\ l.pc = "dcas" => LastOne(l.ends) \/ IsStateSlot(l.ends.head)

\* The node whose protection has passed the second check.
Guards(l) ==
    IF l.pc \in {"ewrite", "ecas", "eundo"} THEN {Base(l.ends.tail)}
    ELSE IF l.pc \in {"dnext", "dskip", "dcas", "dload"} THEN {Base(l.ends.head)}
    ELSE {}

\* hazarded holds h, what the thread protects.
Protects(l, h) ==
    /\ Guards(l) \subseteq {h}
    /\ l.pc = "echeck" => h = Base(l.ends.tail)
    /\ l.pc = "dcheck" => h = Base(l.ends.head)

\* The node that the thread has allocated and chained, and not added yet.
Pending(l) == IF l.pc \in {"ecas", "eundo"} THEN {l.node} \ {Null} ELSE {}

\* The nodes that the thread has removed and not freed yet: the last one of a
\* queue, before its state is loaded, and those that reclaim knows.
Removed(l) ==
    IF l.pc = "dload" /\ LastOne(l.ends) THEN {Base(l.ends.head)} ELSE {}
Deferred(l) == {l.deferred[i] : i \in 1..THREADS-1} \ {Null}
Doomed(l) == ({l.victim} \ {Null}) \cup Deferred(l) \cup Removed(l)
Held(l) == Pending(l) \cup Doomed(l)

\* They are different nodes.
HeldOnce(l) ==
    /\ Pending(l) \cap Doomed(l) = {}
    /\ Deferred(l) \cap ({l.victim} \cup Removed(l)) = {}
    /\ \A i, j \in 1..THREADS-1 :
          l.deferred[i] = l.deferred[j] /\ l.deferred[i] # Null => i = j

\* The slot that the thread has filled and may have to empty again.
Writing(l) == l.pc \in {"ecas", "eundo"}
SlotOf(l) == NextHandle(l.ends.tail)
Written(l) == IF l.node = Null THEN l.s ELSE l.node

\* The node that the thread's scan in reclaim is about.
Reclaims(l) ==
    IF l.pc = "rnew" THEN {l.victim} \ {Null}
    ELSE IF l.pc = "rold" THEN {l.deferred[l.i]} \ {Null}
    ELSE {}

-----------------------------------------------------------------------------

ThreadsAgree ==
    \A t \in Threads :
        LocalsAgree(th[t]) /\ Protects(th[t], hazarded[t]) /\ HeldOnce(th[t])

SlotsWritten ==
    \A t \in Threads : Writing(th[t]) =>
        /\ Load(SlotOf(th[t])) = Written(th[t])
        /\ IsStateSlot(SlotOf(th[t])) <=> th[t].node = Null
SlotsApart ==
    \A t, u \in Threads :
        t # u /\ Writing(th[t]) /\ Writing(th[u]) => SlotOf(th[t]) # SlotOf(th[u])

\* A chained pointer that nobody may take back.
Chain(n) == mem[n][NodeSlots + 1]
Settled(n) ==
    /\ Chain(n) \in Nodes
    /\ \A t \in Threads : Writing(th[t]) => SlotOf(th[t]) # <<n, NodeSlots + 1>>

\* The one that a dequeuer loads, or has loaded, is such a pointer.
NextAgrees(l) ==
    /\ l.pc \in {"dnext", "dskip"} => /\ l.ends.head[2] = NodeSlots + 1
                                      /\ Settled(Base(l.ends.head))
    /\ l.pc = "dskip" => l.node = Chain(Base(l.ends.head))
NextLoaded == \A t \in Threads : NextAgrees(th[t])

\* N are the nodes of a queue with ends e.
List(N, e) ==
    LET first == Base(e.head)
        last == Base(e.tail)
    IN  /\ first \in N /\ last \in N
        /\ first = last => e.head[2] <= e.tail[2]
        /\ \A n \in N \ {last} :
              /\ Settled(n)
              /\ Chain(n) \in N \ {first}
              /\ \A m \in N \ {last} : Chain(m) = Chain(n) => m = n
Linked(R) == \A k \in Queues : ends[k].head # Null => List(R[k], ends[k])

\* A node in use has one owner.
Owned(R) ==
    /\ \A k, l \in Queues : k # l => R[k] \cap R[l] = {}
    /\ \A k \in Queues, t \in Threads : R[k] \cap Held(th[t]) = {}
    /\ \A t, u \in Threads : t # u => Held(th[t]) \cap Held(th[u]) = {}
    /\ \A k \in Queues : R[k] \subseteq allocated
    /\ \A t \in Threads : Held(th[t]) \cup Guards(th[t]) \subseteq allocated

\* A node that is not added yet is protected by nobody.
PendingUnseen == \A t, u \in Threads : Guards(th[t]) \cap Pending(th[u]) = {}

\* The threads before the one that reclaim has come to do not protect the node it
\* is about to free.
Scanned ==
    \A r, t \in Threads :
        t # r /\ t < th[r].j => Reclaims(th[r]) \cap Guards(th[t]) = {}

QueueInv(R) ==
    /\ QueuesTyped /\ ThreadsAgree /\ SlotsWritten /\ SlotsApart /\ NextLoaded
    /\ Linked(R) /\ Owned(R) /\ PendingUnseen /\ Scanned

NodesInv == \E R \in [Queues -> SUBSET Nodes] : QueueInv(R)

-----------------------------------------------------------------------------
(***************************************************************************)
(* What follows of the invariant.                                          *)
(***************************************************************************)

\* The nodes that FreedOnce is about are among those removed.
LEMMA CondemnedIsDoomed ==
    \A t \in Threads : Condemned(t) \subseteq Doomed(th[t])
BY DEF Condemned, Doomed, Deferred

\* The nodes a thread touches are allocated, and each is freed by one thread.
LEMMA InvImpliesNodesSafe == NodesInv => NodesSafe
<1>. SUFFICES ASSUME NEW R \in [Queues -> SUBSET Nodes], QueueInv(R) PROVE NodesSafe
  BY DEF NodesInv
<1>. USE DEF QueueInv
<1>1. \A t \in Threads : Touches(t) \subseteq Guards(th[t])
  BY DEF Touches, Guards
<1>2. \A t \in Threads : Condemned(t) \subseteq Held(th[t])
  BY CondemnedIsDoomed DEF Held
<1>3. \A k \in Queues : ends[k].head # Null =>
          {Base(ends[k].head), Base(ends[k].tail)} \subseteq R[k]
  BY DEF Linked, List
<1>4. NoUseAfterFree
  BY <1>1, <1>3 DEF NoUseAfterFree, Owned
<1>5. FreedOnce
  BY <1>2, <1>3 DEF FreedOnce, Owned
<1>. QED
  BY <1>4, <1>5 DEF NodesSafe

\* A slot that a thread has written holds what it wrote until it is undone.
LEMMA InvImpliesUndoesOwnWrite == NodesInv => UndoesOwnWrite
BY DEF NodesInv, QueueInv, UndoesOwnWrite, SlotsWritten, Writing, SlotOf, Written, At

-----------------------------------------------------------------------------
(***************************************************************************)
(* Steps that change the variables of one thread only.                     *)
(***************************************************************************)

\* The other threads' variables are left alone.
LEMMA OthersSame ==
    ASSUME QueuesTyped, NEW t \in Threads, NEW x, th' = [th EXCEPT ![t] = x]
    PROVE  th'[t] = x /\ \A u \in Threads \ {t} : th'[u] = th[u]
BY DEF QueuesTyped

\* Thread t comes to local variables x: it holds no more nodes than before and
\* protects what it did, or what is on a list.  A node it frees is one it held and
\* nobody protects.
LocalMove(R, t, x) ==
    /\ x \in Locals /\ th' = [th EXCEPT ![t] = x]
    /\ UNCHANGED <<mem, ends>>
    /\ allocated' \subseteq allocated
    /\ \A n \in allocated \ allocated' :
          /\ n \in Held(th[t]) \ Held(x)
          /\ n \notin Guards(x) /\ \A u \in Threads : n \notin Guards(th[u])
    /\ hazarded' \in [Threads -> Nodes \cup {Null}]
    /\ \A u \in Threads \ {t} : hazarded'[u] = hazarded[u]
    /\ LocalsAgree(x) /\ Protects(x, hazarded'[t]) /\ HeldOnce(x) /\ NextAgrees(x)
    /\ Held(x) \subseteq Held(th[t]) /\ Pending(x) \subseteq Pending(th[t])
    /\ Writing(x) => /\ Writing(th[t]) /\ SlotOf(x) = SlotOf(th[t])
                     /\ Written(x) = Written(th[t])
                     /\ x.node = Null <=> th[t].node = Null
    /\ \A n \in Guards(x) \ Guards(th[t]) : \E k \in Queues : n \in R[k]
    /\ \A u \in Threads \ {t} : u < x.j => Reclaims(x) \cap Guards(th[u]) = {}

\* What a thread scans for is in its hands.
LEMMA ReclaimsHeld ==
    ASSUME NEW x \in Locals, LocalsAgree(x)
    PROVE  Reclaims(x) \subseteq Held(x)
BY DEF LocalsAgree, Reclaims, Held, Doomed, Deferred

\* A step of one thread that changes no list keeps the invariant.
LEMMA LocalMoveKeeps ==
    ASSUME NEW R \in [Queues -> SUBSET Nodes], QueueInv(R),
           NEW t \in Threads, NEW x, LocalMove(R, t, x)
    PROVE  QueueInv(R)'
<1>. USE DEF QueueInv
<1>0. /\ th'[t] = x /\ \A u \in Threads \ {t} : th'[u] = th[u]
      /\ th \in [Threads -> Locals]
  BY OthersSame DEF LocalMove, QueuesTyped
<1>1. QueuesTyped'
  BY DEF LocalMove, QueuesTyped
<1>2. ThreadsAgree'
  <2>. SUFFICES ASSUME NEW u \in Threads
                PROVE  /\ LocalsAgree(th'[u]) /\ Protects(th'[u], hazarded'[u])
                       /\ HeldOnce(th'[u])
    BY DEF ThreadsAgree
  <2>. QED
    BY <1>0 DEF LocalMove, ThreadsAgree
<1>3. \A u \in Threads : Writing(th'[u]) => Writing(th[u]) /\ SlotOf(th'[u]) = SlotOf(th[u])
  BY <1>0 DEF LocalMove
<1>4. SlotsWritten'
  <2>. SUFFICES ASSUME NEW u \in Threads, Writing(th'[u])
                PROVE  /\ Load(SlotOf(th[u])) = Written(th'[u])
                       /\ IsStateSlot(SlotOf(th[u])) <=> th'[u].node = Null
    BY <1>3 DEF SlotsWritten, Load, LocalMove
  <2>. QED
    BY <1>0, <1>3 DEF SlotsWritten, LocalMove
<1>5. SlotsApart'
  BY <1>3 DEF SlotsApart
<1>6. \A n : Chain(n)' = Chain(n) /\ (Settled(n) => Settled(n)')
  BY <1>3 DEF LocalMove, Chain, Settled
<1>7. NextLoaded'
  <2>. SUFFICES ASSUME NEW u \in Threads, NEW l, l = th'[u] PROVE NextAgrees(l)'
    BY DEF NextLoaded, NextAgrees
  <2>1. NextAgrees(l)
    BY <1>0 DEF LocalMove, NextLoaded
  <2>. QED
    BY <1>6, <2>1 DEF NextAgrees
<1>8. Linked(R)'
  <2>1. \A N, e : List(N, e) => List(N, e)'
    BY <1>6 DEF List
  <2>. QED
    BY <2>1 DEF Linked, LocalMove
<1>9. \A u \in Threads : /\ Held(th'[u]) \subseteq Held(th[u])
                         /\ Pending(th'[u]) \subseteq Pending(th[u])
  BY <1>0 DEF LocalMove
<1>10. \A u \in Threads : \A n \in Guards(th'[u]) :
          n \in Guards(th[u]) \/ \E k \in Queues : n \in R[k]
  BY <1>0 DEF LocalMove
<1>11. Owned(R)'
  <2>1. \A u \in Threads : Held(th'[u]) \cup Guards(th'[u]) \subseteq allocated
    BY <1>9, <1>10 DEF Owned
  <2>2. \A k \in Queues : R[k] \subseteq allocated'
    BY DEF LocalMove, Owned
  <2>3. \A u \in Threads : Held(th'[u]) \subseteq allocated'
    BY <1>0, <1>9, <2>1 DEF LocalMove, Owned
  <2>4. \A u \in Threads : Guards(th'[u]) \subseteq allocated'
    BY <1>0, <2>1 DEF LocalMove
  <2>. QED
    BY <1>9, <2>2, <2>3, <2>4 DEF Owned
<1>12. PendingUnseen'
  <2>1. \A u \in Threads : Pending(th[u]) \subseteq Held(th[u])
    BY DEF Held
  <2>. QED
    BY <1>9, <1>10, <2>1 DEF PendingUnseen, Owned
<1>13. Scanned'
  <2>. SUFFICES ASSUME NEW r \in Threads, NEW u \in Threads, u # r, u < th'[r].j
                PROVE  Reclaims(th'[r]) \cap Guards(th'[u]) = {}
    BY DEF Scanned
  <2>1. CASE r = t
    BY <1>0, <2>1 DEF LocalMove
  <2>2. CASE r # t
    <3>1. Reclaims(th[r]) \cap Guards(th[u]) = {} /\ th'[r] = th[r]
      BY <1>0, <2>2 DEF Scanned
    <3>2. Reclaims(th[r]) \subseteq Held(th[r])
      BY <1>0, ReclaimsHeld DEF ThreadsAgree
    <3>. QED
      BY <1>10, <3>1, <3>2 DEF Owned
  <2>. QED
    BY <2>1, <2>2
<1>. QED
  BY <1>1, <1>2, <1>4, <1>5, <1>7, <1>8, <1>11, <1>12, <1>13

\* ... to a place where it protects nothing and has not begun to scan.
LEMMA PlainMove ==
    ASSUME NEW R \in [Queues -> SUBSET Nodes], QueueInv(R),
           NEW t \in Threads, NEW x \in Locals, th' = [th EXCEPT ![t] = x],
           UNCHANGED <<mem, allocated, ends>>,
           hazarded' \in [Threads -> Nodes \cup {Null}],
           \A u \in Threads \ {t} : hazarded'[u] = hazarded[u],
           LocalsAgree(x),
           x.pc \notin {"ewrite", "ecas", "eundo", "dnext", "dskip", "dcas", "dload"},
           x.pc \in {"rold", "rnew"} => x.j = 0,
           x.pc = "echeck" => hazarded'[t] = Base(x.ends.tail),
           x.pc = "dcheck" => hazarded'[t] = Base(x.ends.head),
           x.deferred = th[t].deferred,
           x.victim \in {Null, th[t].victim} \cup Removed(th[t])
    PROVE  QueueInv(R)'
<1>1. Guards(x) = {} /\ Pending(x) = {} /\ Removed(x) = {} /\ ~Writing(x)
  BY DEF Guards, Pending, Removed, Writing
<1>2. Protects(x, hazarded'[t])
  BY <1>1 DEF Protects
<1>3. NextAgrees(x)
  BY DEF NextAgrees
<1>4. HeldOnce(th[t])
  BY DEF QueueInv, ThreadsAgree
<1>5. Deferred(x) = Deferred(th[t]) /\ Null \notin Deferred(x)
  BY DEF Deferred
<1>6. HeldOnce(x)
  BY <1>1, <1>4, <1>5 DEF HeldOnce
<1>7. Held(x) \subseteq Held(th[t])
  BY <1>1, <1>5 DEF Held, Doomed
<1>8. \A u \in Threads : u < x.j => Reclaims(x) = {}
  BY DEF Reclaims, Threads
<1>9. LocalMove(R, t, x)
  BY <1>1, <1>2, <1>3, <1>6, <1>7, <1>8 DEF LocalMove
<1>. QED
  BY <1>9, LocalMoveKeeps

\* What thread t knows of its variables before a step.
LEMMA LocalsTyped ==
    ASSUME NEW R, QueueInv(R), NEW t \in Threads
    PROVE  /\ th[t] \in Locals /\ LocalsAgree(th[t]) /\ Protects(th[t], hazarded[t])
           /\ HeldOnce(th[t]) /\ NextAgrees(th[t])
           /\ hazarded \in [Threads -> Nodes \cup {Null}]
           /\ \A k \in Queues : ends[k] \in Ends
           /\ ends[th[t].queue] \in Ends
           /\ NoEnds \in Ends
<1>1. ends[th[t].queue] \in Ends
  BY DEF QueueInv, QueuesTyped, Locals
<1>2. NoEnds \in Ends
  BY DEF NoEnds, Ends, EndsType
<1>. QED
  BY <1>1, <1>2 DEF QueueInv, QueuesTyped, ThreadsAgree, NextLoaded

\* queue_enqueue is called, or reads the ends.
LEMMA EnqueueKeeps ==
    ASSUME NEW R \in [Queues -> SUBSET Nodes], QueueInv(R), NEW t \in Threads,
           \/ \E s \in States, k \in Queues : Enqueue(t, s, k)
           \/ EnqueueRead(t)
    PROVE  QueueInv(R)'
<1>0. LocalsAgree(th[t]) /\ th[t] \in Locals
  BY LocalsTyped
<1>1. ASSUME NEW s \in States, NEW k \in Queues, Enqueue(t, s, k) PROVE QueueInv(R)'
  <2>. USE <1>1 DEF Enqueue, shared, At
  <2>1. PICK x : x = [th[t] EXCEPT !.pc = "eread", !.s = s, !.queue = k]
    OBVIOUS
  <2>2. /\ x.pc = "eread" /\ x.s = s /\ x.node = th[t].node
        /\ x.deferred = th[t].deferred /\ x.victim = th[t].victim
        /\ x \in Locals
    BY ZenonT(40), <1>0, <2>1 DEF Locals, Labels, Targets
  <2>3. th' = [th EXCEPT ![t] = x]
    BY <2>1
  <2>4. LocalsAgree(x)
    BY <1>0, <2>2 DEF LocalsAgree, Goal, EnqueueGoals, DequeueGoals
  <2>. QED
    BY <2>2, <2>3, <2>4, PlainMove, LocalsTyped
<1>2. CASE EnqueueRead(t)
  <2>. USE <1>2 DEF EnqueueRead, shared, At
  <2>0. PICK e \in Ends : e = ends[th[t].queue]
    BY LocalsTyped
  <2>1. PICK x : x = [th[t] EXCEPT !.ends = e, !.pc = EnqueueRetry(e)]
    OBVIOUS
  <2>2. /\ x.pc = EnqueueRetry(e) /\ x.s = th[t].s /\ x.ends = e /\ x.node = th[t].node
        /\ x.deferred = th[t].deferred /\ x.victim = th[t].victim
        /\ x \in Locals
    <3>1. PICK g \in {"efirst", "ehazard"} : g = EnqueueRetry(e)
      BY DEF EnqueueRetry
    <3>. QED
      BY <1>0, <2>1, <3>1 DEF Locals, Labels
  <2>3. th' = [th EXCEPT ![t] = x]
    BY <2>0, <2>1
  <2>4. LocalsAgree(x)
    BY <1>0, <2>2 DEF LocalsAgree, Goal, EnqueueGoals, DequeueGoals, EnqueueRetry
  <2>. QED
    BY <2>2, <2>3, <2>4, PlainMove, LocalsTyped DEF EnqueueRetry
<1>. QED
  BY <1>1, <1>2

\* A compare-and-swap that installs no first node.
LEMMA EnqueueFirstFails ==
    ASSUME NEW R \in [Queues -> SUBSET Nodes], QueueInv(R), NEW t \in Threads,
           At(t, "efirst"), NEW e, e = ends[th[t].queue],
           th' = [th EXCEPT ![t].ends = e, ![t].pc = EnqueueRetry(e)],
           UNCHANGED shared
    PROVE  QueueInv(R)'
<1>. USE DEF shared, At
<1>0. LocalsAgree(th[t]) /\ th[t] \in Locals /\ e \in Ends
  BY LocalsTyped
<1>1. PICK x : x = [th[t] EXCEPT !.ends = e, !.pc = EnqueueRetry(e)]
  OBVIOUS
<1>2. /\ x.pc = EnqueueRetry(e) /\ x.s = th[t].s /\ x.ends = e /\ x.node = th[t].node
      /\ x.deferred = th[t].deferred /\ x.victim = th[t].victim
      /\ x \in Locals
  <2>1. PICK g \in {"efirst", "ehazard"} : g = EnqueueRetry(e)
    BY DEF EnqueueRetry
  <2>. QED
    BY ZenonT(40), <1>0, <1>1, <2>1 DEF Locals, Labels
<1>3. th' = [th EXCEPT ![t] = x]
  BY <1>1
<1>4. LocalsAgree(x)
  BY <1>0, <1>2 DEF LocalsAgree, Goal, EnqueueGoals, DequeueGoals, EnqueueRetry
<1>. QED
  BY <1>2, <1>3, <1>4, PlainMove, LocalsTyped DEF EnqueueRetry

\* hazard() in queue_enqueue: the tail's node is announced.
LEMMA EnqueueHazardKeeps ==
    ASSUME NEW R \in [Queues -> SUBSET Nodes], QueueInv(R), NEW t \in Threads,
           EnqueueHazard(t)
    PROVE  QueueInv(R)'
<1>. USE DEF EnqueueHazard, At
<1>0. /\ LocalsAgree(th[t]) /\ th[t] \in Locals
      /\ hazarded \in [Threads -> Nodes \cup {Null}]
  BY LocalsTyped
<1>1. PICK x : x = [th[t] EXCEPT !.pc = "echeck"]
  OBVIOUS
<1>2. /\ x.pc = "echeck" /\ x.s = th[t].s /\ x.ends = th[t].ends /\ x.node = th[t].node
      /\ x.deferred = th[t].deferred /\ x.victim = th[t].victim
      /\ x \in Locals
  BY <1>0, <1>1 DEF Locals, Labels, Targets
<1>3. th' = [th EXCEPT ![t] = x]
  BY <1>1
<1>4. LocalsAgree(x)
  BY <1>0, <1>2 DEF LocalsAgree, Goal, EnqueueGoals, DequeueGoals
<1>5. Base(th[t].ends.tail) \in Nodes
  <2>1. th[t].ends.tail # Null /\ th[t].ends.tail \in Handles \cup {Null}
    BY <1>0 DEF LocalsAgree, Goal, EnqueueGoals, Locals, Ends, EndsType
  <2>. QED
    BY <2>1 DEF Base, Handles
<1>6. /\ hazarded' \in [Threads -> Nodes \cup {Null}]
      /\ hazarded'[t] = Base(x.ends.tail)
      /\ \A u \in Threads \ {t} : hazarded'[u] = hazarded[u]
  BY <1>0, <1>2, <1>5
<1>. QED
  BY <1>2, <1>3, <1>4, <1>6, PlainMove

\* The node of an end that the queue still has is on the queue's list.
LEMMA EndsOnList ==
    ASSUME NEW R, QueueInv(R), NEW k \in Queues, ends[k].head # Null
    PROVE  /\ ends[k].tail # Null
           /\ Base(ends[k].head) \in R[k] /\ Base(ends[k].tail) \in R[k]
           /\ ends[k].head \in Handles /\ ends[k].tail \in Handles
           /\ IsStateSlot(ends[k].tail)
<1>1. ends[k] \in Ends /\ List(R[k], ends[k])
  BY LocalsTyped DEF QueueInv, Linked, QueuesTyped
<1>. QED
  BY <1>1 DEF Ends, EndsType, List

\* The ends are the same when they are read again: from here on the node is protected.
LEMMA EnqueueCheckKeeps ==
    ASSUME NEW R \in [Queues -> SUBSET Nodes], QueueInv(R), NEW t \in Threads,
           EnqueueCheck(t)
    PROVE  QueueInv(R)'
<1>. USE DEF EnqueueCheck, At, shared
<1>0. /\ LocalsAgree(th[t]) /\ th[t] \in Locals /\ Protects(th[t], hazarded[t])
      /\ HeldOnce(th[t]) /\ hazarded \in [Threads -> Nodes \cup {Null}]
  BY LocalsTyped
<1>1. CASE EndsUnchanged(t)
  <2>1. PICK x : x = [th[t] EXCEPT !.pc = "ewrite"]
    OBVIOUS
  <2>2. /\ x.pc = "ewrite" /\ x.s = th[t].s /\ x.ends = th[t].ends /\ x.node = th[t].node
        /\ x.deferred = th[t].deferred /\ x.victim = th[t].victim
        /\ x \in Locals
    BY <1>0, <2>1 DEF Locals, Labels, Targets
  <2>3. th' = [th EXCEPT ![t] = x]
    BY <1>1, <2>1
  <2>4. LocalsAgree(x)
    BY <1>0, <2>2 DEF LocalsAgree, Goal, EnqueueGoals, DequeueGoals
  <2>5. PICK k \in Queues : k = th[t].queue
    BY <1>0 DEF Locals
  <2>6. Guards(x) \subseteq R[k]
    <3>1. ends[k].tail # Null /\ ends[k] \in Ends /\ x.ends = ends[k]
      BY <1>0, <1>1, <2>2, <2>5, LocalsTyped DEF LocalsAgree, Goal, EnqueueGoals, EndsUnchanged
    <3>2. ends[k].head # Null
      BY <3>1 DEF Ends
    <3>. QED
      BY <2>2, <3>1, <3>2, EndsOnList DEF Guards
  <2>7. Protects(x, hazarded'[t]) /\ NextAgrees(x) /\ ~Writing(x) /\ Reclaims(x) = {}
    BY <1>0, <2>2 DEF Protects, NextAgrees, Guards, Writing, Reclaims
  <2>8. Pending(x) = {} /\ Held(x) \subseteq Held(th[t]) /\ HeldOnce(x)
    BY <1>0, <2>2 DEF Pending, Held, Doomed, Removed, Deferred, HeldOnce
  <2>9. LocalMove(R, t, x)
    BY <1>0, <2>2, <2>3, <2>4, <2>6, <2>7, <2>8 DEF LocalMove
  <2>. QED
    BY <2>9, LocalMoveKeeps
<1>2. CASE ~EndsUnchanged(t)
  <2>0. PICK e \in Ends : e = ends[th[t].queue]
    BY LocalsTyped
  <2>1. PICK g \in {"efirst", "ehazard"} : g = EnqueueRetry(e)
    BY DEF EnqueueRetry
  <2>2. PICK x : x = [th[t] EXCEPT !.ends = e, !.pc = "unhazard", !.then = g]
    OBVIOUS
  <2>3. /\ x.pc = "unhazard" /\ x.s = th[t].s /\ x.ends = e /\ x.node = th[t].node
        /\ x.then = g
        /\ x.deferred = th[t].deferred /\ x.victim = th[t].victim
        /\ x \in Locals
    BY ZenonT(40), <1>0, <2>2 DEF Locals, Labels, Targets
  <2>4. th' = [th EXCEPT ![t] = x]
    BY <1>2, <2>0, <2>1, <2>2
  <2>5. LocalsAgree(x)
    BY <1>0, <2>1, <2>3 DEF LocalsAgree, Goal, EnqueueGoals, DequeueGoals, EnqueueRetry
  <2>. QED
    BY <1>0, <2>3, <2>4, <2>5, PlainMove
<1>. QED
  BY <1>1, <1>2

\* A thread outside both calls has variables of their types.
LEMMA StartLocalsTyped ==
    ASSUME NEW t \in Threads
    PROVE  StartLocals(t) \in Locals
<1>1. [i \in 1..THREADS-1 |-> Null] \in [1..THREADS-1 -> Nodes \cup {Null}]
  OBVIOUS
<1>2. NoEnds \in Ends
  BY DEF NoEnds, Ends, EndsType
<1>3. THREADS \in Nat \ {0, 1} /\ 0 \in 0..THREADS-1 /\ 0 \in 0..THREADS /\ t \in Queues
  BY StateQueueAssumption DEF Threads, Queues
<1>. QED
  BY <1>1, <1>2, <1>3 DEF StartLocals, Locals, Labels, Targets, Cells

\* queue_enqueue raises the count and returns.
LEMMA EnqueueCountKeeps ==
    ASSUME NEW R \in [Queues -> SUBSET Nodes], QueueInv(R), NEW t \in Threads,
           EnqueueCount(t)
    PROVE  QueueInv(R)'
<1>. USE DEF EnqueueCount, At
<1>0. LocalsAgree(th[t]) /\ th[t] \in Locals /\ NoEnds \in Ends
  BY LocalsTyped
<1>1. PICK x : x = [StartLocals(t) EXCEPT !.deferred = th[t].deferred]
  OBVIOUS
<1>2. /\ x.pc = "idle" /\ x.node = Null
      /\ x.deferred = th[t].deferred /\ x.victim = Null
      /\ x \in Locals
  <2>1. StartLocals(t) \in Locals /\ StartLocals(t).pc = "idle"
        /\ StartLocals(t).node = Null /\ StartLocals(t).victim = Null
    BY StartLocalsTyped DEF StartLocals
  <2>. QED
    BY <1>0, <1>1, <2>1 DEF Locals
<1>3. th' = [th EXCEPT ![t] = x]
  BY <1>1
<1>4. LocalsAgree(x)
  BY <1>0, <1>2 DEF LocalsAgree, Goal, EnqueueGoals, DequeueGoals
<1>. QED
  BY <1>2, <1>3, <1>4, PlainMove, LocalsTyped

\* The branch after queue_dequeue's "retry:" leads to a place of its own.
LEMMA DequeueRetryGoes ==
    ASSUME NEW l \in Locals, NEW e \in Ends, l.node = Null, NEW x, x = DequeueRetry(l, e)
    PROVE  /\ x \in Locals /\ x.pc \in {"dhazard", "done", "dread"}
           /\ x.victim = l.victim /\ x.deferred = l.deferred
           /\ LocalsAgree(x)
<1>1. CASE e.head # Null
  <2>1. x = [l EXCEPT !.ends = e, !.pc = "dhazard"]
    BY <1>1 DEF DequeueRetry
  <2>2. /\ x \in Locals /\ x.pc = "dhazard" /\ x.ends = e /\ x.node = Null
        /\ x.victim = l.victim /\ x.deferred = l.deferred
    BY ZenonT(120), <2>1 DEF Locals, Labels
  <2>. QED
    BY <1>1, <2>2 DEF LocalsAgree, Goal, EnqueueGoals, DequeueGoals
<1>2. CASE e.head = Null
  <2>1. PICK g \in {"done", "dread"} : g = IF l.attempts + 1 = THREADS THEN "done" ELSE "dread"
    OBVIOUS
  <2>2. PICK q \in Queues : q = (l.queue + 1) % THREADS
    <3>1. THREADS \in Nat \ {0} /\ l.queue + 1 \in Nat
      BY StateQueueAssumption DEF Locals, Queues
    <3>. QED
      BY <3>1 DEF Queues
  <2>3. PICK a \in Nat : a = l.attempts + 1
    BY DEF Locals
  <2>4. x = [l EXCEPT !.ends = NoEnds, !.attempts = a, !.queue = q, !.pc = g]
    BY <1>2, <2>1, <2>2, <2>3 DEF DequeueRetry
  <2>5. NoEnds \in Ends
    BY DEF NoEnds, Ends, EndsType
  <2>6. /\ x \in Locals /\ x.pc = g /\ x.node = Null
        /\ x.victim = l.victim /\ x.deferred = l.deferred
    BY ZenonT(120), <2>4, <2>5 DEF Locals, Labels
  <2>. QED
    BY <2>6 DEF LocalsAgree, Goal, EnqueueGoals, DequeueGoals
<1>. QED
  BY <1>1, <1>2

\* queue_dequeue is called, or reads the ends.
LEMMA DequeueKeeps ==
    ASSUME NEW R \in [Queues -> SUBSET Nodes], QueueInv(R), NEW t \in Threads,
           Dequeue(t) \/ DequeueRead(t)
    PROVE  QueueInv(R)'
<1>0. LocalsAgree(th[t]) /\ th[t] \in Locals
  BY LocalsTyped
<1>1. CASE Dequeue(t)
  <2>. USE <1>1 DEF Dequeue, shared, At
  <2>1. PICK x : x = [th[t] EXCEPT !.pc = "dread"]
    OBVIOUS
  <2>2. /\ x.pc = "dread" /\ x.node = th[t].node
        /\ x.deferred = th[t].deferred /\ x.victim = th[t].victim
        /\ x \in Locals
    BY <1>0, <2>1 DEF Locals, Labels
  <2>3. th' = [th EXCEPT ![t] = x]
    BY <2>1
  <2>4. LocalsAgree(x)
    BY <1>0, <2>2 DEF LocalsAgree, Goal, EnqueueGoals, DequeueGoals
  <2>. QED
    BY <2>2, <2>3, <2>4, PlainMove, LocalsTyped
<1>2. CASE DequeueRead(t)
  <2>. USE <1>2 DEF DequeueRead, shared, At
  <2>0. PICK e \in Ends : e = ends[th[t].queue]
    BY LocalsTyped
  <2>1. PICK l \in Locals : l = th[t]
    BY <1>0
  <2>2. PICK x : x = DequeueRetry(l, e)
    OBVIOUS
  <2>3. l.node = Null
    BY <1>0, <2>1 DEF LocalsAgree
  <2>4. /\ x \in Locals /\ x.pc \in {"dhazard", "done", "dread"}
        /\ x.victim = th[t].victim /\ x.deferred = th[t].deferred
        /\ LocalsAgree(x)
    BY <2>1, <2>2, <2>3, DequeueRetryGoes
  <2>5. th' = [th EXCEPT ![t] = x]
    BY <2>0, <2>1, <2>2
  <2>. QED
    BY <2>4, <2>5, PlainMove, LocalsTyped
<1>. QED
  BY <1>1, <1>2

\* hazard() in queue_dequeue: the head's node is announced.
LEMMA DequeueHazardKeeps ==
    ASSUME NEW R \in [Queues -> SUBSET Nodes], QueueInv(R), NEW t \in Threads,
           DequeueHazard(t)
    PROVE  QueueInv(R)'
<1>. USE DEF DequeueHazard, At
<1>0. /\ LocalsAgree(th[t]) /\ th[t] \in Locals
      /\ hazarded \in [Threads -> Nodes \cup {Null}]
  BY LocalsTyped
<1>1. PICK x : x = [th[t] EXCEPT !.pc = "dcheck"]
  OBVIOUS
<1>2. /\ x.pc = "dcheck" /\ x.ends = th[t].ends /\ x.node = th[t].node
      /\ x.deferred = th[t].deferred /\ x.victim = th[t].victim
      /\ x \in Locals
  BY <1>0, <1>1 DEF Locals, Labels
<1>3. th' = [th EXCEPT ![t] = x]
  BY <1>1
<1>4. LocalsAgree(x)
  BY <1>0, <1>2 DEF LocalsAgree, Goal, EnqueueGoals, DequeueGoals
<1>5. Base(th[t].ends.head) \in Nodes
  <2>1. th[t].ends.head # Null /\ th[t].ends.head \in Handles \cup {Null}
    BY <1>0 DEF LocalsAgree, Goal, DequeueGoals, Locals, Ends, EndsType
  <2>. QED
    BY <2>1 DEF Base, Handles
<1>6. /\ hazarded' \in [Threads -> Nodes \cup {Null}]
      /\ hazarded'[t] = Base(x.ends.head)
      /\ \A u \in Threads \ {t} : hazarded'[u] = hazarded[u]
  BY <1>0, <1>2, <1>5
<1>. QED
  BY <1>2, <1>3, <1>4, <1>6, PlainMove

\* A dequeuer that returns to "retry:" with the ends it was given.
LEMMA DequeueFails ==
    ASSUME NEW R \in [Queues -> SUBSET Nodes], QueueInv(R), NEW t \in Threads,
           NEW e \in Ends, UNCHANGED shared,
           th' = [th EXCEPT ![t] = [@ EXCEPT !.pc = "unhazard", !.then = "dretry",
                                             !.old = e, !.node = Null]]
    PROVE  QueueInv(R)'
<1>. USE DEF shared
<1>0. LocalsAgree(th[t]) /\ th[t] \in Locals
  BY LocalsTyped
<1>1. PICK x : x = [th[t] EXCEPT !.pc = "unhazard", !.then = "dretry", !.old = e, !.node = Null]
  OBVIOUS
<1>2. /\ x.pc = "unhazard" /\ x.then = "dretry" /\ x.node = Null
      /\ x.deferred = th[t].deferred /\ x.victim = th[t].victim
      /\ x \in Locals
  BY ZenonT(40), <1>0, <1>1 DEF Locals, Labels, Targets
<1>3. th' = [th EXCEPT ![t] = x]
  BY <1>1
<1>4. LocalsAgree(x)
  BY <1>0, <1>2 DEF LocalsAgree, Goal, EnqueueGoals, DequeueGoals
<1>. QED
  BY <1>2, <1>3, <1>4, PlainMove, LocalsTyped

\* The ends are the same when they are read again.
LEMMA DequeueCheckKeeps ==
    ASSUME NEW R \in [Queues -> SUBSET Nodes], QueueInv(R), NEW t \in Threads,
           DequeueCheck(t)
    PROVE  QueueInv(R)'
<1>. USE DEF DequeueCheck, At, shared
<1>0. /\ LocalsAgree(th[t]) /\ th[t] \in Locals /\ Protects(th[t], hazarded[t])
      /\ HeldOnce(th[t]) /\ hazarded \in [Threads -> Nodes \cup {Null}]
      /\ th[t].node = Null
  BY LocalsTyped DEF LocalsAgree
<1>1. CASE EndsUnchanged(t)
  <2>0. PICK g \in {"dcas", "dnext"} :
           g = IF LastOne(th[t].ends) \/ IsStateSlot(th[t].ends.head)
                 THEN "dcas" ELSE "dnext"
    OBVIOUS
  <2>1. PICK x : x = [th[t] EXCEPT !.pc = g]
    OBVIOUS
  <2>2. /\ x.pc = g /\ x.ends = th[t].ends /\ x.node = Null
        /\ x.deferred = th[t].deferred /\ x.victim = th[t].victim
        /\ x \in Locals
    BY <1>0, <2>1 DEF Locals, Labels
  <2>3. th' = [th EXCEPT ![t] = x]
    BY <1>1, <2>0, <2>1
  <2>4. LocalsAgree(x)
    BY <1>0, <2>0, <2>2 DEF LocalsAgree, Goal, EnqueueGoals, DequeueGoals
  <2>5. PICK k \in Queues : k = th[t].queue
    BY <1>0 DEF Locals
  <2>6. ends[k].head # Null /\ x.ends = ends[k]
    BY <1>0, <1>1, <2>2, <2>5 DEF LocalsAgree, Goal, DequeueGoals, EndsUnchanged
  <2>7. Guards(x) \subseteq R[k]
    BY <2>2, <2>6, EndsOnList DEF Guards
  <2>8. NextAgrees(x)
    <3>1. CASE g = "dcas"
      BY <2>2, <3>1 DEF NextAgrees
    <3>2. CASE g = "dnext"
      <4>1. /\ ends[k].head \in Handles /\ ends[k].tail \in Handles
            /\ IsStateSlot(ends[k].tail) /\ ~IsStateSlot(ends[k].head)
            /\ NodeSlots \in Nat
        BY <2>0, <2>2, <2>6, <3>2, EndsOnList, StateQueueAssumption
      <4>2. ends[k].head[2] = NodeSlots + 1 /\ ~(ends[k].head[2] <= ends[k].tail[2])
        BY <4>1 DEF Handles, IsStateSlot
      <4>3. List(R[k], ends[k])
        BY <2>6 DEF QueueInv, Linked
      <4>4. Settled(Base(ends[k].head))
        BY <4>2, <4>3 DEF List
      <4>. QED
        BY <2>2, <2>6, <3>2, <4>2, <4>4 DEF NextAgrees
    <3>. QED
      BY <3>1, <3>2
  <2>9. Protects(x, hazarded'[t]) /\ ~Writing(x) /\ Reclaims(x) = {}
    BY <1>0, <2>2 DEF Protects, Guards, Writing, Reclaims
  <2>10. Pending(x) = {} /\ Held(x) \subseteq Held(th[t]) /\ HeldOnce(x)
    BY <1>0, <2>2 DEF Pending, Held, Doomed, Removed, Deferred, HeldOnce
  <2>11. LocalMove(R, t, x)
    BY <1>0, <2>2, <2>3, <2>4, <2>7, <2>8, <2>9, <2>10 DEF LocalMove
  <2>. QED
    BY <2>11, LocalMoveKeeps
<1>2. CASE ~EndsUnchanged(t)
  <2>0. PICK e \in Ends : e = ends[th[t].queue]
    BY LocalsTyped
  <2>1. th' = [th EXCEPT ![t] = [@ EXCEPT !.pc = "unhazard", !.then = "dretry",
                                          !.old = e, !.node = Null]]
    BY <1>0, <1>2, <2>0 DEF Locals
  <2>. QED
    BY <2>1, DequeueFails
<1>. QED
  BY <1>1, <1>2

\* The chained pointer of a node that is not the last names the next one.
LEMMA DequeueNextKeeps ==
    ASSUME NEW R \in [Queues -> SUBSET Nodes], QueueInv(R), NEW t \in Threads,
           DequeueNext(t)
    PROVE  QueueInv(R)'
<1>. USE DEF DequeueNext, At, shared
<1>0. /\ LocalsAgree(th[t]) /\ th[t] \in Locals /\ Protects(th[t], hazarded[t])
      /\ HeldOnce(th[t]) /\ hazarded \in [Threads -> Nodes \cup {Null}]
      /\ NextAgrees(th[t])
  BY LocalsTyped
<1>1. PICK n : n = Load(th[t].ends.head)
  OBVIOUS
<1>2. n = Chain(Base(th[t].ends.head)) /\ n \in Nodes
  BY <1>0, <1>1 DEF NextAgrees, Settled, Chain, Load, Base
<1>3. PICK x : x = [th[t] EXCEPT !.node = n, !.pc = "dskip"]
  OBVIOUS
<1>4. /\ x.pc = "dskip" /\ x.ends = th[t].ends /\ x.node = n
      /\ x.deferred = th[t].deferred /\ x.victim = th[t].victim
      /\ x \in Locals
  BY <1>0, <1>2, <1>3 DEF Locals, Labels
<1>5. th' = [th EXCEPT ![t] = x]
  BY <1>1, <1>3
<1>6. LocalsAgree(x)
  BY <1>0, <1>4 DEF LocalsAgree, Goal, EnqueueGoals, DequeueGoals
<1>7. Guards(x) = Guards(th[t]) /\ ~Writing(x) /\ Reclaims(x) = {} /\ Pending(x) = {}
  BY <1>4 DEF Guards, Writing, Reclaims, Pending
<1>8. Protects(x, hazarded'[t]) /\ NextAgrees(x)
  BY <1>0, <1>2, <1>4, <1>7 DEF Protects, NextAgrees
<1>9. Held(x) \subseteq Held(th[t]) /\ HeldOnce(x)
  BY <1>0, <1>4 DEF Pending, Held, Doomed, Removed, Deferred, HeldOnce
<1>10. LocalMove(R, t, x)
  BY <1>0, <1>4, <1>5, <1>6, <1>7, <1>8, <1>9 DEF LocalMove
<1>. QED
  BY <1>10, LocalMoveKeeps

\* queue_dequeue lowers the count and returns.
LEMMA DequeueCountKeeps ==
    ASSUME NEW R \in [Queues -> SUBSET Nodes], QueueInv(R), NEW t \in Threads,
           DequeueCount(t)
    PROVE  QueueInv(R)'
<1>. USE DEF DequeueCount, At
<1>0. LocalsAgree(th[t]) /\ th[t] \in Locals
  BY LocalsTyped
<1>1. PICK x : x = [StartLocals(t) EXCEPT !.deferred = th[t].deferred, !.queue = th[t].queue]
  OBVIOUS
<1>2. /\ x.pc = "idle" /\ x.node = Null
      /\ x.deferred = th[t].deferred /\ x.victim = Null
      /\ x \in Locals
  <2>1. StartLocals(t) \in Locals /\ StartLocals(t).pc = "idle"
        /\ StartLocals(t).node = Null /\ StartLocals(t).victim = Null
    BY StartLocalsTyped DEF StartLocals
  <2>. QED
    BY <1>0, <1>1, <2>1 DEF Locals
<1>3. th' = [th EXCEPT ![t] = x]
  BY <1>1
<1>4. LocalsAgree(x)
  BY <1>0, <1>2 DEF LocalsAgree, Goal, EnqueueGoals, DequeueGoals
<1>. QED
  BY <1>2, <1>3, <1>4, PlainMove, LocalsTyped

\* A thread that has removed the last state takes the node to reclaim().
LEMMA DequeueLoadKeeps ==
    ASSUME NEW R \in [Queues -> SUBSET Nodes], QueueInv(R), NEW t \in Threads,
           DequeueLoad(t)
    PROVE  QueueInv(R)'
<1>. USE DEF DequeueLoad, At, shared
<1>0. LocalsAgree(th[t]) /\ th[t] \in Locals
  BY LocalsTyped
<1>1. th[t].ends.head # Null /\ th[t].ends.head \in Handles
  BY SMTT(30), <1>0 DEF LocalsAgree, Goal, DequeueGoals, Locals, Ends, EndsType
<1>2. Base(th[t].ends.head) \in Nodes /\ Load(th[t].ends.head) \in Cells
  BY <1>1 DEF Handles, Base, Load, QueueInv, QueuesTyped
<1>3. PICK c \in Cells : c = Load(th[t].ends.head)
  BY <1>2
<1>4. PICK g \in {"reclaim", "dcount"}, v \in Nodes \cup {Null} :
         /\ g = IF LastOne(th[t].ends) THEN "reclaim" ELSE "dcount"
         /\ v = IF LastOne(th[t].ends) THEN Base(th[t].ends.head) ELSE Null
  BY <1>2
<1>5. PICK x : x = [th[t] EXCEPT !.got = c, !.pc = "unhazard", !.then = g, !.victim = v,
                                 !.after = "dcount"]
  OBVIOUS
<1>6. /\ x.pc = "unhazard" /\ x.node = th[t].node /\ x.then = g /\ x.after = "dcount"
      /\ x.deferred = th[t].deferred /\ x.victim = v
      /\ x \in Locals
  BY ZenonT(40), <1>0, <1>5 DEF Locals, Labels, Targets
<1>7. th' = [th EXCEPT ![t] = x]
  BY <1>3, <1>4, <1>5
<1>8. LocalsAgree(x)
  BY <1>0, <1>6 DEF LocalsAgree, Goal, EnqueueGoals, DequeueGoals
<1>9. v \in {Null} \cup Removed(th[t])
  BY <1>4 DEF Removed
<1>. QED
  BY <1>6, <1>7, <1>8, <1>9, PlainMove, LocalsTyped

\* An enqueuer that returns to "retry:" with the ends it had.
LEMMA EnqueueWriteFails ==
    ASSUME NEW R \in [Queues -> SUBSET Nodes], QueueInv(R), NEW t \in Threads,
           At(t, "ewrite"), UNCHANGED shared,
           th' = [th EXCEPT ![t].pc = "unhazard", ![t].then = EnqueueRetry(th[t].ends)]
    PROVE  QueueInv(R)'
<1>. USE DEF At, shared
<1>0. LocalsAgree(th[t]) /\ th[t] \in Locals
  BY LocalsTyped
<1>1. PICK g \in {"efirst", "ehazard"} : g = EnqueueRetry(th[t].ends)
  BY DEF EnqueueRetry
<1>2. PICK x : x = [th[t] EXCEPT !.pc = "unhazard", !.then = g]
  OBVIOUS
<1>3. /\ x.pc = "unhazard" /\ x.then = g /\ x.s = th[t].s /\ x.ends = th[t].ends
      /\ x.node = th[t].node /\ x.deferred = th[t].deferred /\ x.victim = th[t].victim
      /\ x \in Locals
  BY ZenonT(40), <1>0, <1>2 DEF Locals, Labels, Targets
<1>4. th' = [th EXCEPT ![t] = x]
  BY <1>1, <1>2
<1>5. LocalsAgree(x)
  BY <1>0, <1>1, <1>3 DEF LocalsAgree, Goal, EnqueueGoals, DequeueGoals, EnqueueRetry
<1>. QED
  BY <1>3, <1>4, <1>5, PlainMove, LocalsTyped

\* An enqueuer that has to undo its write.
LEMMA EnqueueCASFails ==
    ASSUME NEW R \in [Queues -> SUBSET Nodes], QueueInv(R), NEW t \in Threads,
           At(t, "ecas"), UNCHANGED shared,
           NEW e \in Ends, th' = [th EXCEPT ![t].old = e, ![t].pc = "eundo"]
    PROVE  QueueInv(R)'
<1>. USE DEF At, shared
<1>0. /\ LocalsAgree(th[t]) /\ th[t] \in Locals /\ Protects(th[t], hazarded[t])
      /\ HeldOnce(th[t]) /\ hazarded \in [Threads -> Nodes \cup {Null}]
  BY LocalsTyped
<1>1. PICK x : x = [th[t] EXCEPT !.old = e, !.pc = "eundo"]
  OBVIOUS
<1>2. /\ x.pc = "eundo" /\ x.s = th[t].s /\ x.ends = th[t].ends /\ x.node = th[t].node
      /\ x.deferred = th[t].deferred /\ x.victim = th[t].victim
      /\ x \in Locals
  BY ZenonT(40), <1>0, <1>1 DEF Locals, Labels, Targets
<1>3. th' = [th EXCEPT ![t] = x]
  BY <1>1
<1>4. LocalsAgree(x)
  BY <1>0, <1>2 DEF LocalsAgree, Goal, EnqueueGoals, DequeueGoals
<1>5. /\ Guards(x) = Guards(th[t]) /\ Pending(x) = Pending(th[t]) /\ Removed(x) = {}
      /\ Reclaims(x) = {} /\ Writing(th[t]) /\ SlotOf(x) = SlotOf(th[t])
      /\ Written(x) = Written(th[t]) /\ Deferred(x) = Deferred(th[t])
  BY <1>2 DEF Guards, Pending, Removed, Reclaims, Writing, SlotOf, Written, Deferred
<1>6. Protects(x, hazarded'[t]) /\ NextAgrees(x)
  BY <1>0, <1>2, <1>5 DEF Protects, NextAgrees
<1>7. Held(x) \subseteq Held(th[t]) /\ HeldOnce(x)
  BY <1>0, <1>2, <1>5 DEF Held, Doomed, HeldOnce
<1>8. LocalMove(R, t, x)
  BY <1>0, <1>2, <1>3, <1>4, <1>5, <1>6, <1>7 DEF LocalMove
<1>. QED
  BY <1>8, LocalMoveKeeps

\* Where unhazard and reclaim return to.
LEMMA ResumeGoes ==
    ASSUME NEW l \in Locals, l.node = Null,
           NEW g \in {"efirst", "ehazard", "ecount", "dretry", "reclaim", "dcount"},
           g \in {"efirst", "ehazard"} => l.s \in States,
           g = "efirst" => l.ends.tail = Null,
           g = "ehazard" => l.ends.tail # Null,
           g = "reclaim" => l.after \in {"dretry", "dcount"},
           NEW x, x = Resume(l, g)
    PROVE  /\ x \in Locals /\ LocalsAgree(x)
           /\ x.pc \in {"efirst", "ehazard", "ecount", "dcount", "dhazard", "done", "dread",
                        "rold"}
           /\ x.pc = "rold" => g = "reclaim" /\ x.j = 0
           /\ x.victim = l.victim /\ x.deferred = l.deferred
<1>1. CASE g = "dretry"
  <2>1. PICK k : k = [l EXCEPT !.old = NoEnds]
    OBVIOUS
  <2>2. NoEnds \in Ends
    BY DEF NoEnds, Ends, EndsType
  <2>3. k \in Locals /\ k.node = Null /\ k.victim = l.victim /\ k.deferred = l.deferred
    BY <2>1, <2>2 DEF Locals
  <2>4. PICK e \in Ends : e = l.old
    BY DEF Locals
  <2>5. x = DequeueRetry(k, e)
    BY <1>1, <2>1, <2>4 DEF Resume
  <2>. QED
    BY <2>3, <2>5, DequeueRetryGoes
<1>2. CASE g = "reclaim"
  <2>1. x = [l EXCEPT !.pc = "rold", !.i = 1, !.j = 0]
    BY <1>2 DEF Resume
  <2>2. THREADS \in Nat \ {0, 1} /\ 1 \in 0..THREADS-1 /\ 1 \in 1..THREADS-1 /\ 0 \in 0..THREADS
    BY StateQueueAssumption
  <2>3. /\ x \in Locals /\ x.pc = "rold" /\ x.i = 1 /\ x.j = 0 /\ x.node = Null
        /\ x.after = l.after /\ x.victim = l.victim /\ x.deferred = l.deferred
    BY ZenonT(120), <2>1, <2>2 DEF Locals, Labels
  <2>. QED
    BY <1>2, <2>2, <2>3 DEF LocalsAgree, Goal, EnqueueGoals, DequeueGoals
<1>3. CASE g \notin {"dretry", "reclaim"}
  <2>1. x = [l EXCEPT !.pc = g]
    BY <1>3 DEF Resume
  <2>2. /\ x \in Locals /\ x.pc = g /\ x.node = Null /\ x.s = l.s /\ x.ends = l.ends
        /\ x.victim = l.victim /\ x.deferred = l.deferred
    BY <1>3, <2>1 DEF Locals, Labels
  <2>. QED
    BY <1>3, <2>2 DEF LocalsAgree, Goal, EnqueueGoals, DequeueGoals
<1>. QED
  BY <1>1, <1>2, <1>3

\* A protection is dropped: those who scan need not meet it any more.
LEMMA UnhazardKeeps ==
    ASSUME NEW R \in [Queues -> SUBSET Nodes], QueueInv(R), NEW t \in Threads,
           Unhazard(t)
    PROVE  QueueInv(R)'
<1>. USE DEF Unhazard, At
<1>0. /\ LocalsAgree(th[t]) /\ th[t] \in Locals
      /\ hazarded \in [Threads -> Nodes \cup {Null}]
  BY LocalsTyped
<1>1. PICK g : g = th[t].then
  OBVIOUS
<1>2. /\ g \in {"efirst", "ehazard", "ecount", "dretry", "reclaim", "dcount"}
      /\ g \in {"efirst", "ehazard"} => th[t].s \in States
      /\ g = "efirst" => th[t].ends.tail = Null
      /\ g = "ehazard" => th[t].ends.tail # Null
      /\ g = "reclaim" => th[t].after \in {"dretry", "dcount"}
      /\ th[t].node = Null
  BY <1>0, <1>1 DEF LocalsAgree, Goal, EnqueueGoals
<1>3. PICK l : l = [th[t] EXCEPT !.then = "idle"]
  OBVIOUS
<1>4. /\ l \in Locals /\ l.node = Null /\ l.s = th[t].s /\ l.ends = th[t].ends
      /\ l.after = th[t].after /\ l.victim = th[t].victim /\ l.deferred = th[t].deferred
  BY <1>0, <1>2, <1>3 DEF Locals, Labels, Targets
<1>5. PICK x : x = Resume(l, g)
  OBVIOUS
<1>6. /\ x \in Locals /\ LocalsAgree(x)
      /\ x.pc \in {"efirst", "ehazard", "ecount", "dcount", "dhazard", "done", "dread",
                   "rold"}
      /\ x.pc = "rold" => x.j = 0
      /\ x.victim = th[t].victim /\ x.deferred = th[t].deferred
  BY <1>2, <1>4, <1>5, ResumeGoes
<1>7. th' = [th EXCEPT ![t] = x]
  BY <1>1, <1>3, <1>5
<1>8. /\ hazarded' \in [Threads -> Nodes \cup {Null}]
      /\ \A u \in Threads \ {t} : hazarded'[u] = hazarded[u]
  BY <1>0
<1>. QED
  BY <1>6, <1>7, <1>8, PlainMove

\* reclaim goes on to the next entry of the deferred list, or to the node itself.
LEMMA NextDeferredGoes ==
    ASSUME NEW l \in Locals, l.pc = "rold", LocalsAgree(l), NEW x, x = NextDeferred(l)
    PROVE  /\ x \in Locals /\ LocalsAgree(x)
           /\ x.pc \in {"rold", "rnew"} /\ x.j = 0
           /\ x.victim = l.victim /\ x.deferred = l.deferred
<1>0. /\ l.node = Null /\ l.i \in 1..THREADS-1 /\ l.after \in {"dretry", "dcount"}
      /\ THREADS \in Nat /\ 0 \in 0..THREADS /\ 0 \in 0..THREADS-1
  BY StateQueueAssumption DEF LocalsAgree
<1>1. CASE l.i < THREADS - 1
  <2>1. PICK n : n = l.i + 1
    OBVIOUS
  <2>2. n \in 1..THREADS-1 /\ n \in 0..THREADS-1
    BY <1>0, <1>1, <2>1
  <2>3. x = [l EXCEPT !.i = n, !.j = 0]
    BY <1>1, <2>1 DEF NextDeferred
  <2>4. /\ x \in Locals /\ x.pc = "rold" /\ x.i = n /\ x.j = 0 /\ x.node = Null
        /\ x.after = l.after /\ x.victim = l.victim /\ x.deferred = l.deferred
    BY ZenonT(40), <1>0, <2>2, <2>3 DEF Locals
  <2>. QED
    BY <1>0, <2>2, <2>4 DEF LocalsAgree, Goal, EnqueueGoals, DequeueGoals
<1>2. CASE ~(l.i < THREADS - 1)
  <2>1. x = [l EXCEPT !.i = 0, !.j = 0, !.pc = "rnew"]
    BY <1>2 DEF NextDeferred
  <2>2. /\ x \in Locals /\ x.pc = "rnew" /\ x.j = 0 /\ x.node = Null
        /\ x.after = l.after /\ x.victim = l.victim /\ x.deferred = l.deferred
    BY ZenonT(120), <1>0, <2>1 DEF Locals, Labels
  <2>. QED
    BY <1>0, <2>2 DEF LocalsAgree, Goal, EnqueueGoals, DequeueGoals
<1>. QED
  BY <1>1, <1>2

\* One turn of a scan that does not meet the node.
LEMMA ScanGoesOn ==
    ASSUME NEW R \in [Queues -> SUBSET Nodes], QueueInv(R), NEW t \in Threads,
           th[t].pc \in {"rold", "rnew"}, th[t].j < THREADS,
           th[t].j = t \/ hazarded[th[t].j] \notin Reclaims(th[t]),
           th' = [th EXCEPT ![t].j = @ + 1], UNCHANGED shared
    PROVE  QueueInv(R)'
<1>. USE DEF shared
<1>0. /\ LocalsAgree(th[t]) /\ th[t] \in Locals /\ HeldOnce(th[t])
      /\ hazarded \in [Threads -> Nodes \cup {Null}]
  BY LocalsTyped
<1>1. PICK n \in 0..THREADS : n = th[t].j + 1
  BY <1>0, StateQueueAssumption DEF Locals
<1>2. PICK x : x = [th[t] EXCEPT !.j = n]
  OBVIOUS
<1>3. /\ x.pc = th[t].pc /\ x.s = th[t].s /\ x.ends = th[t].ends /\ x.node = th[t].node
      /\ x.deferred = th[t].deferred /\ x.victim = th[t].victim /\ x.i = th[t].i
      /\ x.after = th[t].after /\ x.then = th[t].then /\ x.j = n
      /\ x \in Locals
  BY <1>0, <1>1, <1>2 DEF Locals
<1>4. th' = [th EXCEPT ![t] = x]
  BY <1>1, <1>2
<1>5. LocalsAgree(x)
  BY <1>0, <1>3 DEF LocalsAgree, Goal, EnqueueGoals, DequeueGoals
<1>6. /\ Guards(x) = {} /\ ~Writing(x) /\ Pending(x) = {} /\ Reclaims(x) = Reclaims(th[t])
  BY <1>3 DEF Guards, Writing, Pending, Reclaims
<1>7. Protects(x, hazarded'[t]) /\ NextAgrees(x)
  BY <1>3, <1>6 DEF Protects, NextAgrees
<1>8. Held(x) \subseteq Held(th[t]) /\ HeldOnce(x)
  BY <1>0, <1>3 DEF Pending, Held, Doomed, Removed, Deferred, HeldOnce
<1>9. ASSUME NEW u \in Threads \ {t}, u < x.j PROVE Reclaims(x) \cap Guards(th[u]) = {}
  <2>1. CASE u < th[t].j
    BY <1>6, <2>1 DEF QueueInv, Scanned
  <2>2. CASE u = th[t].j
    BY <1>6, <2>2 DEF QueueInv, ThreadsAgree, Protects
  <2>. QED
    BY <1>0, <1>1, <1>3, <1>9, <2>1, <2>2 DEF Threads, Locals
<1>10. LocalMove(R, t, x)
  BY <1>0, <1>3, <1>4, <1>5, <1>6, <1>7, <1>8, <1>9 DEF LocalMove
<1>. QED
  BY <1>10, LocalMoveKeeps

\* A node that somebody protects goes on the deferred list.
LEMMA ReclaimDeferKeeps ==
    ASSUME NEW R \in [Queues -> SUBSET Nodes], QueueInv(R), NEW t \in Threads,
           ReclaimDefer(t)
    PROVE  QueueInv(R)'
<1>. USE DEF ReclaimDefer, At, shared
<1>0. /\ LocalsAgree(th[t]) /\ th[t] \in Locals /\ HeldOnce(th[t])
      /\ hazarded \in [Threads -> Nodes \cup {Null}]
  BY LocalsTyped
<1>1. PICK i : th' = [th EXCEPT ![t] = ReclaimDone([@ EXCEPT !.deferred[i] = th[t].victim])]
  OBVIOUS
<1>2. PICK d : d = [th[t].deferred EXCEPT ![i] = th[t].victim]
  OBVIOUS
<1>3. /\ d \in [1..THREADS-1 -> Nodes \cup {Null}]
      /\ \A k \in 1..THREADS-1 : d[k] = IF k = i THEN th[t].victim ELSE th[t].deferred[k]
  BY <1>0, <1>2 DEF Locals
<1>4. PICK l : l = [th[t] EXCEPT !.deferred = d, !.victim = Null, !.j = 0, !.after = "idle"]
  OBVIOUS
<1>5. /\ l \in Locals /\ l.node = Null /\ l.deferred = d /\ l.victim = Null
  <2>1. th[t].node = Null
    BY <1>0 DEF LocalsAgree
  <2>2. 0 \in 0..THREADS /\ "idle" \in Targets
    BY StateQueueAssumption DEF Labels, Targets
  <2>. QED
    BY ZenonT(40), <1>0, <1>3, <1>4, <2>1, <2>2 DEF Locals
<1>6. PICK g \in {"dretry", "dcount"} : g = th[t].after
  BY <1>0 DEF LocalsAgree
<1>7. PICK x : x = Resume(l, g)
  OBVIOUS
<1>8. th' = [th EXCEPT ![t] = x]
  BY <1>0, <1>1, <1>2, <1>4, <1>6, <1>7 DEF ReclaimDone, Locals
<1>9. /\ x \in Locals /\ LocalsAgree(x)
      /\ x.pc \in {"efirst", "ehazard", "ecount", "dcount", "dhazard", "done", "dread"}
      /\ x.victim = Null /\ x.deferred = d
  BY <1>5, <1>6, <1>7, ResumeGoes
<1>10. /\ Guards(x) = {} /\ ~Writing(x) /\ Pending(x) = {} /\ Reclaims(x) = {}
       /\ Removed(x) = {}
  BY <1>9 DEF Guards, Writing, Pending, Reclaims, Removed
<1>11. Deferred(x) \subseteq Deferred(th[t]) \cup ({th[t].victim} \ {Null})
  BY <1>3, <1>9 DEF Deferred
<1>12. Held(x) \subseteq Held(th[t])
  BY <1>9, <1>10, <1>11 DEF Held, Doomed
<1>13. HeldOnce(x)
  <2>1. Deferred(x) \cap ({x.victim} \cup Removed(x)) = {}
    BY <1>9, <1>10 DEF Deferred
  <2>2. \A k \in 1..THREADS-1 :
           th[t].deferred[k] # Null => th[t].deferred[k] # th[t].victim
    BY <1>0 DEF HeldOnce, Deferred
  <2>3. \A k, m \in 1..THREADS-1 : d[k] = d[m] /\ d[k] # Null => k = m
    BY <1>0, <1>3, <2>2 DEF HeldOnce
  <2>. QED
    BY <1>9, <1>10, <2>1, <2>3 DEF HeldOnce
<1>14. Protects(x, hazarded'[t]) /\ NextAgrees(x)
  BY <1>9, <1>10 DEF Protects, NextAgrees
<1>15. LocalMove(R, t, x)
  BY <1>0, <1>8, <1>9, <1>10, <1>12, <1>13, <1>14 DEF LocalMove
<1>. QED
  BY <1>15, LocalMoveKeeps

\* A deferred node is freed only when nobody protects it.
LEMMA ReclaimDeferredKeeps ==
    ASSUME NEW R \in [Queues -> SUBSET Nodes], QueueInv(R), NEW t \in Threads,
           ReclaimDeferred(t)
    PROVE  QueueInv(R)'
<1>. USE DEF ReclaimDeferred, At
<1>0. /\ LocalsAgree(th[t]) /\ th[t] \in Locals /\ HeldOnce(th[t])
      /\ hazarded \in [Threads -> Nodes \cup {Null}]
  BY LocalsTyped
<1>1. PICK l \in Locals : l = th[t]
  BY <1>0
<1>2. PICK d : d = l.deferred[l.i]
  OBVIOUS
<1>3. l.i \in 1..THREADS-1 /\ d \in Nodes \cup {Null}
  BY <1>0, <1>1, <1>2 DEF LocalsAgree, Locals
<1>4. CASE th' = [th EXCEPT ![t] = NextDeferred(l)] /\ UNCHANGED allocated
  <2>1. PICK x : x = NextDeferred(l)
    OBVIOUS
  <2>2. /\ x \in Locals /\ LocalsAgree(x) /\ x.pc \in {"rold", "rnew"} /\ x.j = 0
        /\ x.victim = l.victim /\ x.deferred = l.deferred
    BY <1>0, <1>1, <2>1, NextDeferredGoes
  <2>. QED
    BY <1>0, <1>1, <1>4, <2>1, <2>2, PlainMove
<1>5. CASE /\ d # Null /\ l.j < THREADS /\ (l.j = t \/ hazarded[l.j] # d)
           /\ th' = [th EXCEPT ![t].j = @ + 1] /\ UNCHANGED allocated
  <2>1. Reclaims(th[t]) = {d}
    BY <1>1, <1>2, <1>5 DEF Reclaims
  <2>. QED
    BY <1>1, <1>5, <2>1, ScanGoesOn DEF shared
<1>6. CASE /\ d # Null /\ l.j = THREADS /\ allocated' = allocated \ {d}
           /\ th' = [th EXCEPT ![t] = NextDeferred(Forget(l))]
  <2>1. PICK f : f = Forget(l)
    OBVIOUS
  <2>2. /\ f \in Locals /\ f.pc = "rold" /\ f.s = l.s /\ f.ends = l.ends /\ f.node = l.node
        /\ f.then = l.then /\ f.after = l.after /\ f.i = l.i /\ f.victim = l.victim
        /\ f.deferred \in [1..THREADS-1 -> Nodes \cup {Null}]
        /\ \A i \in 1..THREADS-1 : f.deferred[i] = IF i = l.i THEN Null ELSE l.deferred[i]
    BY <1>1, <1>3, <2>1 DEF Forget, Locals
  <2>3. LocalsAgree(f)
    BY <1>0, <1>1, <2>2 DEF LocalsAgree, Goal, EnqueueGoals, DequeueGoals
  <2>4. PICK x : x = NextDeferred(f)
    OBVIOUS
  <2>5. /\ x \in Locals /\ LocalsAgree(x) /\ x.pc \in {"rold", "rnew"} /\ x.j = 0
        /\ x.victim = l.victim /\ x.deferred = f.deferred
    BY <2>2, <2>3, <2>4, NextDeferredGoes
  <2>6. th' = [th EXCEPT ![t] = x]
    BY <1>6, <2>1, <2>4
  <2>7. /\ Guards(x) = {} /\ ~Writing(x) /\ Pending(x) = {} /\ Removed(x) = {}
        /\ Removed(l) = {}
    BY <1>1, <2>5 DEF Guards, Writing, Pending, Removed
  <2>8. d \in Deferred(l) /\ Deferred(x) \subseteq Deferred(l) \ {d}
    <3>1. \A i \in 1..THREADS-1 : l.deferred[i] = d => i = l.i
      BY <1>0, <1>1, <1>2, <1>3, <1>6 DEF HeldOnce
    <3>. QED
      BY <1>2, <1>3, <1>6, <2>2, <2>5, <3>1 DEF Deferred
  <2>9. Held(x) \subseteq Held(th[t]) /\ d \in Held(th[t]) \ Held(x)
    <3>1. d # l.victim
      BY <1>0, <1>1, <2>8 DEF HeldOnce
    <3>. QED
      BY <1>1, <2>5, <2>7, <2>8, <3>1 DEF Held, Doomed
  <2>10. HeldOnce(x)
    <3>1. Deferred(x) \cap ({x.victim} \cup Removed(x)) = {}
      BY <1>0, <1>1, <2>5, <2>7, <2>8 DEF HeldOnce
    <3>2. \A i, j \in 1..THREADS-1 :
             x.deferred[i] = x.deferred[j] /\ x.deferred[i] # Null => i = j
      BY <1>0, <1>1, <2>2, <2>5 DEF HeldOnce
    <3>. QED
      BY <2>7, <3>1, <3>2 DEF HeldOnce
  <2>11. \A u \in Threads : d \notin Guards(th[u])
    <3>1. Reclaims(th[t]) = {d}
      BY <1>1, <1>2, <1>6 DEF Reclaims
    <3>2. Guards(th[t]) = {}
      BY DEF Guards
    <3>3. \A u \in Threads \ {t} : u < th[t].j
      BY <1>1, <1>6, StateQueueAssumption DEF Threads
    <3>. QED
      BY <3>1, <3>2, <3>3 DEF QueueInv, Scanned
  <2>12. \A u \in Threads \ {t} : u < x.j => Reclaims(x) \cap Guards(th[u]) = {}
    BY <2>5 DEF Threads
  <2>13. Protects(x, hazarded'[t]) /\ NextAgrees(x)
    BY <2>5, <2>7 DEF Protects, NextAgrees
  <2>14. LocalMove(R, t, x)
    BY ZenonT(40), <1>0, <1>6, <2>5, <2>6, <2>7, <2>9, <2>10, <2>11, <2>12, <2>13 DEF LocalMove
  <2>. QED
    BY <2>14, LocalMoveKeeps
<1>. QED
  BY <1>1, <1>2, <1>4, <1>5, <1>6

\* So is a node that was just removed.
LEMMA ReclaimNodeKeeps ==
    ASSUME NEW R \in [Queues -> SUBSET Nodes], QueueInv(R), NEW t \in Threads,
           ReclaimNode(t)
    PROVE  QueueInv(R)'
<1>. USE DEF ReclaimNode, At
<1>0. /\ LocalsAgree(th[t]) /\ th[t] \in Locals /\ HeldOnce(th[t])
      /\ hazarded \in [Threads -> Nodes \cup {Null}]
  BY LocalsTyped
<1>1. PICK l \in Locals : l = th[t]
  BY <1>0
<1>2. Reclaims(th[t]) = {l.victim} \ {Null}
  BY <1>1 DEF Reclaims
<1>3. CASE th' = [th EXCEPT ![t].pc = "rdefer"] /\ UNCHANGED allocated
  <2>1. PICK x : x = [l EXCEPT !.pc = "rdefer"]
    OBVIOUS
  <2>2. /\ x.pc = "rdefer" /\ x.node = l.node /\ x.after = l.after
        /\ x.deferred = l.deferred /\ x.victim = l.victim /\ x \in Locals
    BY <2>1 DEF Locals, Labels
  <2>3. LocalsAgree(x)
    BY <1>0, <1>1, <2>2 DEF LocalsAgree, Goal, EnqueueGoals, DequeueGoals
  <2>. QED
    BY <1>0, <1>1, <1>3, <2>1, <2>2, <2>3, PlainMove
<1>4. CASE /\ l.j < THREADS /\ (l.j = t \/ hazarded[l.j] # l.victim)
           /\ th' = [th EXCEPT ![t].j = @ + 1] /\ UNCHANGED allocated
  BY <1>1, <1>2, <1>4, ScanGoesOn DEF shared
<1>5. CASE /\ l.j = THREADS /\ allocated' = allocated \ {l.victim}
           /\ th' = [th EXCEPT ![t] = ReclaimDone(l)]
  <2>1. PICK f : f = [l EXCEPT !.victim = Null, !.j = 0, !.after = "idle"]
    OBVIOUS
  <2>2. f \in Locals /\ f.node = Null /\ f.victim = Null /\ f.deferred = l.deferred
    <3>1. 0 \in 0..THREADS /\ "idle" \in Targets
      BY StateQueueAssumption DEF Labels, Targets
    <3>2. l.node = Null
      BY <1>0, <1>1 DEF LocalsAgree
    <3>. QED
      BY ZenonT(40), <2>1, <3>1, <3>2 DEF Locals
  <2>3. PICK g \in {"dretry", "dcount"} : g = l.after
    BY <1>0, <1>1 DEF LocalsAgree
  <2>4. PICK x : x = Resume(f, g)
    OBVIOUS
  <2>5. th' = [th EXCEPT ![t] = x]
    BY <1>5, <2>1, <2>3, <2>4 DEF ReclaimDone
  <2>6. /\ x \in Locals /\ LocalsAgree(x)
        /\ x.pc \in {"efirst", "ehazard", "ecount", "dcount", "dhazard", "done", "dread"}
        /\ x.victim = Null /\ x.deferred = l.deferred
    BY <2>2, <2>3, <2>4, ResumeGoes
  <2>7. /\ Guards(x) = {} /\ ~Writing(x) /\ Pending(x) = {} /\ Reclaims(x) = {}
        /\ Removed(x) = {} /\ Removed(l) = {} /\ Deferred(x) = Deferred(l)
    BY <1>1, <2>6 DEF Guards, Writing, Pending, Reclaims, Removed, Deferred
  <2>8. HeldOnce(x)
    <3>1. Null \notin Deferred(x)
      BY DEF Deferred
    <3>. QED
      BY <1>0, <1>1, <2>6, <2>7, <3>1 DEF HeldOnce
  <2>9. /\ Held(x) \subseteq Held(th[t])
        /\ l.victim # Null => l.victim \in Held(th[t]) \ Held(x)
    <3>1. l.victim \notin Deferred(l)
      BY <1>0, <1>1 DEF HeldOnce
    <3>. QED
      BY <1>1, <2>6, <2>7, <3>1 DEF Held, Doomed
  <2>10. l.victim # Null => \A u \in Threads : l.victim \notin Guards(th[u])
    <3>1. Guards(th[t]) = {}
      BY DEF Guards
    <3>2. \A u \in Threads \ {t} : u < th[t].j
      BY <1>1, <1>5, StateQueueAssumption DEF Threads
    <3>. QED
      BY <1>2, <3>1, <3>2 DEF QueueInv, Scanned
  <2>11. Null \notin allocated
    BY StateQueueAssumption DEF QueueInv, QueuesTyped
  <2>12. Protects(x, hazarded'[t]) /\ NextAgrees(x)
    BY <2>6, <2>7 DEF Protects, NextAgrees
  <2>13. LocalMove(R, t, x)
    BY ZenonT(120), <1>0, <1>5, <2>5, <2>6, <2>7, <2>8, <2>9, <2>10, <2>11, <2>12 DEF LocalMove
  <2>. QED
    BY <2>13, LocalMoveKeeps
<1>. QED
  BY <1>1, <1>3, <1>4, <1>5

-----------------------------------------------------------------------------
(***************************************************************************)
(* Steps that change the list of queue k.                                  *)
(***************************************************************************)

\* Thread t comes to local variables x, and queue i has the nodes S[i].  Nodes
\* go from what is new or held by t to the list and back, and to nobody else; and
\* a chained pointer that is settled stays.
ListMove(R, S, t, x, k) ==
    /\ x \in Locals /\ th' = [th EXCEPT ![t] = x] /\ hazarded' = hazarded
    /\ LocalsAgree(x) /\ Protects(x, hazarded[t]) /\ HeldOnce(x)
    /\ Reclaims(x) = {} /\ x.pc \notin {"dnext", "dskip"}
    /\ Guards(x) \subseteq Guards(th[t])
    /\ \A u \in Threads \ {t} :
          Writing(th[u]) => Load(SlotOf(th[u]))' = Load(SlotOf(th[u]))
    /\ Writing(x) => /\ Load(SlotOf(x))' = Written(x)
                     /\ IsStateSlot(SlotOf(x)) <=> x.node = Null
                     /\ \A u \in Threads \ {t} :
                           Writing(th[u]) => SlotOf(th[u]) # SlotOf(x)
    /\ \A m \in allocated :
          Settled(m) => /\ Chain(m)' = Chain(m)
                        /\ Writing(x) => SlotOf(x) # <<m, NodeSlots + 1>>
    /\ \A i \in Queues \ {k} : S[i] = R[i] /\ ends'[i] = ends[i]
    /\ allocated \ allocated' \subseteq Pending(th[t])
    /\ S[k] \cup Held(x) \subseteq allocated'
    /\ S[k] \cup Held(x) \subseteq R[k] \cup Held(th[t]) \cup (allocated' \ allocated)
    /\ S[k] \cap Held(x) = {}
    /\ Pending(x) \subseteq Pending(th[t]) \cup (allocated' \ allocated)

\* A step that gives queue k's list the nodes S[k] keeps the invariant.
LEMMA ListMoveKeeps ==
    ASSUME NEW R \in [Queues -> SUBSET Nodes], QueueInv(R),
           NEW S \in [Queues -> SUBSET Nodes], NEW t \in Threads, NEW x,
           NEW k \in Queues, ListMove(R, S, t, x, k), QueuesTyped',
           NEW e, e = ends'[k],
           \/ S[k] = R[k] /\ ends'[k] = ends[k]
           \/ e.head = Null
           \/ List(S[k], e)'
    PROVE  QueueInv(S)'
<1>. USE DEF QueueInv
<1>0. /\ th'[t] = x /\ \A u \in Threads \ {t} : th'[u] = th[u]
      /\ th \in [Threads -> Locals]
  BY OthersSame DEF ListMove, QueuesTyped
<1>2. ThreadsAgree'
  <2>. SUFFICES ASSUME NEW u \in Threads
                PROVE  /\ LocalsAgree(th'[u]) /\ Protects(th'[u], hazarded'[u])
                       /\ HeldOnce(th'[u])
    BY DEF ThreadsAgree
  <2>. QED
    BY <1>0 DEF ListMove, ThreadsAgree
<1>3. SlotsWritten'
  <2>. SUFFICES ASSUME NEW u \in Threads, NEW l, l = th'[u], Writing(l)
                PROVE  /\ Load(SlotOf(l))' = Written(l)
                       /\ IsStateSlot(SlotOf(l)) <=> l.node = Null
    BY DEF SlotsWritten, Load
  <2>1. CASE u = t
    BY <1>0, <2>1 DEF ListMove
  <2>2. CASE u # t
    BY <1>0, <2>2 DEF ListMove, SlotsWritten
  <2>. QED
    BY <2>1, <2>2
<1>4. SlotsApart'
  BY <1>0 DEF SlotsApart, ListMove
<1>5. \A m \in allocated : Settled(m) => Settled(m)' /\ Chain(m)' = Chain(m)
  BY <1>0 DEF Settled, ListMove
<1>6. \A u \in Threads : Guards(th'[u]) \subseteq Guards(th[u])
  BY <1>0 DEF ListMove
<1>7. NextLoaded'
  <2>. SUFFICES ASSUME NEW u \in Threads, NEW l, l = th'[u] PROVE NextAgrees(l)'
    BY DEF NextLoaded, NextAgrees
  <2>1. CASE u = t
    BY <1>0, <2>1 DEF NextAgrees, ListMove
  <2>2. CASE u # t
    <3>1. NextAgrees(l) /\ Guards(l) \subseteq allocated
      BY <1>0, <2>2 DEF NextLoaded, Owned
    <3>2. l.pc \in {"dnext", "dskip"} => Base(l.ends.head) \in allocated
      BY <3>1 DEF Guards
    <3>. QED
      BY <1>5, <3>1, <3>2 DEF NextAgrees
  <2>. QED
    BY <2>1, <2>2
<1>8. Linked(S)'
  <2>1. \A N, f : N \subseteq allocated /\ List(N, f) => List(N, f)'
    BY <1>5 DEF List
  <2>2. \A i \in Queues : R[i] \subseteq allocated
    BY DEF Owned
  <2>. SUFFICES ASSUME NEW i \in Queues, NEW f, f = ends'[i], f.head # Null
                PROVE  List(S[i], f)'
    BY DEF Linked, List
  <2>3. CASE S[i] = R[i] /\ ends'[i] = ends[i]
    BY <2>1, <2>2, <2>3 DEF Linked
  <2>. QED
    BY <2>3 DEF ListMove
<1>9. Owned(R)
  OBVIOUS
<1>10. Pending(th[t]) \subseteq Held(th[t])
  BY DEF Held
<1>11. \A u \in Threads : Guards(th[u]) \cap Pending(th[t]) = {}
  BY DEF PendingUnseen
<1>12. Owned(S)'
  <2>1. \A i \in Queues \ {k} :
           /\ S[i] = R[i] /\ R[i] \subseteq allocated
           /\ S[i] \cap S[k] = {} /\ S[i] \cap Held(x) = {}
    BY <1>9 DEF Owned, ListMove
  <2>2. \A u \in Threads \ {t} :
           /\ Held(th'[u]) = Held(th[u]) /\ Held(th[u]) \subseteq allocated
           /\ Held(th[u]) \cap S[k] = {} /\ Held(th[u]) \cap Held(x) = {}
    BY <1>0, <1>9 DEF Owned, ListMove
  <2>3. \A i, j \in Queues : i # j => S[i] \cap S[j] = {}
    BY <1>9, <2>1 DEF Owned
  <2>4. \A i \in Queues, u \in Threads : S[i] \cap Held(th'[u]) = {}
    BY <1>0, <1>9, <2>1, <2>2 DEF Owned, ListMove
  <2>5. \A u, v \in Threads : u # v => Held(th'[u]) \cap Held(th'[v]) = {}
    BY <1>0, <1>9, <2>2 DEF Owned
  <2>6. \A i \in Queues : S[i] \subseteq allocated'
    <3>1. \A i \in Queues \ {k} : S[i] \cap Held(th[t]) = {}
      BY <1>9, <2>1 DEF Owned
    <3>. QED
      BY <1>10, <2>1, <3>1 DEF ListMove
  <2>7. \A u \in Threads : Held(th'[u]) \subseteq allocated'
    <3>1. \A u \in Threads \ {t} : Held(th[u]) \cap Held(th[t]) = {}
      BY <1>9 DEF Owned
    <3>. QED
      BY <1>0, <1>10, <2>2, <3>1 DEF ListMove
  <2>8. \A u \in Threads : Guards(th'[u]) \subseteq allocated'
    <3>1. \A u \in Threads : Guards(th[u]) \subseteq allocated
      BY <1>9 DEF Owned
    <3>. QED
      BY <1>6, <1>11, <3>1 DEF ListMove
  <2>. QED
    BY <2>3, <2>4, <2>5, <2>6, <2>7, <2>8 DEF Owned
<1>13. PendingUnseen'
  <2>1. \A u \in Threads : Guards(th[u]) \subseteq allocated
    BY <1>9 DEF Owned
  <2>2. \A u \in Threads :
           Pending(th'[u]) \subseteq Pending(th[u]) \cup (allocated' \ allocated)
    BY <1>0 DEF ListMove
  <2>. QED
    BY <1>6, <2>1, <2>2 DEF PendingUnseen
<1>14. Scanned'
  BY <1>0, <1>6 DEF Scanned, ListMove
<1>. QED
  BY <1>2, <1>3, <1>4, <1>7, <1>8, <1>12, <1>13, <1>14

\* Handles and ends of the types the queues keep.
LEMMA HandleOf ==
    ASSUME NEW n \in Nodes
    PROVE  /\ FirstHandle(n) \in Handles /\ IsStateSlot(FirstHandle(n))
           /\ Base(FirstHandle(n)) = n /\ FirstHandle(n) # Null
           /\ FirstHandle(n)[2] = 1 /\ 1 \in 1..NodeSlots+1
           /\ NodeSlots + 1 \in 1..NodeSlots+1
BY StateQueueAssumption DEF FirstHandle, Handles, IsStateSlot, Base

\* The slot after one that holds a state.
LEMMA NextHandleOf ==
    ASSUME NEW h \in Handles, IsStateSlot(h)
    PROVE  /\ NextHandle(h) \in Handles /\ Base(NextHandle(h)) = Base(h)
           /\ NextHandle(h) # Null /\ NextHandle(h)[2] = h[2] + 1
           /\ Base(h) \in Nodes /\ h[2] \in 1..NodeSlots
           /\ NextHandle(h)[1] = Base(h)
           /\ h = <<Base(h), h[2]>>
BY StateQueueAssumption DEF NextHandle, Handles, IsStateSlot, Base

\* queue_node_new gives a node that holds one state.
LEMMA NewNodeTyped ==
    ASSUME NEW s \in States
    PROVE  NewNode(s) \in [1..NodeSlots+1 -> Cells]
BY DEF NewNode, EmptyNode, Cells

\* A thread that writes works on a slot of a node it protects, which is in use.
LEMMA WriterSlot ==
    ASSUME NEW R, QueueInv(R), NEW t \in Threads, th[t].pc \in {"ewrite", "ecas", "eundo"}
    PROVE  /\ th[t].ends.tail \in Handles /\ IsStateSlot(th[t].ends.tail)
           /\ Base(th[t].ends.tail) \in allocated
           /\ SlotOf(th[t]) \in Handles
           /\ SlotOf(th[t])[1] = Base(th[t].ends.tail)
           /\ SlotOf(th[t])[2] = th[t].ends.tail[2] + 1
           /\ SlotOf(th[t]) = <<SlotOf(th[t])[1], SlotOf(th[t])[2]>>
<1>0. LocalsAgree(th[t]) /\ th[t] \in Locals
  BY LocalsTyped
<1>1. th[t].ends.tail \in Handles /\ IsStateSlot(th[t].ends.tail)
  BY <1>0 DEF LocalsAgree, Goal, EnqueueGoals, Locals, Ends, EndsType
<1>2. Base(th[t].ends.tail) \in allocated
  BY DEF QueueInv, Owned, Guards
<1>3. SlotOf(th[t]) = <<SlotOf(th[t])[1], SlotOf(th[t])[2]>>
  BY DEF SlotOf, NextHandle
<1>. QED
  BY <1>1, <1>2, <1>3, NextHandleOf DEF SlotOf

\* The first node of an empty queue is its list.
LEMMA EnqueueFirstKeeps ==
    ASSUME NEW R \in [Queues -> SUBSET Nodes], QueueInv(R), NEW t \in Threads,
           EnqueueFirst(t)
    PROVE  NodesInv'
<1>. USE DEF EnqueueFirst, At
<1>0. /\ LocalsAgree(th[t]) /\ th[t] \in Locals /\ Protects(th[t], hazarded[t])
      /\ HeldOnce(th[t])
  BY LocalsTyped
<1>1. PICK k \in Queues : k = th[t].queue
  BY <1>0 DEF Locals
<1>2. ASSUME ends[k] = th[t].ends,
             NEW n \in Nodes \ allocated, allocated' = allocated \cup {n},
             mem' = [mem EXCEPT ![n] = NewNode(th[t].s)],
             ends' = [ends EXCEPT ![k] = [head |-> FirstHandle(n), tail |-> FirstHandle(n)]],
             th' = [th EXCEPT ![t].pc = "ecount"]
      PROVE  NodesInv'
  <2>1. PICK x : x = [th[t] EXCEPT !.pc = "ecount"]
    OBVIOUS
  <2>2. /\ x.pc = "ecount" /\ x.s = th[t].s /\ x.ends = th[t].ends /\ x.node = th[t].node
        /\ x.deferred = th[t].deferred /\ x.victim = th[t].victim
        /\ x \in Locals
    BY <1>0, <2>1 DEF Locals, Labels
  <2>3. th' = [th EXCEPT ![t] = x]
    BY <1>2, <2>1
  <2>4. LocalsAgree(x)
    BY <1>0, <2>2 DEF LocalsAgree, Goal, EnqueueGoals, DequeueGoals
  <2>5. /\ Guards(x) = {} /\ ~Writing(x) /\ Pending(x) = {} /\ Removed(x) = {}
        /\ Reclaims(x) = {} /\ Deferred(x) = Deferred(th[t])
        /\ Pending(th[t]) = {} /\ Removed(th[t]) = {}
    BY <2>2 DEF Guards, Writing, Pending, Removed, Reclaims, Deferred
  <2>6. Protects(x, hazarded[t]) /\ HeldOnce(x) /\ Held(x) = Held(th[t])
    BY <1>0, <2>2, <2>5 DEF Protects, HeldOnce, Held, Doomed
  <2>7. Held(th[t]) \subseteq allocated
    BY DEF QueueInv, Owned
  <2>8. PICK e : e = [head |-> FirstHandle(n), tail |-> FirstHandle(n)]
    OBVIOUS
  <2>9. e \in Ends /\ e = ends'[k]
    BY <1>2, <2>8, HandleOf DEF QueueInv, QueuesTyped, Ends, EndsType
  <2>10. QueuesTyped'
    <3>1. mem' \in [Nodes -> [1..NodeSlots+1 -> Cells]]
      <4>1. NewNode(th[t].s) \in [1..NodeSlots+1 -> Cells]
        BY <1>0, NewNodeTyped DEF LocalsAgree, Goal
      <4>. QED
        BY <1>2, <4>1 DEF QueueInv, QueuesTyped
    <3>2. ends' \in [Queues -> Ends]
      BY <1>2, <2>8, <2>9 DEF QueueInv, QueuesTyped
    <3>3. th' \in [Threads -> Locals]
      BY <2>2, <2>3 DEF QueueInv, QueuesTyped
    <3>. QED
      BY <1>2, <3>1, <3>2, <3>3 DEF QueueInv, QueuesTyped
  <2>11. PICK S \in [Queues -> SUBSET Nodes] : S = [R EXCEPT ![k] = {n}]
    OBVIOUS
  <2>12. S[k] = {n} /\ \A i \in Queues \ {k} : S[i] = R[i] /\ ends'[i] = ends[i]
    BY <1>2, <2>11 DEF QueueInv, QueuesTyped
  <2>13. \A m \in Nodes \ {n} : mem'[m] = mem[m]
    BY <1>2 DEF QueueInv, QueuesTyped
  <2>14. \A m \in allocated : Chain(m)' = Chain(m)
    BY <2>13 DEF Chain, QueueInv, QueuesTyped
  <2>15. \A u \in Threads \ {t} :
            Writing(th[u]) => Load(SlotOf(th[u]))' = Load(SlotOf(th[u]))
    <3>. SUFFICES ASSUME NEW u \in Threads \ {t}, Writing(th[u]),
                         NEW h, h = SlotOf(th[u])
                  PROVE  Load(h)' = Load(h)
      BY <2>3, OthersSame DEF QueueInv, Load
    <3>1. h[1] \in allocated
      BY WriterSlot DEF Writing
    <3>. QED
      BY <2>13, <3>1 DEF Load, QueueInv, QueuesTyped
  <2>16. ListMove(R, S, t, x, k)
    BY ZenonT(40), <1>2, <2>2, <2>3, <2>4, <2>5, <2>6, <2>7, <2>12, <2>14, <2>15 DEF ListMove
  <2>17. List(S[k], e)'
    BY <2>8, <2>12, HandleOf DEF List
  <2>18. QueueInv(S)'
    BY <2>9, <2>10, <2>16, <2>17, ListMoveKeeps
  <2>. QED
    BY <2>18 DEF NodesInv
<1>3. ASSUME ends[k] # th[t].ends,
             th' = [th EXCEPT ![t].ends = ends[k], ![t].pc = EnqueueRetry(ends[k])],
             UNCHANGED <<mem, allocated, ends>>
      PROVE  NodesInv'
  <2>1. PICK e : e = ends[k]
    OBVIOUS
  <2>2. QueueInv(R)'
    BY <1>1, <1>3, <2>1, EnqueueFirstFails DEF shared
  <2>. QED
    BY <2>2 DEF NodesInv
<1>. QED
  BY <1>1, <1>2, <1>3

\* A store into a slot changes that slot only.
LEMMA StoreChanges ==
    ASSUME QueuesTyped, NEW h \in Handles, NEW v \in Cells
    PROVE  /\ Store(h, v) \in [Nodes -> [1..NodeSlots+1 -> Cells]]
           /\ Store(h, v)[h[1]][h[2]] = v
           /\ \A g \in Handles : g # h => Store(h, v)[g[1]][g[2]] = mem[g[1]][g[2]]
           /\ \A m \in Nodes \ {h[1]} : Store(h, v)[m] = mem[m]
<1>1. /\ mem \in [Nodes -> [1..NodeSlots+1 -> Cells]]
      /\ h[1] \in Nodes /\ h[2] \in 1..NodeSlots+1
  BY DEF QueuesTyped, Handles
<1>2. /\ Store(h, v) \in [Nodes -> [1..NodeSlots+1 -> Cells]]
      /\ Store(h, v)[h[1]][h[2]] = v
      /\ \A m \in Nodes \ {h[1]} : Store(h, v)[m] = mem[m]
      /\ \A i \in 1..NodeSlots+1 : i # h[2] => Store(h, v)[h[1]][i] = mem[h[1]][i]
  BY <1>1 DEF Store
<1>3. ASSUME NEW g \in Handles, g # h PROVE Store(h, v)[g[1]][g[2]] = mem[g[1]][g[2]]
  <2>1. /\ g[1] \in Nodes /\ g[2] \in 1..NodeSlots+1
        /\ g[1] # h[1] \/ g[2] # h[2]
    BY <1>3 DEF Handles
  <2>. QED
    BY <1>2, <2>1
<1>. QED
  BY <1>2, <1>3

\* A settled pointer is in no slot that a thread may empty again.
LEMMA SettledApart ==
    ASSUME NEW R, QueueInv(R), NEW t \in Threads, Writing(th[t]),
           NEW m \in Nodes, Settled(m)
    PROVE  <<m, NodeSlots + 1>> # SlotOf(th[t]) /\ <<m, NodeSlots + 1>> \in Handles
BY HandleOf DEF Settled, Handles

\* A slot that is undone was nobody else's to read.
LEMMA EnqueueUndoKeeps ==
    ASSUME NEW R \in [Queues -> SUBSET Nodes], QueueInv(R), NEW t \in Threads,
           EnqueueUndo(t)
    PROVE  QueueInv(R)'
<1>. USE DEF At
<1>a. /\ th[t].pc = "eundo" /\ hazarded' = hazarded /\ ends' = ends
      /\ allocated' = allocated \ {th[t].node}
  BY DEF EnqueueUndo
<1>0. /\ LocalsAgree(th[t]) /\ th[t] \in Locals /\ Protects(th[t], hazarded[t])
      /\ HeldOnce(th[t]) /\ NoEnds \in Ends
  BY LocalsTyped
<1>1. PICK k \in Queues : k = th[t].queue
  BY <1>0 DEF Locals
<1>2. PICK h \in Handles : h = SlotOf(th[t])
  BY <1>a, WriterSlot
<1>3. PICK e \in Ends : e = th[t].old
  BY <1>0 DEF Locals
<1>4. PICK g \in {"efirst", "ehazard"} : g = EnqueueRetry(e)
  BY DEF EnqueueRetry
<1>5. PICK x : x = [th[t] EXCEPT !.pc = "unhazard", !.node = Null, !.ends = e,
                                 !.old = NoEnds, !.then = g]
  OBVIOUS
<1>6. /\ x.pc = "unhazard" /\ x.s = th[t].s /\ x.ends = e /\ x.node = Null /\ x.then = g
      /\ x.deferred = th[t].deferred /\ x.victim = th[t].victim
      /\ x \in Locals
  BY ZenonT(40), <1>0, <1>5 DEF Locals, Labels, Targets
<1>7. th' = [th EXCEPT ![t] = x]
  BY <1>3, <1>4, <1>5 DEF EnqueueUndo
<1>8. LocalsAgree(x)
  BY <1>a, <1>0, <1>4, <1>6 DEF LocalsAgree, Goal, EnqueueGoals, DequeueGoals, EnqueueRetry
<1>9. /\ Guards(x) = {} /\ ~Writing(x) /\ Pending(x) = {} /\ Removed(x) = {}
      /\ Reclaims(x) = {} /\ Deferred(x) = Deferred(th[t])
      /\ Pending(th[t]) = {th[t].node} \ {Null} /\ Removed(th[t]) = {} /\ Writing(th[t])
  BY <1>a, <1>6 DEF Guards, Writing, Pending, Removed, Reclaims, Deferred
<1>10. /\ Protects(x, hazarded[t]) /\ HeldOnce(x) /\ Held(x) = Doomed(th[t])
       /\ Held(x) \subseteq Held(th[t]) \ Pending(th[t])
  BY <1>a, <1>0, <1>6, <1>9 DEF Protects, HeldOnce, Held, Doomed
<1>11. Held(th[t]) \subseteq allocated /\ R[k] \subseteq allocated
       /\ R[k] \cap Held(th[t]) = {} /\ Null \notin allocated
  BY StateQueueAssumption DEF QueueInv, Owned, QueuesTyped
<1>12. mem' = Store(h, Null)
  BY <1>2 DEF Undone, SlotOf, EnqueueUndo
<1>13. QueuesTyped'
  <2>1. mem' \in [Nodes -> [1..NodeSlots+1 -> Cells]]
    BY <1>12, StoreChanges DEF QueueInv, Cells
  <2>2. th' \in [Threads -> Locals]
    BY <1>6, <1>7 DEF QueueInv, QueuesTyped
  <2>. QED
    BY <1>a, <2>1, <2>2 DEF QueueInv, QueuesTyped
<1>14. \A f \in Handles : f # h => mem'[f[1]][f[2]] = mem[f[1]][f[2]]
  BY <1>12, StoreChanges DEF QueueInv, Cells
<1>15. \A m \in allocated : Settled(m) => Chain(m)' = Chain(m)
  <2>. SUFFICES ASSUME NEW m \in allocated, Settled(m) PROVE Chain(m)' = Chain(m)
    OBVIOUS
  <2>1. m \in Nodes
    BY DEF QueueInv, QueuesTyped
  <2>2. PICK f \in Handles : f = <<m, NodeSlots + 1>> /\ f # h
    BY <1>2, <1>9, <2>1, SettledApart
  <2>3. mem'[f[1]][f[2]] = mem[f[1]][f[2]]
    BY <1>14, <2>2
  <2>. QED
    BY <2>2, <2>3 DEF Chain
<1>16. \A u \in Threads \ {t} :
          Writing(th[u]) => Load(SlotOf(th[u]))' = Load(SlotOf(th[u]))
  <2>. SUFFICES ASSUME NEW u \in Threads \ {t}, Writing(th[u]), NEW f, f = SlotOf(th[u])
                PROVE  Load(f)' = Load(f)
    <3>1. \A u \in Threads \ {t} : th'[u] = th[u]
      BY <1>7, OthersSame DEF QueueInv
    <3>. QED
      BY <3>1 DEF Load
  <2>1. f \in Handles
    BY WriterSlot DEF Writing
  <2>2. f # h
    BY <1>2, <1>9 DEF QueueInv, SlotsApart
  <2>. QED
    BY <1>14, <2>1, <2>2 DEF Load
<1>17. /\ allocated \ allocated' \subseteq Pending(th[t])
       /\ R[k] \cup Held(x) \subseteq allocated'
  <2>1. Pending(th[t]) \subseteq Held(th[t])
    BY DEF Held
  <2>. QED
    BY <1>a, <1>9, <1>10, <1>11, <2>1
<1>18. /\ R[k] \cap Held(x) = {}
       /\ R[k] \cup Held(x) \subseteq R[k] \cup Held(th[t]) \cup (allocated' \ allocated)
  BY <1>10, <1>11
<1>19. ListMove(R, R, t, x, k)
  BY <1>a, <1>6, <1>7, <1>8, <1>9, <1>10, <1>15, <1>16, <1>17, <1>18 DEF ListMove
<1>. QED
  BY <1>a, <1>13, <1>19, ListMoveKeeps

\* The compare-and-swap at the tail: a chained node joins the list.
LEMMA EnqueueCASKeeps ==
    ASSUME NEW R \in [Queues -> SUBSET Nodes], QueueInv(R), NEW t \in Threads,
           EnqueueCAS(t)
    PROVE  NodesInv'
<1>. USE DEF At
<1>a. /\ th[t].pc = "ecas" /\ hazarded' = hazarded /\ mem' = mem /\ allocated' = allocated
      /\ count' = count
  BY DEF EnqueueCAS
<1>0. /\ LocalsAgree(th[t]) /\ th[t] \in Locals /\ Protects(th[t], hazarded[t])
      /\ HeldOnce(th[t]) /\ \A i \in Queues : ends[i] \in Ends
  BY LocalsTyped
<1>1. PICK k \in Queues : k = th[t].queue
  BY <1>0 DEF Locals
<1>2. PICK n \in Nodes \cup {Null} : n = th[t].node
  BY <1>0 DEF Locals
<1>3. ASSUME ends[k] = th[t].ends,
             ends' = [ends EXCEPT ![k].tail = NewTail(th[t])],
             th' = [th EXCEPT ![t].pc = "unhazard", ![t].then = "ecount", ![t].node = Null]
      PROVE  NodesInv'
  <2>1. PICK x : x = [th[t] EXCEPT !.pc = "unhazard", !.then = "ecount", !.node = Null]
    OBVIOUS
  <2>2. /\ x.pc = "unhazard" /\ x.s = th[t].s /\ x.ends = th[t].ends /\ x.node = Null
        /\ x.then = "ecount"
        /\ x.deferred = th[t].deferred /\ x.victim = th[t].victim
        /\ x \in Locals
    BY ZenonT(40), <1>0, <2>1 DEF Locals, Labels, Targets
  <2>3. th' = [th EXCEPT ![t] = x]
    BY <1>3, <2>1
  <2>4. LocalsAgree(x)
    BY <1>a, <1>0, <2>2 DEF LocalsAgree, Goal, EnqueueGoals, DequeueGoals
  <2>5. /\ Guards(x) = {} /\ ~Writing(x) /\ Pending(x) = {} /\ Removed(x) = {}
        /\ Reclaims(x) = {} /\ Deferred(x) = Deferred(th[t])
        /\ Pending(th[t]) = {n} \ {Null} /\ Removed(th[t]) = {} /\ Writing(th[t])
    BY <1>a, <1>2, <2>2 DEF Guards, Writing, Pending, Removed, Reclaims, Deferred
  <2>6. /\ Protects(x, hazarded[t]) /\ HeldOnce(x) /\ Held(x) = Doomed(th[t])
        /\ Held(th[t]) = Held(x) \cup ({n} \ {Null}) /\ n \notin Held(x) \ {Null}
    BY <1>a, <1>0, <2>2, <2>5 DEF Protects, HeldOnce, Held, Doomed
  <2>7. /\ Held(th[t]) \subseteq allocated /\ R[k] \subseteq allocated
        /\ R[k] \cap Held(th[t]) = {} /\ Null \notin Held(x) /\ allocated \subseteq Nodes
    BY <2>6, StateQueueAssumption DEF QueueInv, Owned, QueuesTyped
  <2>8. /\ SlotOf(th[t]) = <<Base(ends[k].tail), ends[k].tail[2] + 1>>
        /\ SlotOf(th[t]) \in Handles
        /\ ends[k].tail \in Handles /\ IsStateSlot(ends[k].tail)
        /\ Load(SlotOf(th[t])) = Written(th[t])
        /\ IsStateSlot(SlotOf(th[t])) <=> n = Null
    <3>1. Load(SlotOf(th[t])) = Written(th[t]) /\ (IsStateSlot(SlotOf(th[t])) <=> n = Null)
      BY <1>2, <2>5 DEF QueueInv, SlotsWritten
    <3>. QED
      BY <1>a, <1>3, <3>1, WriterSlot
  <2>9. PICK h \in Handles : h = NewTail(th[t]) /\ IsStateSlot(h) /\ h # Null
    <3>1. CASE n = Null
      BY <1>2, <2>8, <3>1, StateQueueAssumption DEF NewTail, SlotOf
    <3>2. CASE n # Null
      BY <1>2, <3>2, HandleOf DEF NewTail
    <3>. QED
      BY <3>1, <3>2
  <2>10. PICK e : e = [ends[k] EXCEPT !.tail = h]
    OBVIOUS
  <2>11. e \in Ends /\ e.head = ends[k].head /\ e.tail = h /\ e.head # Null
    BY <1>0, <2>8, <2>9, <2>10, StateQueueAssumption DEF Ends, EndsType
  <2>12. ends' = [ends EXCEPT ![k] = e] /\ e = ends'[k]
    BY <1>3, <2>9, <2>10 DEF QueueInv, QueuesTyped
  <2>13. QueuesTyped'
    BY <1>a, <2>2, <2>3, <2>11, <2>12 DEF QueueInv, QueuesTyped
  <2>14. PICK S \in [Queues -> SUBSET Nodes] : S = [R EXCEPT ![k] = R[k] \cup ({n} \ {Null})]
    OBVIOUS
  <2>15. /\ S[k] = R[k] \cup ({n} \ {Null})
         /\ \A i \in Queues \ {k} : S[i] = R[i] /\ ends'[i] = ends[i]
    BY <2>12, <2>14 DEF QueueInv, QueuesTyped
  <2>16. \A f : Chain(f)' = Chain(f) /\ Load(f)' = Load(f)
    BY <1>a DEF Chain, Load
  <2>17. \A u \in Threads \ {t} :
            Writing(th[u]) => Load(SlotOf(th[u]))' = Load(SlotOf(th[u]))
    BY <1>a, <2>3, OthersSame DEF QueueInv, Load
  <2>18. ListMove(R, S, t, x, k)
    BY <1>a, <2>2, <2>3, <2>4, <2>5, <2>6, <2>7, <2>15, <2>16, <2>17 DEF ListMove
  <2>19. List(S[k], e)'
    <3>1. PICK first, last : first = Base(ends[k].head) /\ last = Base(ends[k].tail)
      OBVIOUS
    <3>2. List(R[k], ends[k])
      BY <2>11 DEF QueueInv, Linked
    <3>3. /\ first \in R[k] /\ last \in R[k]
          /\ first = last => ends[k].head[2] <= ends[k].tail[2]
          /\ \A m \in R[k] \ {last} :
                /\ Settled(m) /\ Chain(m) \in R[k] \ {first}
                /\ \A l \in R[k] \ {last} : Chain(l) = Chain(m) => l = m
      BY <3>1, <3>2 DEF List
    <3>4. \A m : Settled(m) => Settled(m)'
      BY <1>a, <2>3, <2>5, OthersSame DEF Settled, Chain, QueueInv
    <3>5. CASE n = Null
      <4>1. h = SlotOf(th[t]) /\ S[k] = R[k]
        BY <1>2, <2>9, <2>15, <3>5 DEF NewTail, SlotOf
      <4>2. Base(h) = last /\ h[2] = ends[k].tail[2] + 1
        BY <2>8, <3>1, <4>1 DEF Base
      <4>3. ends[k].tail[2] \in Nat /\ ends[k].head[2] \in Nat
        BY <2>8, <2>11, StateQueueAssumption DEF Handles, Ends, EndsType
      <4>4. first = last => e.head[2] <= e.tail[2]
        BY <2>11, <3>3, <4>2, <4>3
      <4>5. Base(e.head) = first /\ Base(e.tail) = last
        BY <2>11, <3>1, <4>2
      <4>. QED
        BY <1>a, <2>16, <3>3, <3>4, <4>1, <4>4, <4>5 DEF List
    <3>6. CASE n # Null
      <4>1. /\ n \in Nodes /\ n \notin R[k] /\ S[k] = R[k] \cup {n}
        BY <2>6, <2>7, <2>15, <3>6
      <4>2. Base(e.head) = first /\ Base(e.tail) = n /\ first # n
        BY <1>2, <2>9, <2>11, <3>1, <3>3, <3>6, <4>1, HandleOf DEF NewTail
      <4>3. SlotOf(th[t]) = <<last, NodeSlots + 1>>
        <5>1. ~IsStateSlot(SlotOf(th[t])) /\ SlotOf(th[t])[2] = ends[k].tail[2] + 1
          BY <2>8, <3>6
        <5>2. SlotOf(th[t])[2] = NodeSlots + 1
          BY <2>8, <5>1, StateQueueAssumption DEF Handles, IsStateSlot
        <5>. QED
          BY <2>8, <3>1, <5>1, <5>2
      <4>4. Chain(last) = n
        BY <1>2, <2>8, <3>6, <4>3 DEF Load, Written, Chain
      <4>5. Settled(last)'
        <5>1. \A u \in Threads \ {t} : Writing(th[u]) => SlotOf(th[u]) # <<last, NodeSlots + 1>>
          BY <2>5, <4>3 DEF QueueInv, SlotsApart
        <5>2. \A u \in Threads : Writing(th'[u]) => u # t /\ th'[u] = th[u]
          BY <2>3, <2>5, OthersSame DEF QueueInv
        <5>3. \A u \in Threads : Writing(th'[u]) => SlotOf(th'[u]) # <<last, NodeSlots + 1>>
          BY <5>1, <5>2
        <5>. QED
          BY <1>a, <4>1, <4>4, <5>3 DEF Settled, Chain
      <4>6. \A m \in R[k] : Settled(m)' /\ Chain(m) \in S[k] \ {first}
        BY <3>3, <3>4, <4>1, <4>2, <4>4, <4>5
      <4>7. \A m, l \in R[k] : Chain(l) = Chain(m) => l = m
        BY <3>3, <4>1, <4>4
      <4>8. S[k] \ {n} = R[k] /\ first \in S[k] /\ n \in S[k]
        BY <3>3, <4>1
      <4>. QED
        BY <2>16, <4>2, <4>6, <4>7, <4>8 DEF List
    <3>. QED
      BY <3>5, <3>6
  <2>20. QueueInv(S)'
    BY <2>12, <2>13, <2>18, <2>19, ListMoveKeeps
  <2>. QED
    BY <2>20 DEF NodesInv
<1>4. ASSUME ends[k] # th[t].ends,
             th' = [th EXCEPT ![t].old = ends[k], ![t].pc = "eundo"], UNCHANGED ends
      PROVE  NodesInv'
  <2>1. PICK e \in Ends : e = ends[k]
    BY <1>0
  <2>2. QueueInv(R)'
    BY <1>a, <1>4, <2>1, EnqueueCASFails DEF shared
  <2>. QED
    BY <2>2 DEF NodesInv
<1>. QED
  BY <1>1, <1>3, <1>4 DEF EnqueueCAS

\* The two successful writes of an enqueuer: x is the thread with its slot h
\* filled, the node n chained or none (n = Null).
WriteMove(t, h, n, x) ==
    /\ th[t].pc = "ewrite" /\ h = SlotOf(th[t]) /\ Load(h) = Null
    /\ IsStateSlot(h) <=> n = Null
    /\ x \in Locals /\ x.pc = "ecas" /\ x.s = th[t].s /\ x.ends = th[t].ends
    /\ x.node = n /\ x.deferred = th[t].deferred /\ x.victim = th[t].victim
    /\ x = [th[t] EXCEPT !.node = n, !.pc = "ecas"] /\ th' = [th EXCEPT ![t] = x]
    /\ UNCHANGED <<hazarded, ends, count, fresh, explored>>
    /\ n \notin allocated /\ allocated' = allocated \cup ({n} \ {Null})
    /\ mem' \in [Nodes -> [1..NodeSlots+1 -> Cells]]
    /\ mem'[h[1]][h[2]] = Written(x)
    /\ n # Null => mem'[n][1] = x.s
    /\ \A g \in Handles \ {h} : g[1] \in allocated => mem'[g[1]][g[2]] = mem[g[1]][g[2]]

\* A write behind the tail touches no list.
LEMMA WriteKeeps ==
    ASSUME NEW R \in [Queues -> SUBSET Nodes], QueueInv(R), NEW t \in Threads,
           NEW h \in Handles, NEW n \in Nodes \cup {Null}, NEW x, WriteMove(t, h, n, x)
    PROVE  QueueInv(R)'
<1>. USE DEF WriteMove
<1>0. /\ LocalsAgree(th[t]) /\ th[t] \in Locals /\ Protects(th[t], hazarded[t])
      /\ HeldOnce(th[t])
  BY LocalsTyped
<1>1. PICK k \in Queues : k = th[t].queue
  BY <1>0 DEF Locals
<1>2. /\ x.pc = "ecas" /\ x.s = th[t].s /\ x.ends = th[t].ends /\ x.node = n
      /\ x.deferred = th[t].deferred /\ x.victim = th[t].victim
      /\ x \in Locals
  OBVIOUS
<1>3. LocalsAgree(x)
  BY <1>0, <1>2 DEF LocalsAgree, Goal, EnqueueGoals, DequeueGoals
<1>4. /\ Guards(x) = Guards(th[t]) /\ Writing(x) /\ Pending(x) = {n} \ {Null}
      /\ Removed(x) = {} /\ Reclaims(x) = {} /\ Deferred(x) = Deferred(th[t])
      /\ Removed(th[t]) = {} /\ SlotOf(x) = h
  BY <1>2 DEF Guards, Writing, Pending, Removed, Reclaims, Deferred, SlotOf
<1>5. /\ Held(th[t]) \subseteq allocated /\ R[k] \subseteq allocated
      /\ R[k] \cap Held(th[t]) = {} /\ allocated \subseteq Nodes
  BY DEF QueueInv, Owned, QueuesTyped
<1>6. Doomed(x) = Doomed(th[t]) /\ Doomed(x) \subseteq Held(th[t])
  BY <1>2, <1>4 DEF Doomed, Held
<1>7. Protects(x, hazarded[t]) /\ HeldOnce(x)
  BY <1>0, <1>2, <1>4, <1>5, <1>6 DEF Protects, HeldOnce
<1>8. QueuesTyped'
  <2>1. th' \in [Threads -> Locals]
    BY <1>2 DEF QueueInv, QueuesTyped
  <2>. QED
    BY <2>1 DEF QueueInv, QueuesTyped
<1>9. \A u \in Threads \ {t} :
         Writing(th[u]) => /\ Load(SlotOf(th[u]))' = Load(SlotOf(th[u]))
                           /\ SlotOf(th[u]) # h
  <2>. SUFFICES ASSUME NEW u \in Threads \ {t}, Writing(th[u]), NEW f, f = SlotOf(th[u])
                PROVE  Load(f)' = Load(f) /\ f # h
    <3>1. \A u \in Threads \ {t} : th'[u] = th[u]
      BY OthersSame DEF QueueInv
    <3>. QED
      BY <3>1 DEF Load
  <2>1. f \in Handles /\ f[1] \in allocated
    BY WriterSlot DEF Writing
  <2>2. f # h
    <3>1. th[u].s \in States /\ th[u].node \in Nodes \cup {Null}
      BY LocalsTyped DEF LocalsAgree, Locals, Writing, Goal, EnqueueGoals
    <3>2. Load(f) = Written(th[u])
      BY DEF QueueInv, SlotsWritten
    <3>. QED
      BY <3>1, <3>2, StateQueueAssumption DEF Written
  <2>. QED
    BY <2>1, <2>2 DEF Load
<1>10. \A m \in allocated : Settled(m) => Chain(m)' = Chain(m) /\ h # <<m, NodeSlots + 1>>
  <2>. SUFFICES ASSUME NEW m \in allocated, Settled(m)
                PROVE  Chain(m)' = Chain(m) /\ h # <<m, NodeSlots + 1>>
    OBVIOUS
  <2>1. PICK f \in Handles : f = <<m, NodeSlots + 1>>
    BY <1>5, HandleOf DEF Handles
  <2>2. Load(f) = Chain(m) /\ Chain(m) # Null
    BY <2>1, StateQueueAssumption DEF Load, Chain, Settled
  <2>3. f # h
    BY <2>2
  <2>4. mem'[f[1]][f[2]] = mem[f[1]][f[2]]
    BY <2>1, <2>3
  <2>. QED
    BY <2>1, <2>3, <2>4 DEF Chain
<1>11. Load(SlotOf(x))' = Written(x)
  <2>1. PICK w : w = Written(x)
    OBVIOUS
  <2>2. Load(h)' = w
    BY <2>1 DEF Load
  <2>. QED
    BY <1>4, <2>1, <2>2
<1>12. /\ R[k] \cup Held(x) \subseteq allocated'
       /\ R[k] \cap Held(x) = {}
       /\ R[k] \cup Held(x) \subseteq R[k] \cup Held(th[t]) \cup (allocated' \ allocated)
       /\ Pending(x) \subseteq allocated' \ allocated
       /\ allocated \ allocated' \subseteq Pending(th[t])
  BY <1>4, <1>5, <1>6 DEF Held
<1>13. ListMove(R, R, t, x, k)
  BY <1>2, <1>3, <1>4, <1>7, <1>9, <1>10, <1>11, <1>12 DEF ListMove
<1>. QED
  BY <1>8, <1>13, ListMoveKeeps

\* The compare-and-swap of a slot writes behind the tail, or fails and changes nothing.
LEMMA EnqueueWriteMoves ==
    ASSUME NEW R \in [Queues -> SUBSET Nodes], QueueInv(R), NEW t \in Threads,
           EnqueueWrite(t)
    PROVE  \/ \E h \in Handles, n \in Nodes \cup {Null}, x \in Locals :
                 WriteMove(t, h, n, x)
           \/ /\ UNCHANGED <<mem, allocated, ends, count, hazarded, fresh, explored>>
              /\ th' = [th EXCEPT ![t].pc = "unhazard", ![t].then = EnqueueRetry(th[t].ends)]
<1>. USE DEF At
<1>0. /\ th[t].pc = "ewrite"
      /\ UNCHANGED <<hazarded, ends, count, fresh, explored>>
      /\ LocalsAgree(th[t]) /\ th[t] \in Locals
  BY LocalsTyped DEF EnqueueWrite
<1>1. PICK h \in Handles : h = SlotOf(th[t])
  BY <1>0, WriterSlot
<1>2. /\ h[1] \in allocated /\ th[t].s \in States /\ th[t].node = Null
      /\ allocated \subseteq Nodes /\ Null \notin allocated /\ QueuesTyped
  BY <1>0, <1>1, WriterSlot, StateQueueAssumption
     DEF LocalsAgree, Goal, EnqueueGoals, QueueInv, QueuesTyped
<1>3. ASSUME Load(h) = Null, IsStateSlot(h), mem' = Store(h, th[t].s),
             th' = [th EXCEPT ![t].pc = "ecas"], allocated' = allocated
      PROVE  \E i \in Nodes \cup {Null}, x \in Locals : WriteMove(t, h, i, x)
  <2>0. PICK n \in Nodes \cup {Null} : n = Null
    OBVIOUS
  <2>1. PICK x : x = [th[t] EXCEPT !.node = n, !.pc = "ecas"]
    OBVIOUS
  <2>2. /\ x.pc = "ecas" /\ x.s = th[t].s /\ x.ends = th[t].ends /\ x.node = n
        /\ x.deferred = th[t].deferred /\ x.victim = th[t].victim
        /\ x \in Locals
    BY <1>0, <2>1 DEF Locals, Labels
  <2>13. [th[t] EXCEPT !.pc = "ecas"] = x
    <3>1. PICK l \in Locals : l = th[t] /\ l.node = n
      BY <1>0, <1>2, <2>0
    <3>2. [l EXCEPT !.pc = "ecas"] = [l EXCEPT !.node = n, !.pc = "ecas"]
      BY <3>1 DEF Locals
    <3>. QED
      BY <2>1, <3>1, <3>2
  <2>10. th' = [th EXCEPT ![t] = x] /\ Written(x) = th[t].s
    BY <1>3, <2>0, <2>2, <2>13 DEF Written
  <2>3. th[t].s \in Cells
    BY <1>2 DEF Cells
  <2>4. /\ mem' \in [Nodes -> [1..NodeSlots+1 -> Cells]]
        /\ mem'[h[1]][h[2]] = Written(x)
        /\ \A g \in Handles \ {h} : mem'[g[1]][g[2]] = mem[g[1]][g[2]]
    BY <1>2, <1>3, <2>3, <2>10, StoreChanges
  <2>5. /\ n \notin allocated /\ allocated' = allocated \cup ({n} \ {Null})
        /\ IsStateSlot(h) <=> n = Null
    BY <1>2, <1>3, <2>0
  <2>12. WriteMove(t, h, n, x)
    BY <1>0, <1>1, <1>3, <2>0, <2>1, <2>2, <2>4, <2>5, <2>10 DEF WriteMove
  <2>. QED
    BY <2>2, <2>12
<1>4. ASSUME Load(h) = Null, ~IsStateSlot(h), NEW n \in Nodes \ allocated,
             allocated' = allocated \cup {n},
             mem' = [Store(h, n) EXCEPT ![n] = NewNode(th[t].s)],
             th' = [th EXCEPT ![t].node = n, ![t].pc = "ecas"]
      PROVE  \E i \in Nodes \cup {Null}, x \in Locals : WriteMove(t, h, i, x)
  <2>1. PICK x : x = [th[t] EXCEPT !.node = n, !.pc = "ecas"]
    OBVIOUS
  <2>0. /\ x.pc = "ecas" /\ x.s = th[t].s /\ x.ends = th[t].ends /\ x.node = n
        /\ x.deferred = th[t].deferred /\ x.victim = th[t].victim
        /\ x \in Locals
    BY <1>0, <2>1 DEF Locals, Labels
  <2>2. th' = [th EXCEPT ![t] = x] /\ Written(x) = n
    BY ZenonT(40), <1>4, <2>0, <2>1, StateQueueAssumption DEF Written
  <2>3. n \in Cells
    BY DEF Cells
  <2>4. PICK M : M = Store(h, n)
    OBVIOUS
  <2>5. /\ M \in [Nodes -> [1..NodeSlots+1 -> Cells]] /\ M[h[1]][h[2]] = n
        /\ \A g \in Handles \ {h} : M[g[1]][g[2]] = mem[g[1]][g[2]]
    BY <1>2, <2>3, <2>4, StoreChanges
  <2>6. NewNode(th[t].s) \in [1..NodeSlots+1 -> Cells]
    BY <1>2, NewNodeTyped
  <2>7. /\ mem' \in [Nodes -> [1..NodeSlots+1 -> Cells]]
        /\ \A m \in Nodes \ {n} : mem'[m] = M[m]
    BY <1>4, <2>4, <2>5, <2>6
  <2>8. mem'[h[1]][h[2]] = Written(x)
    BY <1>2, <2>2, <2>5, <2>7
  <2>9. \A g \in Handles \ {h} : g[1] \in allocated => mem'[g[1]][g[2]] = mem[g[1]][g[2]]
    BY <1>2, <2>5, <2>7
  <2>10. /\ n \in Nodes \cup {Null} /\ n \notin allocated
         /\ allocated' = allocated \cup ({n} \ {Null}) /\ (IsStateSlot(h) <=> n = Null)
    BY <1>4, StateQueueAssumption
  <2>11. mem'[n][1] = x.s
    <3>1. mem'[n] = NewNode(th[t].s)
      BY <1>4, <2>4, <2>5
    <3>2. NewNode(th[t].s)[1] = th[t].s
      BY HandleOf DEF NewNode, EmptyNode
    <3>. QED
      BY <2>0, <3>1, <3>2
  <2>12. WriteMove(t, h, n, x)
    BY <1>0, <1>1, <1>4, <2>0, <2>1, <2>2, <2>7, <2>8, <2>9, <2>10, <2>11 DEF WriteMove
  <2>. QED
    BY <2>0, <2>10, <2>12
<1>. QED
  BY <1>1, <1>3, <1>4 DEF EnqueueWrite, SlotFree, SlotOf

\* The state, or a node with it, is written behind the tail.
LEMMA EnqueueWriteKeeps ==
    ASSUME NEW R \in [Queues -> SUBSET Nodes], QueueInv(R), NEW t \in Threads,
           EnqueueWrite(t)
    PROVE  QueueInv(R)'
<1>1. At(t, "ewrite")
  BY DEF EnqueueWrite
<1>2. CASE \E h \in Handles, n \in Nodes \cup {Null}, x \in Locals :
               WriteMove(t, h, n, x)
  BY <1>2, WriteKeeps
<1>3. CASE /\ UNCHANGED <<mem, allocated, ends, count, hazarded, fresh, explored>>
           /\ th' = [th EXCEPT ![t].pc = "unhazard", ![t].then = EnqueueRetry(th[t].ends)]
  BY <1>1, <1>3, EnqueueWriteFails DEF shared
<1>. QED
  BY <1>2, <1>3, EnqueueWriteMoves

\* The head moves to the next node: the thread that moved it has the old one.
LEMMA DequeueSkipKeeps ==
    ASSUME NEW R \in [Queues -> SUBSET Nodes], QueueInv(R), NEW t \in Threads,
           DequeueSkip(t)
    PROVE  NodesInv'
<1>0. /\ LocalsAgree(th[t]) /\ th[t] \in Locals /\ Protects(th[t], hazarded[t])
      /\ HeldOnce(th[t]) /\ NextAgrees(th[t]) /\ \A i \in Queues : ends[i] \in Ends
  BY LocalsTyped
<1>1. PICK k \in Queues : k = th[t].queue
  BY <1>0 DEF Locals
<1>a. /\ th[t].pc = "dskip" /\ hazarded' = hazarded /\ mem' = mem /\ allocated' = allocated
      /\ count' = count
  BY DEF DequeueSkip, At
<1>2. ASSUME NEW c, c = th[t].node, ends[k] = th[t].ends,
             NEW e, e = [ends[k] EXCEPT !.head = FirstHandle(c)],
             ends' = [ends EXCEPT ![k] = e],
             th' = [th EXCEPT ![t].pc = "unhazard", ![t].then = "reclaim",
                              ![t].victim = Base(th[t].ends.head),
                              ![t].after = "dretry", ![t].old = e, ![t].node = Null]
      PROVE  NodesInv'
  <2>1. PICK first, last : first = Base(ends[k].head) /\ last = Base(ends[k].tail)
    OBVIOUS
  <2>2. ends[k].head # Null
    BY <1>0, <1>2, <1>a DEF LocalsAgree, Goal, DequeueGoals
  <2>3. List(R[k], ends[k])
    BY <2>2 DEF QueueInv, Linked
  <2>4. /\ first \in R[k] /\ last \in R[k]
        /\ first = last => ends[k].head[2] <= ends[k].tail[2]
        /\ \A m \in R[k] \ {last} :
              /\ Settled(m) /\ Chain(m) \in R[k] \ {first}
              /\ \A l \in R[k] \ {last} : Chain(l) = Chain(m) => l = m
    BY <2>1, <2>3 DEF List
  <2>5. /\ ends[k].head \in Handles /\ ends[k].tail \in Handles /\ IsStateSlot(ends[k].tail)
    BY <2>2, EndsOnList
  <2>6. ends[k].head[2] = NodeSlots + 1 /\ c = Chain(first)
    BY <1>0, <1>2, <1>a, <2>1 DEF NextAgrees
  <2>7. first # last
    BY <2>4, <2>5, <2>6, StateQueueAssumption DEF Handles, IsStateSlot
  <2>8. c \in R[k] \ {first} /\ R[k] \subseteq Nodes /\ first \in Nodes
    BY <2>4, <2>6, <2>7
  <2>9. e \in Ends /\ e.head = FirstHandle(c) /\ e.tail = ends[k].tail /\ e = ends'[k]
    BY <1>0, <1>2, <2>5, <2>8, HandleOf, StateQueueAssumption DEF Ends, EndsType, QueueInv, QueuesTyped
  <2>10. PICK x : x = [th[t] EXCEPT !.pc = "unhazard", !.then = "reclaim", !.victim = first,
                                    !.after = "dretry", !.old = e, !.node = Null]
    OBVIOUS
  <2>11. /\ x.pc = "unhazard" /\ x.node = Null /\ x.then = "reclaim" /\ x.after = "dretry"
         /\ x.deferred = th[t].deferred /\ x.victim = first
         /\ x \in Locals
    BY ZenonT(120), <1>0, <2>8, <2>9, <2>10 DEF Locals, Labels, Targets
  <2>12. th' = [th EXCEPT ![t] = x]
    BY <1>2, <2>1, <2>10
  <2>13. LocalsAgree(x)
    BY <2>11 DEF LocalsAgree, Goal, EnqueueGoals, DequeueGoals
  <2>14. /\ Guards(x) = {} /\ ~Writing(x) /\ Pending(x) = {} /\ Removed(x) = {}
         /\ Reclaims(x) = {} /\ Deferred(x) = Deferred(th[t])
         /\ Deferred(th[t]) \subseteq Held(th[t])
    BY <2>11 DEF Guards, Writing, Pending, Removed, Reclaims, Deferred, Held, Doomed
  <2>15. /\ Held(th[t]) \subseteq allocated /\ R[k] \subseteq allocated
         /\ R[k] \cap Held(th[t]) = {}
    BY DEF QueueInv, Owned
  <2>16. /\ Protects(x, hazarded[t]) /\ HeldOnce(x)
         /\ Held(x) \subseteq {first} \cup Deferred(th[t])
    BY <1>0, <2>4, <2>11, <2>14, <2>15 DEF Protects, HeldOnce, Held, Doomed
  <2>17. QueuesTyped'
    <3>1. ends' \in [Queues -> Ends]
      BY <1>2, <2>9 DEF QueueInv, QueuesTyped
    <3>2. th' \in [Threads -> Locals]
      BY <2>11, <2>12 DEF QueueInv, QueuesTyped
    <3>. QED
      BY <1>a, <3>1, <3>2 DEF QueueInv, QueuesTyped
  <2>18. PICK S \in [Queues -> SUBSET Nodes] : S = [R EXCEPT ![k] = R[k] \ {first}]
    OBVIOUS
  <2>19. S[k] = R[k] \ {first} /\ \A i \in Queues \ {k} : S[i] = R[i] /\ ends'[i] = ends[i]
    BY <1>2, <2>18 DEF QueueInv, QueuesTyped
  <2>20. \A f : Chain(f)' = Chain(f) /\ Load(f)' = Load(f)
    BY <1>a DEF Chain, Load
  <2>21. \A u \in Threads \ {t} : th'[u] = th[u]
    BY <2>12, OthersSame DEF QueueInv
  <2>22. \A u \in Threads \ {t} :
            Writing(th[u]) => Load(SlotOf(th[u]))' = Load(SlotOf(th[u]))
    BY <1>a, <2>21 DEF Load
  <2>23. /\ S[k] \cup Held(x) \subseteq allocated /\ S[k] \cap Held(x) = {}
         /\ S[k] \cup Held(x) \subseteq R[k] \cup Held(th[t])
    BY <2>4, <2>14, <2>15, <2>16, <2>19
  <2>24. ListMove(R, S, t, x, k)
    BY <1>a, <2>11, <2>12, <2>13, <2>14, <2>16, <2>19, <2>20, <2>22, <2>23 DEF ListMove
  <2>25. List(S[k], e)'
    <3>1. \A m : Settled(m) => Settled(m)'
      BY <1>a, <2>12, <2>14, <2>21, OthersSame DEF Settled, Chain, QueueInv
    <3>2. /\ Base(e.head) = c /\ Base(e.tail) = last /\ e.head[2] = 1
          /\ e.tail[2] \in Nat \ {0}
      BY <2>1, <2>5, <2>8, <2>9, HandleOf, StateQueueAssumption DEF Handles
    <3>3. \A m \in S[k] \ {last} :
             /\ Settled(m)' /\ Chain(m) \in S[k] \ {c}
             /\ \A l \in S[k] \ {last} : Chain(l) = Chain(m) => l = m
      BY <2>4, <2>6, <2>7, <2>19, <3>1
    <3>4. c \in S[k] /\ last \in S[k]
      BY <2>4, <2>7, <2>8, <2>19
    <3>. QED
      BY <2>20, <3>2, <3>3, <3>4 DEF List
  <2>26. QueueInv(S)'
    BY <2>9, <2>17, <2>24, <2>25, ListMoveKeeps
  <2>. QED
    BY <2>26 DEF NodesInv
<1>3. ASSUME ends[k] # th[t].ends,
             th' = [th EXCEPT ![t].pc = "unhazard", ![t].then = "dretry",
                              ![t].old = ends[k], ![t].node = Null],
             UNCHANGED ends
      PROVE  NodesInv'
  <2>1. PICK e \in Ends : e = ends[k]
    BY <1>0
  <2>2. th' = [th EXCEPT ![t] = [@ EXCEPT !.pc = "unhazard", !.then = "dretry",
                                          !.old = e, !.node = Null]]
    BY <1>3, <2>1
  <2>3. QueueInv(R)'
    BY <1>3, <1>a, <2>2, DequeueFails DEF shared
  <2>. QED
    BY <2>3 DEF NodesInv
<1>. QED
  BY <1>1, <1>2, <1>3 DEF DequeueSkip

\* The compare-and-swap at the head: the last state takes its node off the list.
LEMMA DequeueCASKeeps ==
    ASSUME NEW R \in [Queues -> SUBSET Nodes], QueueInv(R), NEW t \in Threads,
           DequeueCAS(t)
    PROVE  NodesInv'
<1>0. /\ LocalsAgree(th[t]) /\ th[t] \in Locals /\ Protects(th[t], hazarded[t])
      /\ HeldOnce(th[t]) /\ NoEnds \in Ends /\ \A i \in Queues : ends[i] \in Ends
  BY LocalsTyped
<1>1. PICK k \in Queues : k = th[t].queue
  BY <1>0 DEF Locals
<1>a. /\ th[t].pc = "dcas" /\ hazarded' = hazarded /\ mem' = mem /\ allocated' = allocated
      /\ count' = count
  BY DEF DequeueCAS, At
<1>2. ASSUME ends[k] = th[t].ends,
             NEW e, e = IF LastOne(ends[k]) THEN NoEnds
                        ELSE [head |-> NextHandle(ends[k].head), tail |-> ends[k].tail],
             ends' = [ends EXCEPT ![k] = e],
             th' = [th EXCEPT ![t].pc = "dload"]
      PROVE  NodesInv'
  <2>1. PICK first, last : first = Base(ends[k].head) /\ last = Base(ends[k].tail)
    OBVIOUS
  <2>2. ends[k].head # Null
    BY <1>0, <1>2, <1>a DEF LocalsAgree, Goal, DequeueGoals
  <2>3. List(R[k], ends[k]) /\ first \in R[k] /\ last \in R[k]
    BY <2>1, <2>2 DEF QueueInv, Linked, List
  <2>4. /\ ends[k].head \in Handles /\ ends[k].tail \in Handles /\ IsStateSlot(ends[k].tail)
        /\ ends[k].tail # Null
    BY <2>2, EndsOnList
  <2>5. ~LastOne(ends[k]) => IsStateSlot(ends[k].head)
    BY <1>0, <1>2, <1>a DEF LocalsAgree
  <2>6. e \in Ends /\ e = ends'[k]
    <3>1. CASE LastOne(ends[k])
      BY <1>0, <1>2, <3>1 DEF QueueInv, QueuesTyped
    <3>2. CASE ~LastOne(ends[k])
      BY <1>2, <2>4, <2>5, <3>2, NextHandleOf DEF Ends, EndsType, QueueInv, QueuesTyped
    <3>. QED
      BY <3>1, <3>2
  <2>7. PICK x : x = [th[t] EXCEPT !.pc = "dload"]
    OBVIOUS
  <2>8. /\ x.pc = "dload" /\ x.ends = ends[k] /\ x.node = Null
        /\ x.deferred = th[t].deferred /\ x.victim = th[t].victim
        /\ x \in Locals
    BY <1>0, <1>2, <1>a, <2>7 DEF Locals, Labels, LocalsAgree
  <2>9. th' = [th EXCEPT ![t] = x]
    BY <1>2, <2>7
  <2>10. LocalsAgree(x)
    BY <2>2, <2>8 DEF LocalsAgree, Goal, EnqueueGoals, DequeueGoals
  <2>11. /\ Guards(x) = Guards(th[t]) /\ ~Writing(x) /\ Pending(x) = {} /\ Reclaims(x) = {}
         /\ Removed(x) = (IF LastOne(ends[k]) THEN {first} ELSE {})
         /\ Deferred(x) = Deferred(th[t]) /\ Pending(th[t]) = {} /\ Removed(th[t]) = {}
    BY <1>2, <1>a, <2>1, <2>8 DEF Guards, Writing, Pending, Removed, Reclaims, Deferred
  <2>12. /\ Held(th[t]) \subseteq allocated /\ R[k] \subseteq allocated
         /\ R[k] \cap Held(th[t]) = {} /\ Held(th[t]) = ({th[t].victim} \ {Null}) \cup Deferred(th[t])
    BY <2>11 DEF QueueInv, Owned, Held, Doomed
  <2>13. /\ Protects(x, hazarded[t]) /\ HeldOnce(x)
         /\ Held(x) = Held(th[t]) \cup Removed(x)
    BY <1>0, <2>3, <2>8, <2>11, <2>12 DEF Protects, HeldOnce, Held, Doomed
  <2>14. QueuesTyped'
    BY <1>2, <1>a, <2>6, <2>8, <2>9 DEF QueueInv, QueuesTyped
  <2>15. PICK S \in [Queues -> SUBSET Nodes] :
            S = [R EXCEPT ![k] = IF LastOne(ends[k]) THEN {} ELSE R[k]]
    OBVIOUS
  <2>16. /\ S[k] = (IF LastOne(ends[k]) THEN {} ELSE R[k])
         /\ \A i \in Queues \ {k} : S[i] = R[i] /\ ends'[i] = ends[i]
    BY <1>2, <2>15 DEF QueueInv, QueuesTyped
  <2>17. \A f : Chain(f)' = Chain(f) /\ Load(f)' = Load(f)
    BY <1>a DEF Chain, Load
  <2>18. \A u \in Threads \ {t} : th'[u] = th[u]
    BY <2>9, OthersSame DEF QueueInv
  <2>19. \A u \in Threads \ {t} :
            Writing(th[u]) => Load(SlotOf(th[u]))' = Load(SlotOf(th[u]))
    BY <1>a, <2>18 DEF Load
  <2>20. /\ S[k] \cup Held(x) \subseteq allocated /\ S[k] \cap Held(x) = {}
         /\ S[k] \cup Held(x) \subseteq R[k] \cup Held(th[t])
    BY <2>3, <2>11, <2>12, <2>13, <2>16
  <2>21. ListMove(R, S, t, x, k)
    BY <1>a, <2>8, <2>9, <2>10, <2>11, <2>13, <2>16, <2>17, <2>19, <2>20 DEF ListMove
  <2>22. e.head = Null \/ List(S[k], e)'
    <3>1. CASE LastOne(ends[k])
      BY <1>2, <3>1 DEF NoEnds
    <3>2. CASE ~LastOne(ends[k])
      <4>1. \A m : Settled(m) => Settled(m)'
        BY <1>a, <2>9, <2>11, <2>18, OthersSame DEF Settled, Chain, QueueInv
      <4>2. /\ e.head = NextHandle(ends[k].head) /\ e.tail = ends[k].tail
            /\ Base(e.head) = first /\ Base(e.tail) = last
            /\ e.head[2] = ends[k].head[2] + 1
        BY <1>2, <2>1, <2>4, <2>5, <3>2, NextHandleOf
      <4>3. first = last => e.head[2] <= e.tail[2]
        <5>1. first = last => ends[k].head[2] <= ends[k].tail[2]
          BY <2>1, <2>3 DEF List
        <5>2. first = last => ends[k].head[2] # ends[k].tail[2]
          <6>1. \A g, h \in Handles : Base(g) = Base(h) /\ g[2] = h[2] => g = h
            BY DEF Handles, Base
          <6>. QED
            BY <2>1, <2>4, <3>2, <6>1 DEF LastOne
        <5>. QED
          BY <2>4, <4>2, <5>1, <5>2, StateQueueAssumption DEF Handles
      <4>4. \A m \in R[k] \ {last} :
               /\ Settled(m) /\ Chain(m) \in R[k] \ {first}
               /\ \A l \in R[k] \ {last} : Chain(l) = Chain(m) => l = m
        BY <2>1, <2>3 DEF List
      <4>. QED
        BY <2>3, <2>16, <2>17, <3>2, <4>1, <4>2, <4>3, <4>4 DEF List
    <3>. QED
      BY <3>1, <3>2
  <2>23. QueueInv(S)'
    BY <2>6, <2>14, <2>21, <2>22, ListMoveKeeps
  <2>. QED
    BY <2>23 DEF NodesInv
<1>3. ASSUME ends[k] # th[t].ends,
             th' = [th EXCEPT ![t].pc = "unhazard", ![t].then = "dretry", ![t].old = ends[k]],
             UNCHANGED ends
      PROVE  NodesInv'
  <2>1. PICK e \in Ends : e = ends[k]
    BY <1>0
  <2>2. PICK l \in Locals : l = th[t] /\ l.node = Null
    BY <1>0, <1>a DEF LocalsAgree
  <2>3. [l EXCEPT !.pc = "unhazard", !.then = "dretry", !.old = e]
          = [l EXCEPT !.pc = "unhazard", !.then = "dretry", !.old = e, !.node = Null]
    BY <2>2 DEF Locals
  <2>4. th' = [th EXCEPT ![t] = [@ EXCEPT !.pc = "unhazard", !.then = "dretry",
                                          !.old = e, !.node = Null]]
    BY <1>3, <2>1, <2>2, <2>3
  <2>5. QueueInv(R)'
    BY <1>3, <1>a, <2>4, DequeueFails DEF shared
  <2>. QED
    BY <2>5 DEF NodesInv
<1>. QED
  BY <1>1, <1>2, <1>3 DEF DequeueCAS

-----------------------------------------------------------------------------
(***************************************************************************)
(* The invariant holds for ever.                                           *)
(***************************************************************************)

\* A thread outside both calls writes, protects and holds nothing.
LEMMA StartHoldsNothing ==
    ASSUME NEW t \in Threads
    PROVE  /\ Held(StartLocals(t)) = {} /\ Guards(StartLocals(t)) = {}
           /\ Pending(StartLocals(t)) = {} /\ ~Writing(StartLocals(t))
           /\ Reclaims(StartLocals(t)) = {} /\ NextAgrees(StartLocals(t))
           /\ LocalsAgree(StartLocals(t)) /\ HeldOnce(StartLocals(t))
           /\ Protects(StartLocals(t), Null)
<1>1. PICK l : l = StartLocals(t)
  OBVIOUS
<1>2. /\ l.pc = "idle" /\ l.node = Null /\ l.victim = Null
      /\ \A i \in 1..THREADS-1 : l.deferred[i] = Null
  BY <1>1 DEF StartLocals
<1>3. /\ Guards(l) = {} /\ Pending(l) = {} /\ ~Writing(l) /\ Reclaims(l) = {}
      /\ NextAgrees(l) /\ Deferred(l) = {} /\ Removed(l) = {}
  BY <1>2 DEF Guards, Pending, Writing, Reclaims, NextAgrees, Deferred, Removed
<1>4. Held(l) = {} /\ HeldOnce(l) /\ Protects(l, Null)
  BY <1>2, <1>3 DEF Held, Doomed, HeldOnce, Protects
<1>5. LocalsAgree(l)
  BY <1>2 DEF LocalsAgree, Goal, EnqueueGoals, DequeueGoals
<1>. QED
  BY <1>1, <1>3, <1>4, <1>5

\* What init() leaves: every queue has one node, or none.
LEMMA InitEstablishes == Init => NodesInv
<1>. SUFFICES ASSUME Init PROVE NodesInv
  OBVIOUS
<1>1. PICK Used : Used = {k \in Queues : InitialState[k] # Null}
  OBVIOUS
<1>2. PICK addr \in [Queues -> Nodes] :
         /\ \A k, l \in Queues : k # l => addr[k] # addr[l]
         /\ allocated = {addr[k] : k \in Used}
         /\ mem = [n \in Nodes |->
                     IF n \in allocated
                       THEN NewNode(InitialState[CHOOSE k \in Used : addr[k] = n])
                       ELSE EmptyNode]
         /\ ends = [k \in Queues |->
                      IF k \in Used
                        THEN [head |-> FirstHandle(addr[k]), tail |-> FirstHandle(addr[k])]
                        ELSE NoEnds]
         /\ hazarded = [t \in Threads |-> Null]
         /\ th = [t \in Threads |-> StartLocals(t)]
  BY <1>1 DEF Init
<1>3. PICK R \in [Queues -> SUBSET Nodes] :
         R = [k \in Queues |-> IF k \in Used THEN {addr[k]} ELSE {}]
  <2>1. [k \in Queues |-> IF k \in Used THEN {addr[k]} ELSE {}] \in [Queues -> SUBSET Nodes]
    OBVIOUS
  <2>. QED
    BY <2>1
<1>4. Used \subseteq Queues
  BY <1>1
<1>5. \A t \in Threads : th[t] = StartLocals(t) /\ hazarded[t] = Null
  BY <1>2
<1>6. QueuesTyped
  <2>1. mem \in [Nodes -> [1..NodeSlots+1 -> Cells]]
    <3>1. EmptyNode \in [1..NodeSlots+1 -> Cells]
      BY DEF EmptyNode, Cells
    <3>2. ASSUME NEW n \in allocated
          PROVE  NewNode(InitialState[CHOOSE k \in Used : addr[k] = n])
                   \in [1..NodeSlots+1 -> Cells]
      <4>1. PICK q : q = CHOOSE k \in Used : addr[k] = n
        OBVIOUS
      <4>2. q \in Used
        BY <1>2, <4>1
      <4>3. InitialState[q] \in States
        BY <1>1, <4>2, StateQueueAssumption
      <4>. QED
        BY <4>1, <4>3, NewNodeTyped
    <3>. QED
      BY <1>2, <3>1, <3>2
  <2>2. ends \in [Queues -> Ends]
    <3>1. NoEnds \in Ends
      BY DEF NoEnds, Ends, EndsType
    <3>2. ASSUME NEW n \in Nodes
          PROVE  [head |-> FirstHandle(n), tail |-> FirstHandle(n)] \in Ends
      BY HandleOf DEF Ends, EndsType
    <3>. QED
      BY <1>2, <3>1, <3>2
  <2>3. th \in [Threads -> Locals]
    BY <1>2, StartLocalsTyped
  <2>4. allocated \subseteq Nodes
    BY <1>2, <1>4
  <2>. QED
    BY <1>2, <2>1, <2>2, <2>3, <2>4 DEF QueuesTyped
<1>7. \A t \in Threads : /\ Held(th[t]) = {} /\ Guards(th[t]) = {} /\ Pending(th[t]) = {}
                         /\ ~Writing(th[t]) /\ Reclaims(th[t]) = {} /\ NextAgrees(th[t])
                         /\ LocalsAgree(th[t]) /\ HeldOnce(th[t])
                         /\ Protects(th[t], hazarded[t])
  BY <1>5, StartHoldsNothing
<1>8. ThreadsAgree /\ SlotsWritten /\ SlotsApart /\ NextLoaded /\ PendingUnseen /\ Scanned
  BY <1>7 DEF ThreadsAgree, SlotsWritten, SlotsApart, NextLoaded, PendingUnseen, Scanned
<1>9. Linked(R)
  <2>. SUFFICES ASSUME NEW k \in Queues, ends[k].head # Null PROVE List(R[k], ends[k])
    BY DEF Linked
  <2>1. k \in Used
    BY <1>2 DEF NoEnds
  <2>2. /\ R[k] = {addr[k]}
        /\ ends[k] = [head |-> FirstHandle(addr[k]), tail |-> FirstHandle(addr[k])]
    BY <1>2, <1>3, <2>1
  <2>. QED
    BY <2>2, HandleOf DEF List
<1>10. Owned(R)
  <2>1. \A k, l \in Queues : k # l => R[k] \cap R[l] = {}
    BY <1>2, <1>3
  <2>2. \A k \in Queues : R[k] \subseteq allocated
    BY <1>2, <1>3
  <2>. QED
    BY <1>7, <2>1, <2>2 DEF Owned
<1>11. QueueInv(R)
  BY <1>6, <1>8, <1>9, <1>10 DEF QueueInv
<1>. QED
  BY <1>11 DEF NodesInv

\* Every step keeps the nodes accounted for.
LEMMA NextPreserves == NodesInv /\ [Next]_vars => NodesInv'
<1>. SUFFICES ASSUME NEW R \in [Queues -> SUBSET Nodes], QueueInv(R), [Next]_vars
              PROVE  NodesInv'
  BY DEF NodesInv
<1>1. ASSUME NEW t \in Threads, CallStep(t) PROVE NodesInv'
  <2>1. QueueInv(R)' => NodesInv'
    BY DEF NodesInv
  <2>2. CASE EnqueueRead(t)
    BY <2>1, <2>2, EnqueueKeeps
  <2>3. CASE EnqueueFirst(t)
    BY <2>3, EnqueueFirstKeeps
  <2>4. CASE EnqueueHazard(t)
    BY <2>1, <2>4, EnqueueHazardKeeps
  <2>5. CASE EnqueueCheck(t)
    BY <2>1, <2>5, EnqueueCheckKeeps
  <2>6. CASE EnqueueWrite(t)
    BY <2>1, <2>6, EnqueueWriteKeeps
  <2>7. CASE EnqueueCAS(t)
    BY <2>7, EnqueueCASKeeps
  <2>8. CASE EnqueueUndo(t)
    BY <2>1, <2>8, EnqueueUndoKeeps
  <2>9. CASE EnqueueCount(t)
    BY <2>1, <2>9, EnqueueCountKeeps
  <2>10. CASE DequeueRead(t)
    BY <2>1, <2>10, DequeueKeeps
  <2>11. CASE DequeueHazard(t)
    BY <2>1, <2>11, DequeueHazardKeeps
  <2>12. CASE DequeueCheck(t)
    BY <2>1, <2>12, DequeueCheckKeeps
  <2>13. CASE DequeueNext(t)
    BY <2>1, <2>13, DequeueNextKeeps
  <2>14. CASE DequeueSkip(t)
    BY <2>14, DequeueSkipKeeps
  <2>15. CASE DequeueCAS(t)
    BY <2>15, DequeueCASKeeps
  <2>16. CASE DequeueLoad(t)
    BY <2>1, <2>16, DequeueLoadKeeps
  <2>17. CASE DequeueCount(t)
    BY <2>1, <2>17, DequeueCountKeeps
  <2>18. CASE Unhazard(t)
    BY <2>1, <2>18, UnhazardKeeps
  <2>19. CASE ReclaimDeferred(t)
    BY <2>1, <2>19, ReclaimDeferredKeeps
  <2>20. CASE ReclaimNode(t)
    BY <2>1, <2>20, ReclaimNodeKeeps
  <2>21. CASE ReclaimDefer(t)
    BY <2>1, <2>21, ReclaimDeferKeeps
  <2>. QED
    BY <1>1, <2>2, <2>3, <2>4, <2>5, <2>6, <2>7, <2>8, <2>9, <2>10, <2>11, <2>12, <2>13,
       <2>14, <2>15, <2>16, <2>17, <2>18, <2>19, <2>20, <2>21 DEF CallStep
<1>2. ASSUME NEW t \in Threads, Caller(t) PROVE NodesInv'
  <2>1. QueueInv(R)'
    BY <1>2, EnqueueKeeps, DequeueKeeps DEF Caller
  <2>. QED
    BY <2>1 DEF NodesInv
<1>3. CASE UNCHANGED vars
  <2>1. QueueInv(R)'
    BY <1>3 DEF vars, QueueInv, QueuesTyped, ThreadsAgree, SlotsWritten, SlotsApart,
                NextLoaded, NextAgrees, Settled, Chain, Linked, List, Owned,
                PendingUnseen, Scanned, Load
  <2>. QED
    BY <2>1 DEF NodesInv
<1>4. Finished => UNCHANGED vars
  BY DEF Finished
<1>. QED
  BY <1>1, <1>2, <1>3, <1>4 DEF Next, Step

\* The nodes are accounted for in every state of every behaviour.
LEMMA NodesInvAlways == Spec => []NodesInv
BY InitEstablishes, NextPreserves, PTL DEF Spec

\* queue_enqueue, queue_dequeue, hazard and reclaim: whatever the number of
\* threads, the size of the nodes and the order of their steps, no thread reads or
\* writes a node that another has freed, the ends of a queue are never in one, and
\* a node is freed by one thread, once.
THEOREM StateQueueNodesSafe == Spec => []NodesSafe
BY NodesInvAlways, InvImpliesNodesSafe, PTL

\* queue_enqueue's "undo of queue tail write raced with another store": the assertion
\* holds for every number of threads and queues.
THEOREM StateQueueUndoesOwnWrite == Spec => []UndoesOwnWrite
BY NodesInvAlways, InvImpliesUndoesOwnWrite, PTL

-----------------------------------------------------------------------------
(***************************************************************************)
(* The order of the states in a queue.                                     *)
(***************************************************************************)

Seats == Nodes \X (1..NodeSlots)

\* w are the seats of the states of a queue with ends e in memory m.
Walk(m, e, w) ==
    /\ w \in Seq(Seats)
    /\ e.head = Null => w = <<>>
    /\ e.head # Null =>
         /\ w # <<>> /\ w[1] = Normal(m, e.head) /\ w[Len(w)] = e.tail
         /\ \A i \in 1..Len(w)-1 : w[i+1] = Normal(m, NextHandle(w[i]))
    /\ \A i, j \in 1..Len(w) : i < j /\ Base(w[i]) = Base(w[j]) => w[i][2] < w[j][2]

\* A state that nobody may take back.
Firm(h) ==
    /\ Load(h) \in States
    /\ \A t \in Threads : Writing(th[t]) => SlotOf(th[t]) # h

Walks(w) ==
    \A k \in Queues : /\ Walk(mem, ends[k], w[k])
                      /\ \A i \in 1..Len(w[k]) : Firm(w[k][i])

\* So is the one that a dequeuer has removed and is about to load.
Loading == \A t \in Threads : At(t, "dload") => Firm(th[t].ends.head)

\* A node that is not added yet holds its enqueuer's state.
Filled ==
    \A t \in Threads : Writing(th[t]) /\ th[t].node # Null =>
        mem[th[t].node][1] = th[t].s

\* The nodes of a queue.
Span(k, w) ==
    IF ends[k].head = Null THEN {}
    ELSE {Base(ends[k].head)} \cup {Base(w[k][i]) : i \in 1..Len(w[k])}

\* Every node in use is on a queue, or somebody's to add or to free.
NoLeak(w) ==
    \A n \in allocated : \/ \E t \in Threads : n \in Held(th[t])
                         \/ \E k \in Queues : n \in Span(k, w)

Order(w) == Walks(w) /\ Loading /\ Filled /\ NoLeak(w)
OrderInv == \E w \in [Queues -> Seq(Seats)] : Order(w)

-----------------------------------------------------------------------------
(***************************************************************************)
(* Where each state is.                                                    *)
(***************************************************************************)

\* The state that thread t is about to add, and the one it has removed.
Offers(l) == Goal(l) \in {"eread", "efirst"} \cup EnqueueGoals
Taken(t) == IF At(t, "dload") THEN Load(th[t].ends.head) ELSE th[t].got

Places == ({"fresh", "explored"} \X {0})
          \cup ({"offered", "taken"} \X Threads) \cup ({"queue"} \X Queues)

\* The states at place p.
StatesAt(p) ==
    CASE p[1] = "fresh"    -> fresh
      [] p[1] = "explored" -> explored
      [] p[1] = "offered"  -> IF Offers(th[p[2]]) THEN {th[p[2]].s} ELSE {}
      [] p[1] = "taken"    -> {Taken(p[2])} \ {Null}
      [] p[1] = "queue"    -> {Contents(p[2])[i] : i \in 1..Len(Contents(p[2]))}

Partition(P) ==
    /\ \A p \in Places : P[p] \subseteq States
    /\ \A p, q \in Places : p # q => P[p] \cap P[q] = {}
    /\ \A s \in States : \E p \in Places : s \in P[p]
Placed == Partition([p \in Places |-> StatesAt(p)])

InjectiveQueues ==
    \A k \in Queues : \A i, j \in 1..Len(Contents(k)) :
        Contents(k)[i] = Contents(k)[j] => i = j

-----------------------------------------------------------------------------
(***************************************************************************)
(* What the local variables say of a call's progress.                      *)
(***************************************************************************)

Enqueuing(l) ==
    Goal(l) \in {"idle", "eread", "efirst", "ecount"} \cup EnqueueGoals
Reclaiming(l) == l.pc \in {"rold", "rnew", "rdefer"} \/ Goal(l) = "reclaim"
Counting(l) == Goal(l) = "dcount" \/ (Reclaiming(l) /\ l.after = "dcount")
Retrying(l) == Goal(l) = "dretry" \/ (Reclaiming(l) /\ l.after = "dretry")

CallAgrees(l) ==
    /\ l.pc # "unhazard" => l.then = "idle"
    /\ l.got # Null <=> Counting(l)
    /\ l.victim # Null => Reclaiming(l)
    /\ l.attempts \in 0..THREADS
    /\ Enqueuing(l) => l.attempts = 0
    /\ l.pc = "done" => l.attempts = THREADS
    /\ l.attempts = THREADS => l.pc = "done"

\* The queues that the thread has found empty in this call: those before its
\* queue, one for every attempt, and the queue itself when the ends that it
\* returns to "retry:" with say so.
Before(k, q) == IF k < q THEN q - k ELSE q + THREADS - k
Visited(l) ==
    {k \in Queues : Before(k, l.queue) <= l.attempts}
        \cup (IF Retrying(l) /\ l.old.head = Null THEN {l.queue} ELSE {})

\* A queue with a state in it is still ahead of some thread.
StillAhead ==
    \A k \in Queues : ends[k].head # Null => \E t \in Threads : k \notin Visited(th[t])

BooksInv ==
    /\ \A t \in Threads : CallAgrees(th[t])
    /\ Placed /\ InjectiveQueues /\ StillAhead
    /\ count \in [Queues -> Int] /\ CountsAgree

-----------------------------------------------------------------------------
(***************************************************************************)
(* The states that Contents finds from head to tail.                       *)
(***************************************************************************)

\* Naturals with a property have a least one; induction up to n for a set of
\* naturals.
LEMMA LeastNat ==
    ASSUME NEW S \in SUBSET Nat, S # {}
    PROVE  \E m \in S : \A k \in S : m <= k
<1>1. IsWellFoundedOn(OpToRel(<, Nat), Nat)
  BY NatLessThanWellFounded
<1>2. PICK m \in S : \A k \in S : ~(<<k, m>> \in OpToRel(<, Nat))
  BY <1>1, WFMin
<1>3. S \subseteq Nat /\ m \in Nat
  OBVIOUS
<1>4. \A k \in S : ~(k < m)
  BY <1>2, <1>3, Zenon DEF OpToRel
<1>. QED
  BY <1>3, <1>4

\* What holds of 0 and passes from each number below n to the next holds up to n.
LEMMA CountUp ==
    ASSUME NEW n \in Nat, NEW T, 0 \in T, \A k \in 0..n-1 : k \in T => k + 1 \in T
    PROVE  \A k \in 0..n : k \in T
<1>. DEFINE S == {k \in 0..n : k \notin T}
<1>. SUFFICES ASSUME S # {} PROVE FALSE
  OBVIOUS
<1>1. S \subseteq Nat
  OBVIOUS
<1>2. PICK m \in S : \A k \in S : m <= k
  <2>. HIDE DEF S
  <2>. QED
    BY <1>1, LeastNat
<1>3. m # 0 /\ m - 1 \in 0..n-1 /\ m - 1 \notin S
  BY <1>2
<1>. QED
  BY <1>2, <1>3

\* The seats of a queue are different and fit into memory.
LEMMA WalkFits ==
    ASSUME NEW m, NEW e, NEW w, Walk(m, e, w)
    PROVE  /\ \A i, j \in 1..Len(w) : w[i] = w[j] => i = j
           /\ Len(w) <= PathLimit /\ PathLimit \in Nat
<1>1. w \in Seq(Seats) /\ Len(w) \in Nat /\ w \in [1..Len(w) -> Seats]
  BY DEF Walk
<1>2. \A i, j \in 1..Len(w) : w[i] = w[j] => i = j
  <2>. SUFFICES ASSUME NEW i \in 1..Len(w), NEW j \in 1..Len(w), w[i] = w[j], i < j
                PROVE  FALSE
    BY <1>1
  <2>1. w[i][2] < w[j][2] /\ w[i][2] \in Nat
    BY <1>1 DEF Walk, Seats
  <2>. QED
    BY <2>1
<1>3. IsFiniteSet(Seats) /\ Cardinality(Seats) = PathLimit
  <2>1. IsFiniteSet(1..NodeSlots) /\ Cardinality(1..NodeSlots) = NodeSlots
    BY FS_Interval, StateQueueAssumption
  <2>. QED
    BY <2>1, FS_Product, StateQueueAssumption DEF Seats, PathLimit
<1>4. w \in Injection(1..Len(w), Seats)
  BY <1>1, <1>2 DEF Injection, IsInjective
<1>5. Cardinality(1..Len(w)) <= Cardinality(Seats)
  BY <1>3, <1>4, FS_Injection
<1>6. Cardinality(1..Len(w)) = Len(w)
  BY SMTT(30), <1>1, FS_Interval
<1>. QED
  BY <1>1, <1>2, <1>3, <1>5, <1>6, FS_CardinalityType

\* The path is a function with the values its definition gives.
LEMMA PathIs ==
    ASSUME NEW m, NEW e, NEW w, Walk(m, e, w), e.head # Null
    PROVE  \A i \in 0..Len(w)-1 : Path(m, e)[i] = w[i+1]
<1>1. /\ w \in Seq(Seats) /\ Len(w) \in Nat \ {0} /\ PathLimit \in Nat /\ Len(w) <= PathLimit
      /\ w[1] = Normal(m, e.head) /\ w[Len(w)] = e.tail
      /\ \A i \in 1..Len(w)-1 : w[i+1] = Normal(m, NextHandle(w[i])) /\ w[i] # e.tail
  <2>1. w \in Seq(Seats) /\ Len(w) \in Nat \ {0}
    BY DEF Walk
  <2>2. \A i \in 1..Len(w)-1 : w[i] # w[Len(w)]
    BY <2>1, WalkFits
  <2>. QED
    BY <2>1, <2>2, WalkFits DEF Walk
<1>. DEFINE F(p) == [n \in 0..PathLimit |->
                       IF n = 0 THEN Normal(m, e.head)
                       ELSE IF p[n-1] = e.tail THEN p[n-1]
                       ELSE Normal(m, NextHandle(p[n-1]))]
<1>2. Path(m, e) = CHOOSE p : p = F(p)
  BY DEF Path
<1>3. \E p : p = F(p)
  <2>. DEFINE p == [n \in 0..PathLimit |-> IF n < Len(w) THEN w[n+1] ELSE e.tail]
  <2>1. \A n \in 0..PathLimit : p[n] = F(p)[n]
    <3>. SUFFICES ASSUME NEW n \in 0..PathLimit PROVE p[n] = F(p)[n]
      OBVIOUS
    <3>1. CASE n = 0
      BY <1>1, <3>1
    <3>2. CASE n # 0 /\ n < Len(w)
      <4>1. p[n-1] = w[n] /\ n \in 1..Len(w)-1
        BY <1>1, <3>2
      <4>. QED
        BY <1>1, <3>2, <4>1
    <3>3. CASE n # 0 /\ n >= Len(w)
      <4>1. p[n-1] = e.tail
        <5>1. CASE n = Len(w)
          BY <1>1, <3>3, <5>1
        <5>2. CASE n > Len(w)
          BY <1>1, <3>3, <5>2
        <5>. QED
          BY <1>1, <3>3, <5>1, <5>2
      <4>. QED
        BY <1>1, <3>3, <4>1
    <3>. QED
      BY <1>1, <3>1, <3>2, <3>3
  <2>2. p = F(p)
    BY <2>1
  <2>. QED
    BY <2>2
<1>4. PICK p : p = Path(m, e) /\ p = F(p)
  <2>. HIDE DEF F
  <2>. QED
    BY <1>2, <1>3
<1>5. p[0] = w[1]
  BY <1>1, <1>4
<1>. DEFINE T == {i \in 0..Len(w)-1 : p[i] = w[i+1]}
<1>6. 0 \in T
  BY <1>1, <1>5
<1>7. ASSUME NEW i \in 0..(Len(w)-1)-1, i \in T PROVE i + 1 \in T
  <2>1. i + 1 \in 0..PathLimit /\ i + 1 # 0 /\ (i + 1) - 1 = i /\ i + 1 \in 1..Len(w)-1
    BY <1>1
  <2>2. p[i] = w[i+1] /\ w[i+1] # e.tail
    BY <1>1, <1>7, <2>1
  <2>3. p[i+1] = Normal(m, NextHandle(w[i+1]))
    BY ZenonT(40), <1>4, <2>1, <2>2
  <2>. QED
    BY <1>1, <2>1, <2>3
<1>8. \A i \in 0..Len(w)-1 : i \in T
  <2>1. Len(w) - 1 \in Nat
    BY <1>1
  <2>. HIDE DEF T
  <2>. QED
    BY <1>6, <1>7, <2>1, CountUp
<1>. QED
  BY <1>4, <1>8

\* Stepping from head to tail, as Contents does, one meets the seats of a walk.
LEMMA StatesOfWalk ==
    ASSUME NEW m, NEW e, NEW w, Walk(m, e, w)
    PROVE  StatesOf(m, e) = [i \in 1..Len(w) |-> Cell(m, w[i])]
<1>1. CASE e.head = Null
  BY <1>1 DEF Walk, StatesOf
<1>2. CASE e.head # Null
  <2>1. /\ w \in Seq(Seats) /\ Len(w) \in Nat \ {0} /\ PathLimit \in Nat /\ Len(w) <= PathLimit
        /\ w[Len(w)] = e.tail
        /\ \A i \in 1..Len(w)-1 : w[i] # e.tail
    <3>1. w \in Seq(Seats) /\ Len(w) \in Nat \ {0}
      BY <1>2 DEF Walk
    <3>2. \A i \in 1..Len(w)-1 : w[i] # w[Len(w)]
      BY <3>1, WalkFits
    <3>. QED
      BY <1>2, <3>1, <3>2, WalkFits DEF Walk
  <2>2. PICK p : p = Path(m, e) /\ \A i \in 0..Len(w)-1 : p[i] = w[i+1]
    BY <1>2, PathIs
  <2>. DEFINE Last(n) == p[n] = e.tail /\ \A i \in 0..n-1 : p[i] # e.tail
  <2>3. Len(w) - 1 \in 0..PathLimit /\ Last(Len(w) - 1)
    <3>1. p[Len(w) - 1] = e.tail
      BY <2>1, <2>2
    <3>2. ASSUME NEW i \in 0..(Len(w)-1)-1 PROVE p[i] # e.tail
      <4>1. i \in 0..Len(w)-1 /\ i + 1 \in 1..Len(w)-1
        BY <2>1
      <4>. QED
        BY <2>1, <2>2, <4>1
    <3>. QED
      BY <2>1, <3>1, <3>2
  <2>4. \A n \in 0..PathLimit : Last(n) => n = Len(w) - 1
    <3>. SUFFICES ASSUME NEW n \in 0..PathLimit, Last(n) PROVE n = Len(w) - 1
      OBVIOUS
    <3>1. ~(n < Len(w) - 1)
      BY <2>1, <2>3
    <3>2. ~(n > Len(w) - 1)
      BY <2>1, <2>3
    <3>. QED
      BY <2>1, <3>1, <3>2
  <2>5. PICK last : last = CHOOSE n \in 0..PathLimit : Last(n)
    OBVIOUS
  <2>6. last = Len(w) - 1
    <3>. HIDE DEF Last
    <3>. QED
      BY <2>3, <2>4, <2>5
  <2>7. StatesOf(m, e) = [n \in 1..last+1 |-> Cell(m, p[n-1])]
    BY <1>2, <2>2, <2>5 DEF StatesOf
  <2>8. \A n \in 1..Len(w) : p[n-1] = w[n]
    BY <2>1, <2>2
  <2>9. last + 1 = Len(w)
    BY <2>1, <2>6
  <2>. QED
    BY <2>7, <2>8, <2>9
<1>. QED
  BY <1>1, <1>2

\* What a step of thread t leaves in memory: states and pointers that nobody may take
\* back, and the nodes that the others have filled.
MemoryKept(t) ==
    /\ \A h \in Handles : Base(h) \in allocated /\ Firm(h) => Firm(h)' /\ Load(h)' = Load(h)
    /\ \A n \in allocated : Settled(n) => Chain(n)' = Chain(n)
    /\ \A u \in Threads \ {t} :
          Writing(th[u]) /\ th[u].node # Null => mem'[th[u].node][1] = mem[th[u].node][1]

\* A step that writes nothing and takes no new slot keeps what others rely on.
LEMMA MemorySame ==
    ASSUME NEW R, QueueInv(R), NEW t \in Threads, NEW x, th' = [th EXCEPT ![t] = x],
           mem' = mem,
           Writing(x) => Writing(th[t]) /\ SlotOf(x) = SlotOf(th[t])
    PROVE  MemoryKept(t)
<1>1. th'[t] = x /\ \A u \in Threads \ {t} : th'[u] = th[u]
  BY OthersSame DEF QueueInv
<1>2. \A h : Firm(h) => Firm(h)' /\ Load(h)' = Load(h)
  BY <1>1 DEF Firm, Load
<1>. QED
  BY <1>2 DEF MemoryKept, Chain

\* The node that a writer has chained is in use, and nobody else works on it.
LEMMA PendingNode ==
    ASSUME NEW R, QueueInv(R), NEW u \in Threads, Writing(th[u]), th[u].node # Null
    PROVE  /\ th[u].node \in Nodes /\ th[u].node \in allocated
           /\ th[u].node \in Held(th[u])
           /\ FirstHandle(th[u].node) \in Handles
           /\ \A t \in Threads : th[u].node \notin Guards(th[t])
<1>1. th[u].node \in Nodes
  BY LocalsTyped DEF Locals
<1>2. th[u].node \in Pending(th[u])
  BY DEF Pending, Writing
<1>3. th[u].node \in Held(th[u]) /\ th[u].node \in allocated
  BY <1>2 DEF Held, QueueInv, Owned
<1>. QED
  BY <1>1, <1>2, <1>3, HandleOf DEF QueueInv, PendingUnseen

\* So does a write behind the tail,
LEMMA MemoryWritten ==
    ASSUME NEW R, QueueInv(R), NEW t \in Threads,
           NEW h \in Handles, NEW n \in Nodes \cup {Null}, NEW x, WriteMove(t, h, n, x)
    PROVE  MemoryKept(t)
<1>1. /\ th'[t] = x /\ \A u \in Threads \ {t} : th'[u] = th[u]
      /\ th' = [th EXCEPT ![t] = x]
      /\ Load(h) = Null /\ SlotOf(x) = h /\ h = SlotOf(th[t]) /\ th[t].pc = "ewrite"
      /\ \A g \in Handles \ {h} : g[1] \in allocated => mem'[g[1]][g[2]] = mem[g[1]][g[2]]
  BY OthersSame DEF WriteMove, QueueInv, SlotOf
<1>2. ASSUME NEW g \in Handles, Base(g) \in allocated, Firm(g)
      PROVE  Firm(g)' /\ Load(g)' = Load(g)
  <2>1. g # h
    BY <1>1, <1>2, StateQueueAssumption DEF Firm
  <2>2. Load(g)' = Load(g)
    BY <1>1, <1>2, <2>1 DEF Load, Base
  <2>. QED
    BY <1>1, <1>2, <2>1, <2>2 DEF Firm
<1>3. ASSUME NEW m \in allocated, Settled(m) PROVE Chain(m)' = Chain(m)
  <2>1. PICK f \in Handles : f = <<m, NodeSlots + 1>>
    BY HandleOf DEF Handles, QueueInv, QueuesTyped
  <2>2. Load(f) = Chain(m) /\ Chain(m) # Null
    BY <1>3, <2>1, StateQueueAssumption DEF Load, Chain, Settled
  <2>3. mem'[f[1]][f[2]] = mem[f[1]][f[2]]
    BY <1>1, <2>1, <2>2
  <2>. QED
    BY <2>1, <2>3 DEF Chain
<1>4. ASSUME NEW u \in Threads \ {t}, Writing(th[u]), th[u].node # Null
      PROVE  mem'[th[u].node][1] = mem[th[u].node][1]
  <2>1. PICK f \in Handles : f = FirstHandle(th[u].node) /\ f[1] = th[u].node /\ f[2] = 1
    BY <1>4, PendingNode DEF FirstHandle
  <2>2. f[1] \in allocated /\ f[1] \notin Guards(th[t])
    BY <1>4, <2>1, PendingNode
  <2>3. h[1] \in Guards(th[t])
    BY <1>1, WriterSlot DEF Guards
  <2>. QED
    BY <1>1, <2>1, <2>2, <2>3
<1>. QED
  BY <1>2, <1>3, <1>4 DEF MemoryKept

\* and one that undoes it.
LEMMA MemoryUndone ==
    ASSUME NEW R, QueueInv(R), NEW t \in Threads, EnqueueUndo(t)
    PROVE  MemoryKept(t)
<1>1. /\ th[t].pc = "eundo" /\ Writing(th[t])
      /\ \A u \in Threads \ {t} : th'[u] = th[u]
      /\ th'[t].pc = "unhazard"
  BY DEF EnqueueUndo, At, Writing, QueueInv, QueuesTyped, Locals
<1>2. PICK h \in Handles : h = SlotOf(th[t])
  BY <1>1, WriterSlot
<1>3. mem' = Store(h, Null)
  BY <1>2 DEF EnqueueUndo, Undone, SlotOf
<1>4. \A g \in Handles : g # h => mem'[g[1]][g[2]] = mem[g[1]][g[2]]
  BY <1>3, StoreChanges DEF QueueInv, Cells
<1>5. ASSUME NEW g \in Handles, Firm(g) PROVE Firm(g)' /\ Load(g)' = Load(g)
  <2>1. g # h
    BY <1>1, <1>2, <1>5 DEF Firm
  <2>2. Load(g)' = Load(g)
    BY <1>4, <2>1 DEF Load
  <2>3. ~Writing(th'[t])
    BY <1>1 DEF Writing
  <2>. QED
    BY <1>1, <1>5, <2>2, <2>3 DEF Firm
<1>6. ASSUME NEW m \in allocated, Settled(m) PROVE Chain(m)' = Chain(m)
  <2>1. m \in Nodes
    BY DEF QueueInv, QueuesTyped
  <2>2. PICK f \in Handles : f = <<m, NodeSlots + 1>> /\ f # h
    BY <1>1, <1>2, <1>6, <2>1, SettledApart
  <2>3. mem'[f[1]][f[2]] = mem[f[1]][f[2]]
    BY <1>4, <2>2
  <2>. QED
    BY <2>2, <2>3 DEF Chain
<1>7. ASSUME NEW u \in Threads \ {t}, Writing(th[u]), th[u].node # Null
      PROVE  mem'[th[u].node][1] = mem[th[u].node][1]
  <2>1. PICK f \in Handles : f = FirstHandle(th[u].node) /\ f[1] = th[u].node /\ f[2] = 1
    BY <1>7, PendingNode DEF FirstHandle
  <2>2. f[1] \notin Guards(th[t])
    BY <1>7, <2>1, PendingNode
  <2>3. h[1] \in Guards(th[t])
    BY <1>1, <1>2, WriterSlot DEF Guards
  <2>4. f # h
    BY <2>2, <2>3
  <2>. QED
    BY <1>4, <2>1, <2>4
<1>. QED
  BY <1>5, <1>6, <1>7 DEF MemoryKept

\* A node that was not in use is filled.
LEMMA MemoryAdded ==
    ASSUME NEW R, QueueInv(R), NEW t \in Threads, NEW x, th' = [th EXCEPT ![t] = x],
           NEW n \in Nodes \ allocated, NEW c, mem' = [mem EXCEPT ![n] = c],
           ~Writing(x)
    PROVE  MemoryKept(t)
<1>1. th'[t] = x /\ \A u \in Threads \ {t} : th'[u] = th[u]
  BY OthersSame DEF QueueInv
<1>2. \A m \in allocated : mem'[m] = mem[m]
  BY DEF QueueInv, QueuesTyped
<1>3. ASSUME NEW g \in Handles, Base(g) \in allocated, Firm(g)
      PROVE  Firm(g)' /\ Load(g)' = Load(g)
  <2>1. Load(g)' = Load(g)
    BY <1>2, <1>3 DEF Load, Base
  <2>. QED
    BY <1>1, <1>3, <2>1 DEF Firm
<1>4. \A u \in Threads : Writing(th[u]) /\ th[u].node # Null => th[u].node \in allocated
  BY PendingNode
<1>. QED
  BY <1>2, <1>3, <1>4 DEF MemoryKept, Chain

-----------------------------------------------------------------------------

\* A queue's seats are on its nodes, and the pointers that lead to them are settled.
LEMMA WalkOnList ==
    ASSUME NEW R, QueueInv(R), NEW k \in Queues, NEW w, Walk(mem, ends[k], w)
    PROVE  /\ \A i \in 1..Len(w) : Base(w[i]) \in R[k] /\ w[i] \in Handles /\ IsStateSlot(w[i])
           /\ \A i \in 1..Len(w)-1 :
                 w[i][2] = NodeSlots => Settled(Base(w[i])) /\ Base(w[i]) \in R[k]
           /\ ends[k].head # Null /\ ~IsStateSlot(ends[k].head) =>
                 /\ ends[k].head[2] = NodeSlots + 1
                 /\ Settled(Base(ends[k].head)) /\ Base(ends[k].head) \in R[k]
<1>1. w \in Seq(Seats) /\ Len(w) \in Nat /\ w \in [1..Len(w) -> Seats]
  BY DEF Walk
<1>2. \A i \in 1..Len(w) : w[i] \in Handles /\ IsStateSlot(w[i])
  BY <1>1, StateQueueAssumption DEF Seats, Handles, IsStateSlot
<1>3. CASE ends[k].head = Null
  BY <1>3 DEF Walk
<1>4. CASE ends[k].head # Null
  <2>1. /\ Len(w) > 0 /\ w[1] = Normal(mem, ends[k].head) /\ w[Len(w)] = ends[k].tail
        /\ \A i \in 1..Len(w)-1 : w[i+1] = Normal(mem, NextHandle(w[i]))
    BY <1>1, <1>4 DEF Walk
  <2>2. PICK first, last : first = Base(ends[k].head) /\ last = Base(ends[k].tail)
    OBVIOUS
  <2>3. /\ first \in R[k] /\ last \in R[k]
        /\ first = last => ends[k].head[2] <= ends[k].tail[2]
        /\ \A m \in R[k] \ {last} : Settled(m) /\ Chain(m) \in R[k] /\ Chain(m) \in Nodes
    <3>1. List(R[k], ends[k])
      BY <1>4 DEF QueueInv, Linked
    <3>. QED
      BY <2>2, <3>1 DEF List, Settled
  <2>4. /\ ends[k].head \in Handles /\ ends[k].tail \in Handles /\ IsStateSlot(ends[k].tail)
    BY <1>4, EndsOnList
  <2>5. ~IsStateSlot(ends[k].head) =>
           /\ ends[k].head[2] = NodeSlots + 1 /\ first # last
    BY <2>3, <2>4, StateQueueAssumption DEF Handles, IsStateSlot
  <2>6. Base(w[1]) \in R[k]
    <3>1. CASE IsStateSlot(ends[k].head)
      BY <2>1, <2>2, <2>3, <3>1 DEF Normal
    <3>2. CASE ~IsStateSlot(ends[k].head)
      <4>1. w[1] = FirstHandle(Chain(first))
        BY <2>1, <2>2, <2>5, <3>2 DEF Normal, Cell, Chain, Base
      <4>. QED
        BY <2>3, <2>5, <3>2, <4>1, HandleOf
    <3>. QED
      BY <3>1, <3>2
  <2>7. ASSUME NEW i \in 1..Len(w)-1, w[i][2] = NodeSlots PROVE Base(w[i]) # last
    <3>1. i \in 1..Len(w) /\ Len(w) \in 1..Len(w) /\ i < Len(w)
      BY <1>1, <2>1
    <3>2. Base(w[i]) = last => w[i][2] < ends[k].tail[2]
      BY <2>1, <2>2, <3>1 DEF Walk
    <3>. QED
      BY <2>4, <2>7, <3>2, StateQueueAssumption DEF Handles, IsStateSlot
  <2>8. ASSUME NEW i \in 1..Len(w)-1, Base(w[i]) \in R[k] PROVE Base(w[i+1]) \in R[k]
    <3>1. /\ w[i] \in Handles /\ IsStateSlot(w[i]) /\ w[i+1] = Normal(mem, NextHandle(w[i]))
      BY <1>1, <1>2, <2>1
    <3>2. /\ Base(NextHandle(w[i])) = Base(w[i]) /\ NextHandle(w[i])[2] = w[i][2] + 1
          /\ w[i][2] \in 1..NodeSlots /\ NextHandle(w[i])[1] = Base(w[i])
      BY <3>1, NextHandleOf
    <3>3. CASE w[i][2] < NodeSlots
      <4>1. IsStateSlot(NextHandle(w[i]))
        BY <3>2, <3>3, StateQueueAssumption DEF IsStateSlot
      <4>. QED
        BY <2>8, <3>1, <3>2, <4>1 DEF Normal
    <3>4. CASE w[i][2] = NodeSlots
      <4>1. ~IsStateSlot(NextHandle(w[i]))
        BY <3>2, <3>4, StateQueueAssumption DEF IsStateSlot
      <4>2. w[i+1] = FirstHandle(Chain(Base(w[i])))
        BY <3>1, <3>2, <3>4, <4>1 DEF Normal, Cell, Chain
      <4>3. Base(w[i]) # last
        BY <2>7, <3>4
      <4>. QED
        BY <2>3, <2>8, <4>2, <4>3, HandleOf
    <3>. QED
      BY <3>2, <3>3, <3>4, StateQueueAssumption
  <2>. DEFINE T == {i \in Nat : Base(w[i+1]) \in R[k]}
  <2>9. \A i \in 0..Len(w)-1 : i \in T
    <3>1. 0 \in T
      BY <2>6
    <3>2. \A i \in 0..(Len(w)-1)-1 : i \in T => i + 1 \in T
      <4>. SUFFICES ASSUME NEW i \in 0..(Len(w)-1)-1, i \in T PROVE i + 1 \in T
        OBVIOUS
      <4>1. i + 1 \in 1..Len(w)-1 /\ i + 1 \in Nat
        BY <1>1
      <4>. QED
        BY <2>8, <4>1
    <3>3. Len(w) - 1 \in Nat
      BY <1>1, <2>1
    <3>. HIDE DEF T
    <3>. QED
      BY <3>1, <3>2, <3>3, CountUp
  <2>10. \A i \in 1..Len(w) : Base(w[i]) \in R[k]
    <3>. SUFFICES ASSUME NEW i \in 1..Len(w) PROVE Base(w[i]) \in R[k]
      OBVIOUS
    <3>1. i - 1 \in T /\ (i - 1) + 1 = i
      BY <1>1, <2>9
    <3>. QED
      BY <3>1
  <2>11. \A i \in 1..Len(w)-1 :
            w[i][2] = NodeSlots => Settled(Base(w[i])) /\ Base(w[i]) \in R[k]
    BY <1>1, <2>3, <2>7, <2>10
  <2>. QED
    BY <1>2, <2>2, <2>3, <2>5, <2>10, <2>11
<1>. QED
  BY <1>3, <1>4

\* It is there after a step that keeps memory.
LEMMA WalkStays ==
    ASSUME NEW R, QueueInv(R), NEW k \in Queues, NEW w, Walk(mem, ends[k], w),
           NEW t, MemoryKept(t)
    PROVE  Walk(mem', ends[k], w)
<1>1. R[k] \subseteq allocated
  BY DEF QueueInv, Owned
<1>2. \A n \in R[k] : Settled(n) => mem'[n][NodeSlots + 1] = mem[n][NodeSlots + 1]
  BY <1>1 DEF MemoryKept, Chain
<1>3. ends[k].head # Null => Normal(mem', ends[k].head) = Normal(mem, ends[k].head)
  <2>. SUFFICES ASSUME ends[k].head # Null, ~IsStateSlot(ends[k].head)
                PROVE  Normal(mem', ends[k].head) = Normal(mem, ends[k].head)
    BY DEF Normal
  <2>1. /\ ends[k].head[2] = NodeSlots + 1
        /\ Settled(ends[k].head[1]) /\ ends[k].head[1] \in R[k]
    BY WalkOnList DEF Base
  <2>. QED
    BY <1>2, <2>1 DEF Normal, Cell
<1>4. ASSUME NEW i \in 1..Len(w)-1
      PROVE  Normal(mem', NextHandle(w[i])) = Normal(mem, NextHandle(w[i]))
  <2>. SUFFICES ASSUME ~IsStateSlot(NextHandle(w[i]))
                PROVE  Normal(mem', NextHandle(w[i])) = Normal(mem, NextHandle(w[i]))
    BY DEF Normal
  <2>1. w[i] \in Handles /\ IsStateSlot(w[i])
    <3>1. i \in 1..Len(w)
      BY DEF Walk
    <3>. QED
      BY <3>1, WalkOnList
  <2>2. w[i][2] = NodeSlots
    BY <2>1, NextHandleOf, StateQueueAssumption DEF IsStateSlot
  <2>3. /\ NextHandle(w[i])[2] = NodeSlots + 1 /\ NextHandle(w[i])[1] = Base(w[i])
    BY <2>1, <2>2, NextHandleOf
  <2>4. Settled(Base(w[i])) /\ Base(w[i]) \in R[k]
    BY <2>2, WalkOnList
  <2>. QED
    BY <1>2, <2>3, <2>4 DEF Normal, Cell
<1>. QED
  BY <1>3, <1>4 DEF Walk

\* Then the seats on the lists keep their states, and these stay firm.
LEMMA SeatsStay ==
    ASSUME NEW R, QueueInv(R), NEW w, Order(w), NEW t, MemoryKept(t)
    PROVE  \A k \in Queues : \A i \in 1..Len(w[k]) :
              Firm(w[k][i])' /\ Load(w[k][i])' = Load(w[k][i])
<1>. SUFFICES ASSUME NEW k \in Queues, NEW i \in 1..Len(w[k]), NEW h, h = w[k][i]
              PROVE  Firm(h)' /\ Load(h)' = Load(h)
  BY DEF Firm, Load
<1>1. Firm(h) /\ Walk(mem, ends[k], w[k])
  BY DEF Order, Walks
<1>2. h \in Handles /\ Base(h) \in allocated
  BY <1>1, WalkOnList DEF QueueInv, Owned
<1>. QED
  BY <1>1, <1>2 DEF MemoryKept

\* What a thread is about to load is in a node it protects.
LEMMA LoadsFromGuarded ==
    ASSUME NEW R, QueueInv(R), NEW u \in Threads, th[u].pc = "dload"
    PROVE  /\ th[u].ends.head \in Handles /\ Base(th[u].ends.head) \in allocated
           /\ Base(th[u].ends.head) \in Guards(th[u])
<1>1. th[u] \in Locals /\ LocalsAgree(th[u])
  BY LocalsTyped
<1>2. th[u].ends.head \in Handles
  BY <1>1 DEF LocalsAgree, Goal, DequeueGoals, Locals, Ends, EndsType
<1>3. Base(th[u].ends.head) \in Guards(th[u])
  BY DEF Guards
<1>. QED
  BY <1>2, <1>3 DEF QueueInv, Owned

\* So does the seat that a dequeuer is about to load.
LEMMA LoadingStays ==
    ASSUME NEW R, QueueInv(R), NEW w, Order(w), NEW t, MemoryKept(t),
           NEW u \in Threads, th[u].pc = "dload"
    PROVE  Firm(th[u].ends.head) /\ \A h : h = th[u].ends.head => Firm(h)' /\ Load(h)' = Load(h)
<1>1. Firm(th[u].ends.head)
  BY DEF Order, Loading, At
<1>. QED
  BY <1>1, LoadsFromGuarded DEF MemoryKept

\* Thread t comes to local variables x, and the seats to v.
LEMMA OrderKeeps ==
    ASSUME NEW R, QueueInv(R), NEW w, Order(w), NEW t \in Threads, NEW x,
           th' = [th EXCEPT ![t] = x], MemoryKept(t),
           NEW v,
           \A k \in Queues : /\ Walk(mem', ends'[k], v[k])
                             /\ \A i \in 1..Len(v[k]) : Firm(v[k][i])',
           x.pc = "dload" => Firm(x.ends.head)',
           Writing(x) /\ x.node # Null => mem'[x.node][1] = x.s,
           NoLeak(v)'
    PROVE  Order(v)'
<1>1. th'[t] = x /\ \A u \in Threads \ {t} : th'[u] = th[u]
  BY OthersSame DEF QueueInv
<1>2. Walks(v)'
  BY DEF Walks
<1>3. Loading'
  <2>. SUFFICES ASSUME NEW u \in Threads, th'[u].pc = "dload", NEW h, h = th'[u].ends.head
                PROVE  Firm(h)'
    BY DEF Loading, At, Firm, Load
  <2>1. CASE u = t
    BY <1>1, <2>1 DEF Firm, Load
  <2>2. CASE u # t
    BY <1>1, <2>2, LoadingStays
  <2>. QED
    BY <2>1, <2>2
<1>4. Filled'
  <2>. SUFFICES ASSUME NEW u \in Threads, Writing(th'[u]), th'[u].node # Null
                PROVE  mem'[th'[u].node][1] = th'[u].s
    BY DEF Filled
  <2>1. CASE u = t
    BY <1>1, <2>1
  <2>2. CASE u # t
    BY <1>1, <2>2 DEF MemoryKept, Order, Filled
  <2>. QED
    BY <2>1, <2>2
<1>. QED
  BY <1>2, <1>3, <1>4 DEF Order

\* The contents of a queue are what its seats hold,
LEMMA ContentsAre ==
    ASSUME NEW w, Walks(w), NEW k \in Queues
    PROVE  Contents(k) = [i \in 1..Len(w[k]) |-> Load(w[k][i])]
<1>1. Walk(mem, ends[k], w[k])
  BY DEF Walks
<1>2. Contents(k) = [i \in 1..Len(w[k]) |-> Cell(mem, w[k][i])]
  BY <1>1, StatesOfWalk DEF Contents
<1>. QED
  BY <1>2 DEF Cell, Load

\* also after a step.
LEMMA ContentsBecome ==
    ASSUME NEW k \in Queues, NEW v, Walk(mem', ends'[k], v)
    PROVE  Contents(k)' = [i \in 1..Len(v) |-> Load(v[i])']
<1>1. StatesOf(mem', ends'[k]) = [i \in 1..Len(v) |-> Cell(mem', v[i])]
  BY StatesOfWalk
<1>. QED
  BY <1>1 DEF Contents, Cell, Load

\* A step that leaves the queues alone: what was in use is, or was thread t's to free.
LEMMA OrderStays ==
    ASSUME NEW R, QueueInv(R), NEW w, Order(w), NEW t \in Threads, NEW x,
           th' = [th EXCEPT ![t] = x], MemoryKept(t), ends' = ends,
           x.pc # "dload",
           Writing(x) /\ x.node # Null => mem'[x.node][1] = x.s,
           allocated' \subseteq allocated \cup Held(x),
           Held(th[t]) \cap allocated' \subseteq Held(x)
    PROVE  /\ Order(w)'
           /\ \A k \in Queues : Contents(k)' = Contents(k)
<1>1. th'[t] = x /\ \A u \in Threads \ {t} : th'[u] = th[u]
  BY OthersSame DEF QueueInv
<1>2. \A k \in Queues : Walk(mem, ends[k], w[k])
  BY DEF Order, Walks
<1>3. \A k \in Queues : Walk(mem', ends'[k], w[k])
  BY <1>2, WalkStays
<1>4. NoLeak(w)'
  <2>. SUFFICES ASSUME NEW n \in allocated'
                PROVE  \/ \E u \in Threads : n \in Held(th'[u])
                       \/ \E k \in Queues : n \in Span(k, w)'
    BY DEF NoLeak
  <2>1. \A k \in Queues : Span(k, w)' = Span(k, w)
    BY DEF Span
  <2>2. CASE n \in Held(x)
    BY <1>1, <2>2
  <2>3. CASE n \notin Held(x)
    BY <1>1, <2>1, <2>3 DEF Order, NoLeak
  <2>. QED
    BY <2>2, <2>3
<1>5. Order(w)'
  BY <1>3, <1>4, SeatsStay, OrderKeeps
<1>6. ASSUME NEW k \in Queues PROVE Contents(k)' = Contents(k)
  <2>1. Contents(k)' = [i \in 1..Len(w[k]) |-> Load(w[k][i])']
    BY <1>3, ContentsBecome
  <2>2. Contents(k) = [i \in 1..Len(w[k]) |-> Load(w[k][i])]
    BY ContentsAre DEF Order
  <2>3. \A i \in 1..Len(w[k]) : Load(w[k][i])' = Load(w[k][i])
    BY SeatsStay
  <2>. QED
    BY <2>1, <2>2, <2>3
<1>. QED
  BY <1>5, <1>6

-----------------------------------------------------------------------------
(***************************************************************************)
(* Steps that move a state into a queue, along it, or out of it.           *)
(***************************************************************************)

\* The queues that a step leaves alone.
LEMMA OtherQueuesStay ==
    ASSUME NEW R, QueueInv(R), NEW w, Order(w), NEW t, MemoryKept(t),
           NEW k \in Queues, ends'[k] = ends[k]
    PROVE  /\ Walk(mem', ends'[k], w[k]) /\ \A i \in 1..Len(w[k]) : Firm(w[k][i])'
           /\ Contents(k)' = Contents(k)
           /\ Span(k, w)' = Span(k, w)
<1>1. Walk(mem, ends[k], w[k])
  BY DEF Order, Walks
<1>2. Walk(mem', ends'[k], w[k])
  BY <1>1, WalkStays
<1>3. \A i \in 1..Len(w[k]) : Firm(w[k][i])' /\ Load(w[k][i])' = Load(w[k][i])
  BY SeatsStay
<1>4. Contents(k)' = [i \in 1..Len(w[k]) |-> Load(w[k][i])']
  BY <1>2, ContentsBecome
<1>5. Contents(k) = [i \in 1..Len(w[k]) |-> Load(w[k][i])]
  BY ContentsAre DEF Order
<1>. QED
  BY <1>2, <1>3, <1>4, <1>5 DEF Span

\* A seat that is new to a queue is not one that a thread writes to.
LEMMA FirstSeatFree ==
    ASSUME NEW R, QueueInv(R), NEW u \in Threads, Writing(th[u]), NEW n
    PROVE  SlotOf(th[u]) # FirstHandle(n)
<1>1. /\ th[u].ends.tail \in Handles /\ SlotOf(th[u])[2] = th[u].ends.tail[2] + 1
  BY WriterSlot DEF Writing
<1>. QED
  BY <1>1, StateQueueAssumption DEF FirstHandle, Handles

\* Handles and slots.
LEMMA SeatOf ==
    ASSUME NEW h \in Handles, IsStateSlot(h)
    PROVE  h \in Seats /\ h # Null
BY StateQueueAssumption DEF Handles, IsStateSlot, Seats

\* A first node makes the empty queue hold the state in it.
LEMMA FirstOrders ==
    ASSUME NEW R \in [Queues -> SUBSET Nodes], QueueInv(R),
           NEW w \in [Queues -> Seq(Seats)], Order(w), NEW t \in Threads,
           th[t].pc = "efirst", NEW k \in Queues, k = th[t].queue, ends[k] = th[t].ends,
           NEW n \in Nodes \ allocated, allocated' = allocated \cup {n},
           mem' = [mem EXCEPT ![n] = NewNode(th[t].s)],
           ends' = [ends EXCEPT ![k] = [head |-> FirstHandle(n), tail |-> FirstHandle(n)]],
           th' = [th EXCEPT ![t].pc = "ecount"]
    PROVE  /\ OrderInv'
           /\ Contents(k) = <<>> /\ Contents(k)' = <<th[t].s>>
           /\ \A l \in Queues \ {k} : Contents(l)' = Contents(l)
<1>0. LocalsAgree(th[t]) /\ th[t] \in Locals
  BY LocalsTyped
<1>1. PICK x : x = [th[t] EXCEPT !.pc = "ecount"]
  OBVIOUS
<1>2. /\ x.pc = "ecount" /\ x.ends = th[t].ends /\ x.node = th[t].node
      /\ x.deferred = th[t].deferred /\ x.victim = th[t].victim
  BY <1>0, <1>1 DEF Locals
<1>3. th' = [th EXCEPT ![t] = x]
  BY <1>1
<1>a. th'[t] = x /\ \A u \in Threads \ {t} : th'[u] = th[u]
  BY <1>3, OthersSame DEF QueueInv
<1>4. /\ ~Writing(x) /\ Held(x) = Held(th[t])
  BY <1>2 DEF Writing, Held, Pending, Doomed, Deferred, Removed
<1>5. MemoryKept(t)
  BY <1>3, <1>4, MemoryAdded
<1>6. /\ th[t].s \in States /\ ends[k].head = Null
  BY <1>0 DEF LocalsAgree, Goal, Locals, Ends
<1>7. PICK h \in Handles : /\ h = FirstHandle(n) /\ IsStateSlot(h) /\ h # Null
                           /\ Base(h) = n /\ h \in Seats
  BY HandleOf, SeatOf
<1>8. PICK e : e = [head |-> h, tail |-> h]
  OBVIOUS
<1>9. ends'[k] = e /\ \A l \in Queues \ {k} : ends'[l] = ends[l]
  BY <1>7, <1>8 DEF QueueInv, QueuesTyped
<1>10. PICK v : v = [w EXCEPT ![k] = <<h>>]
  OBVIOUS
<1>11. v[k] = <<h>> /\ v \in [Queues -> Seq(Seats)] /\ \A l \in Queues \ {k} : v[l] = w[l]
  BY <1>7, <1>10
<1>12. Walk(mem', e, <<h>>)
  BY <1>7, <1>8 DEF Walk, Normal
<1>13. Load(h)' = th[t].s
  <2>1. mem'[n] = NewNode(th[t].s)
    BY DEF QueueInv, QueuesTyped
  <2>2. NewNode(th[t].s)[1] = th[t].s
    BY HandleOf DEF NewNode, EmptyNode
  <2>3. h[1] = n /\ h[2] = 1
    BY <1>7 DEF FirstHandle
  <2>4. mem'[h[1]][h[2]] = th[t].s
    BY <2>1, <2>2, <2>3
  <2>. QED
    BY <2>4 DEF Load
<1>14. Firm(h)'
  <2>1. \A u \in Threads : Writing(th'[u]) => Writing(th[u]) /\ th'[u] = th[u]
    BY <1>a, <1>4
  <2>2. \A u \in Threads : Writing(th'[u]) => SlotOf(th'[u]) # h
    BY <1>7, <2>1, FirstSeatFree
  <2>. QED
    BY <1>6, <1>13, <2>2 DEF Firm
<1>15. \A l \in Queues : /\ Walk(mem', ends'[l], v[l])
                         /\ \A i \in 1..Len(v[l]) : Firm(v[l][i])'
  <2>1. ASSUME NEW l \in Queues, l # k
        PROVE  Walk(mem', ends'[l], v[l]) /\ \A i \in 1..Len(v[l]) : Firm(v[l][i])'
    <3>1. v[l] = w[l] /\ ends'[l] = ends[l]
      BY <1>9, <1>11, <2>1
    <3>2. Walk(mem', ends'[l], w[l]) /\ \A i \in 1..Len(w[l]) : Firm(w[l][i])'
      BY <1>5, <3>1, OtherQueuesStay
    <3>. QED
      BY <3>1, <3>2
  <2>2. \A i \in 1..Len(v[k]) : Firm(v[k][i])'
    <3>1. ASSUME NEW i \in 1..Len(v[k]) PROVE v[k][i] = h
      BY <1>11, <3>1
    <3>. QED
      BY <1>14, <3>1 DEF Firm, Load
  <2>. QED
    BY <1>9, <1>11, <1>12, <2>1, <2>2
<1>16. NoLeak(v)'
  <2>. SUFFICES ASSUME NEW m \in allocated'
                PROVE  \/ \E u \in Threads : m \in Held(th'[u])
                       \/ \E l \in Queues : m \in Span(l, v)'
    BY DEF NoLeak
  <2>1. CASE m = n
    <3>1. m \in Span(k, v)'
      BY <1>7, <1>8, <1>9, <2>1 DEF Span
    <3>. QED
      BY <3>1
  <2>2. CASE m # n
    <3>1. Span(k, w) = {}
      BY <1>6 DEF Span
    <3>2. ASSUME NEW l \in Queues \ {k} PROVE Span(l, v)' = Span(l, w)
      <4>1. v[l] = w[l] /\ ends'[l] = ends[l]
        BY <1>9, <1>11
      <4>. QED
        BY <4>1 DEF Span
    <3>3. \A u \in Threads : Held(th'[u]) = Held(th[u])
      BY <1>a, <1>4
    <3>4. m \in allocated
      BY <2>2
    <3>5. \/ \E u \in Threads : m \in Held(th[u])
          \/ \E l \in Queues : m \in Span(l, w)
      BY <3>4 DEF Order, NoLeak
    <3>. QED
      BY <3>1, <3>2, <3>3, <3>5
  <2>. QED
    BY <2>1, <2>2
<1>17. Order(v)'
  BY <1>2, <1>3, <1>4, <1>5, <1>15, <1>16, OrderKeeps
<1>18. Contents(k) = <<>>
  BY <1>6 DEF Contents, StatesOf
<1>19. Contents(k)' = <<th[t].s>>
  <2>1. Contents(k)' = [i \in 1..Len(<<h>>) |-> Load(<<h>>[i])']
    BY <1>9, <1>12, ContentsBecome
  <2>2. \A i \in 1..1 : Load(<<h>>[i])' = th[t].s
    <3>1. \A i \in 1..1 : <<h>>[i] = h
      OBVIOUS
    <3>. QED
      BY <1>13, <3>1 DEF Load
  <2>3. Len(<<h>>) = 1
    OBVIOUS
  <2>. QED
    BY <2>1, <2>2, <2>3
<1>20. \A l \in Queues \ {k} : Contents(l)' = Contents(l)
  BY <1>5, <1>9, OtherQueuesStay
<1>. QED
  BY <1>11, <1>17, <1>18, <1>19, <1>20 DEF OrderInv

\* Appending to a queue's seats.
LEMMA AppendSeats ==
    ASSUME NEW m, NEW e, NEW w, Walk(m, e, w), e.head # Null, NEW h \in Seats,
           h = Normal(m, NextHandle(e.tail)),
           \A i \in 1..Len(w) : Base(w[i]) = Base(h) => w[i][2] < h[2],
           NEW f, f.head = e.head, f.tail = h
    PROVE  Walk(m, f, Append(w, h))
<1>1. /\ w \in Seq(Seats) /\ Len(w) \in Nat \ {0} /\ w[1] = Normal(m, e.head) /\ w[Len(w)] = e.tail
      /\ \A i \in 1..Len(w)-1 : w[i+1] = Normal(m, NextHandle(w[i]))
      /\ \A i, j \in 1..Len(w) : i < j /\ Base(w[i]) = Base(w[j]) => w[i][2] < w[j][2]
  BY DEF Walk
<1>2. PICK v : v = Append(w, h)
  OBVIOUS
<1>3. /\ v \in Seq(Seats) /\ Len(v) = Len(w) + 1 /\ v[Len(w) + 1] = h
      /\ \A i \in 1..Len(w) : v[i] = w[i]
  BY <1>1, <1>2
<1>4. v # <<>> /\ v[1] = Normal(m, f.head) /\ v[Len(v)] = f.tail
  BY <1>1, <1>3
<1>5. ASSUME NEW i \in 1..Len(v)-1 PROVE v[i+1] = Normal(m, NextHandle(v[i]))
  <2>1. CASE i = Len(w)
    BY <1>1, <1>3, <2>1
  <2>2. CASE i # Len(w)
    <3>1. i \in 1..Len(w)-1 /\ i \in 1..Len(w) /\ i + 1 \in 1..Len(w)
      BY <1>1, <1>3, <2>2
    <3>. QED
      BY <1>1, <1>3, <3>1
  <2>. QED
    BY <2>1, <2>2
<1>6. ASSUME NEW i \in 1..Len(v), NEW j \in 1..Len(v), i < j, Base(v[i]) = Base(v[j])
      PROVE  v[i][2] < v[j][2]
  <2>1. i \in 1..Len(w)
    BY <1>1, <1>3, <1>6
  <2>2. CASE j = Len(w) + 1
    BY <1>3, <1>6, <2>1, <2>2
  <2>3. CASE j # Len(w) + 1
    <3>1. j \in 1..Len(w)
      BY <1>1, <1>3, <2>3
    <3>. QED
      BY <1>1, <1>3, <1>6, <2>1, <3>1
  <2>. QED
    BY <2>2, <2>3
<1>7. f.head # Null
  OBVIOUS
<1>8. Walk(m, f, v)
  BY <1>3, <1>4, <1>5, <1>6, <1>7 DEF Walk
<1>. QED
  BY <1>2, <1>8

\* Moving the tail appends the state that was written.
LEMMA CASOrders ==
    ASSUME NEW R \in [Queues -> SUBSET Nodes], QueueInv(R),
           NEW w \in [Queues -> Seq(Seats)], Order(w), NEW t \in Threads,
           th[t].pc = "ecas", NEW k \in Queues, k = th[t].queue, ends[k] = th[t].ends,
           ends' = [ends EXCEPT ![k].tail = NewTail(th[t])],
           th' = [th EXCEPT ![t].pc = "unhazard", ![t].then = "ecount", ![t].node = Null],
           mem' = mem, allocated' = allocated
    PROVE  /\ OrderInv'
           /\ Contents(k)' = Append(Contents(k), th[t].s)
           /\ \A l \in Queues \ {k} : Contents(l)' = Contents(l)
<1>0. LocalsAgree(th[t]) /\ th[t] \in Locals /\ Writing(th[t])
  BY LocalsTyped DEF Writing
<1>1. PICK x : x = [th[t] EXCEPT !.pc = "unhazard", !.then = "ecount", !.node = Null]
  OBVIOUS
<1>2. /\ x.pc = "unhazard" /\ x.then = "ecount" /\ x.node = Null
      /\ x.deferred = th[t].deferred /\ x.victim = th[t].victim
  BY <1>0, <1>1 DEF Locals
<1>3. th' = [th EXCEPT ![t] = x]
  BY <1>1
<1>a. th'[t] = x /\ \A u \in Threads \ {t} : th'[u] = th[u]
  BY <1>3, OthersSame DEF QueueInv
<1>4. ~Writing(x) /\ Held(th[t]) = Held(x) \cup ({th[t].node} \ {Null})
  BY <1>2 DEF Writing, Held, Pending, Doomed, Deferred, Removed
<1>5. MemoryKept(t)
  BY <1>3, <1>4, MemorySame
<1>6. th[t].s \in States /\ ends[k].head # Null /\ ends[k] \in Ends
  BY <1>0 DEF LocalsAgree, Goal, EnqueueGoals, Locals, Ends
<1>7. PICK n \in Nodes \cup {Null} : n = th[t].node
  BY <1>0 DEF Locals
<1>8. PICK s \in Handles : s = SlotOf(th[t])
  BY <1>0, WriterSlot DEF Writing
<1>9. /\ Base(s) = Base(ends[k].tail) /\ s[2] = ends[k].tail[2] + 1 /\ s = NextHandle(ends[k].tail)
      /\ ends[k].tail \in Handles /\ IsStateSlot(ends[k].tail)
      /\ Load(s) = Written(th[t])
      /\ IsStateSlot(s) <=> n = Null
      /\ s # Null
  <2>1. Load(s) = Written(th[t]) /\ (IsStateSlot(s) <=> n = Null)
    BY <1>0, <1>7, <1>8 DEF QueueInv, SlotsWritten
  <2>. QED
    BY <1>0, <1>8, <2>1, WriterSlot, StateQueueAssumption DEF Writing, Base, SlotOf
<1>10. PICK h \in Seats : /\ h = NewTail(th[t]) /\ h = Normal(mem, s)
                          /\ h = (IF n = Null THEN s ELSE FirstHandle(n))
  <2>1. CASE n = Null
    BY <1>7, <1>8, <1>9, <2>1, SeatOf DEF NewTail, SlotOf, Normal
  <2>2. CASE n # Null
    <3>1. Cell(mem, s) = n
      BY <1>7, <1>9, <2>2 DEF Load, Cell, Written
    <3>. QED
      BY SMTT(30), <1>7, <1>9, <2>2, <3>1, HandleOf, SeatOf DEF NewTail, Normal
  <2>. QED
    BY <2>1, <2>2
<1>11. PICK e : e = [ends[k] EXCEPT !.tail = h]
  OBVIOUS
<1>12. /\ ends'[k] = e /\ e.head = ends[k].head /\ e.tail = h
       /\ \A l \in Queues \ {k} : ends'[l] = ends[l]
  BY <1>6, <1>10, <1>11 DEF QueueInv, QueuesTyped, Ends, EndsType
<1>13. Walk(mem, ends[k], w[k]) /\ \A i \in 1..Len(w[k]) : Base(w[k][i]) \in R[k]
  BY WalkOnList DEF Order, Walks
<1>14. PICK c \in Seq(Seats) : c = w[k] /\ Len(c) \in Nat \ {0} /\ c[Len(c)] = ends[k].tail
  BY <1>6, <1>13 DEF Walk
<1>b. Walk(mem, ends[k], c)
  BY <1>13, <1>14
<1>15. ASSUME NEW i \in 1..Len(c), Base(c[i]) = Base(h) PROVE c[i][2] < h[2]
  <2>1. CASE n = Null
    <3>1. Base(c[i]) = Base(c[Len(c)]) /\ h[2] = c[Len(c)][2] + 1 /\ c[Len(c)][2] \in Nat
      BY <1>9, <1>10, <1>14, <1>15, <2>1 DEF Handles
    <3>2. i < Len(c) => c[i][2] < c[Len(c)][2]
      <4>1. Len(c) \in 1..Len(c)
        BY <1>14
      <4>2. \A j \in 1..Len(c) : i < j /\ Base(c[i]) = Base(c[j]) => c[i][2] < c[j][2]
        BY <1>b DEF Walk
      <4>. QED
        BY <3>1, <4>1, <4>2
    <3>3. c[i][2] \in Nat
      BY SMTT(30), <1>14 DEF Seats
    <3>. QED
      BY SMTT(30), <1>14, <3>1, <3>2, <3>3
  <2>2. CASE n # Null
    <3>1. Base(h) = n
      BY <1>10, <2>2, HandleOf
    <3>2. n \in Held(th[t])
      BY <1>4, <1>7, <2>2
    <3>. QED
      BY <1>13, <1>14, <1>15, <3>1, <3>2 DEF QueueInv, Owned
  <2>. QED
    BY <2>1, <2>2
<1>16. PICK d : d = Append(c, h)
  OBVIOUS
<1>17. /\ d \in Seq(Seats) /\ Len(d) = Len(c) + 1 /\ d[Len(c) + 1] = h
       /\ \A i \in 1..Len(c) : d[i] = c[i]
  BY <1>14, <1>16
<1>18. Walk(mem, e, d)
  <2>1. h = Normal(mem, NextHandle(ends[k].tail))
    BY <1>9, <1>10
  <2>2. PICK f : f = ends[k]
    OBVIOUS
  <2>3. /\ Walk(mem, f, c) /\ f.head # Null /\ h = Normal(mem, NextHandle(f.tail))
        /\ e.head = f.head /\ e.tail = h
        /\ \A i \in 1..Len(c) : Base(c[i]) = Base(h) => c[i][2] < h[2]
    BY <1>6, <1>b, <1>12, <1>15, <2>1, <2>2
  <2>4. Walk(mem, e, Append(c, h))
    BY <2>3, AppendSeats
  <2>. QED
    BY <1>16, <2>4
<1>19. Load(h) = th[t].s
  <2>1. CASE n = Null
    BY <1>7, <1>9, <1>10, <2>1 DEF Written
  <2>2. CASE n # Null
    <3>1. mem[n][1] = th[t].s
      BY <1>0, <1>7, <2>2 DEF Order, Filled
    <3>. QED
      BY <1>10, <2>2, <3>1 DEF Load, FirstHandle
  <2>. QED
    BY <2>1, <2>2
<1>20. Firm(h)'
  <2>1. \A u \in Threads : Writing(th'[u]) => u # t /\ Writing(th[u]) /\ th'[u] = th[u]
    BY <1>a, <1>4
  <2>2. ASSUME NEW u \in Threads, u # t, Writing(th[u]) PROVE SlotOf(th[u]) # h
    <3>1. CASE n = Null
      BY <1>0, <1>8, <1>10, <2>2, <3>1 DEF QueueInv, SlotsApart
    <3>2. CASE n # Null
      BY <1>10, <2>2, <3>2, FirstSeatFree
    <3>. QED
      BY <3>1, <3>2
  <2>3. Load(h)' \in States
    BY <1>6, <1>19 DEF Load
  <2>. QED
    BY <2>1, <2>2, <2>3 DEF Firm
<1>21. PICK v : v = [w EXCEPT ![k] = d]
  OBVIOUS
<1>22. v[k] = d /\ v \in [Queues -> Seq(Seats)] /\ \A l \in Queues \ {k} : v[l] = w[l]
  BY <1>17, <1>21
<1>23. \A i \in 1..Len(c) : Firm(c[i])' /\ Load(c[i])' = Load(c[i])
  BY <1>5, <1>14, SeatsStay
<1>24. \A l \in Queues : /\ Walk(mem', ends'[l], v[l])
                         /\ \A i \in 1..Len(v[l]) : Firm(v[l][i])'
  <2>1. ASSUME NEW l \in Queues, l # k
        PROVE  Walk(mem', ends'[l], v[l]) /\ \A i \in 1..Len(v[l]) : Firm(v[l][i])'
    <3>1. v[l] = w[l] /\ ends'[l] = ends[l]
      BY <1>12, <1>22, <2>1
    <3>2. Walk(mem', ends'[l], w[l]) /\ \A i \in 1..Len(w[l]) : Firm(w[l][i])'
      BY <1>5, <3>1, OtherQueuesStay
    <3>. QED
      BY <3>1, <3>2
  <2>2. ASSUME NEW i \in 1..Len(v[k]), NEW g, g = v[k][i] PROVE Firm(g)'
    <3>1. CASE i \in 1..Len(c)
      BY <1>17, <1>22, <1>23, <2>2, <3>1
    <3>2. CASE i \notin 1..Len(c)
      <4>1. g = h
        BY SMTT(30), <1>14, <1>17, <1>22, <2>2, <3>2
      <4>. QED
        BY <1>20, <4>1
    <3>. QED
      BY <3>1, <3>2
  <2>3. \A i \in 1..Len(v[k]) : Firm(v[k][i])'
    BY <2>2 DEF Firm, Load
  <2>. QED
    BY <1>12, <1>18, <1>22, <2>1, <2>3
<1>25. NoLeak(v)'
  <2>. SUFFICES ASSUME NEW m \in allocated
                PROVE  \/ \E u \in Threads : m \in Held(th'[u])
                       \/ \E l \in Queues : m \in Span(l, v)'
    BY DEF NoLeak
  <2>1. Span(k, w) \subseteq Span(k, v)' /\ Base(h) \in Span(k, v)'
    <3>1. ends'[k].head = ends[k].head /\ v[k] = d
      BY <1>12, <1>22
    <3>2. Span(k, v)' = {Base(ends[k].head)} \cup {Base(d[i]) : i \in 1..Len(d)}
      BY <1>6, <3>1 DEF Span
    <3>3. Span(k, w) = {Base(ends[k].head)} \cup {Base(c[i]) : i \in 1..Len(c)}
      BY <1>6, <1>14 DEF Span
    <3>4. \A i \in 1..Len(c) : i \in 1..Len(d) /\ Base(d[i]) = Base(c[i])
      BY <1>14, <1>17
    <3>5. Len(c) + 1 \in 1..Len(d) /\ Base(d[Len(c) + 1]) = Base(h)
      BY <1>14, <1>17
    <3>. QED
      BY <3>2, <3>3, <3>4, <3>5
  <2>2. ASSUME NEW l \in Queues \ {k} PROVE Span(l, v)' = Span(l, w)
    <3>1. v[l] = w[l] /\ ends'[l] = ends[l]
      BY <1>12, <1>22
    <3>. QED
      BY <3>1 DEF Span
  <2>3. \A u \in Threads : Held(th[u]) \subseteq Held(th'[u]) \cup (IF u = t THEN {n} \ {Null} ELSE {})
    BY <1>a, <1>4, <1>7
  <2>4. n # Null => Base(h) = n
    BY <1>10, HandleOf
  <2>5. \/ \E u \in Threads : m \in Held(th[u])
        \/ \E l \in Queues : m \in Span(l, w)
    BY DEF Order, NoLeak
  <2>. QED
    BY <2>1, <2>2, <2>3, <2>4, <2>5
<1>26. Order(v)'
  BY <1>2, <1>3, <1>4, <1>5, <1>24, <1>25, OrderKeeps
<1>27. Contents(k)' = Append(Contents(k), th[t].s)
  <2>1. Contents(k)' = [i \in 1..Len(d) |-> Load(d[i])']
    <3>1. Walk(mem', ends'[k], d)
      BY <1>12, <1>18
    <3>. QED
      BY <3>1, ContentsBecome
  <2>2. Contents(k) = [i \in 1..Len(c) |-> Load(c[i])]
    <3>1. Contents(k) = [i \in 1..Len(w[k]) |-> Load(w[k][i])]
      BY ContentsAre DEF Order
    <3>. QED
      BY <1>14, <3>1
  <2>3. \A i \in 1..Len(c) : Load(d[i])' = Load(c[i])
    BY <1>17 DEF Load
  <2>4. Load(d[Len(c) + 1])' = th[t].s
    BY <1>17, <1>19 DEF Load
  <2>5. PICK C : C = Contents(k)
    OBVIOUS
  <2>6. /\ C \in Seq(States) /\ Len(C) = Len(c) /\ \A i \in 1..Len(c) : C[i] = Load(c[i])
    <3>1. \A i \in 1..Len(c) : Load(c[i]) \in States
      BY <1>14 DEF Order, Walks, Firm
    <3>. QED
      BY <1>14, <2>2, <2>5, <3>1
  <2>7. PICK D : D = Append(C, th[t].s)
    OBVIOUS
  <2>8. /\ D \in Seq(States) /\ Len(D) = Len(d) /\ D[Len(c) + 1] = th[t].s
        /\ \A i \in 1..Len(c) : D[i] = C[i]
    BY <1>6, <1>14, <1>17, <2>6, <2>7
  <2>9. \A i \in 1..Len(d) : D[i] = Load(d[i])'
    <3>. SUFFICES ASSUME NEW i \in 1..Len(d) PROVE D[i] = Load(d[i])'
      OBVIOUS
    <3>1. i \in 1..Len(c) \/ i = Len(c) + 1
      BY <1>14, <1>17
    <3>. QED
      BY <2>3, <2>4, <2>6, <2>8, <3>1
  <2>10. D = [i \in 1..Len(d) |-> Load(d[i])']
    BY <2>8, <2>9
  <2>. QED
    BY <2>1, <2>5, <2>7, <2>10
<1>28. \A l \in Queues \ {k} : Contents(l)' = Contents(l)
  BY <1>5, <1>12, OtherQueuesStay
<1>. QED
  BY <1>22, <1>26, <1>27, <1>28 DEF OrderInv

\* Moving the head from a chained pointer to the next node moves no state.
LEMMA SkipOrders ==
    ASSUME NEW R \in [Queues -> SUBSET Nodes], QueueInv(R),
           NEW w \in [Queues -> Seq(Seats)], Order(w), NEW t \in Threads,
           th[t].pc = "dskip", th[t].victim = Null,
           NEW k \in Queues, k = th[t].queue, ends[k] = th[t].ends,
           NEW e, e = [ends[k] EXCEPT !.head = FirstHandle(th[t].node)],
           ends' = [ends EXCEPT ![k] = e],
           NEW x, th' = [th EXCEPT ![t] = x], x.pc = "unhazard",
           x.victim = Base(ends[k].head), x.deferred = th[t].deferred,
           mem' = mem, allocated' = allocated
    PROVE  OrderInv' /\ \A l \in Queues : Contents(l)' = Contents(l)
<1>0. /\ LocalsAgree(th[t]) /\ th[t] \in Locals /\ NextAgrees(th[t])
  BY LocalsTyped
<1>a. th'[t] = x /\ \A u \in Threads \ {t} : th'[u] = th[u]
  BY OthersSame DEF QueueInv
<1>1. ends[k].head # Null /\ ends[k] \in Ends
  BY <1>0 DEF LocalsAgree, Goal, DequeueGoals, Locals
<1>2. PICK n \in Nodes : n = th[t].node /\ n = Chain(Base(ends[k].head))
  BY <1>0 DEF NextAgrees, Settled
<1>3. /\ Normal(mem, ends[k].head) = FirstHandle(n)
      /\ ends[k].head \in Handles
  <2>1. ends[k].head[2] = NodeSlots + 1 /\ ends[k].head \in Handles
    BY <1>0, <1>1, EndsOnList DEF NextAgrees
  <2>2. ~IsStateSlot(ends[k].head)
    BY <2>1, StateQueueAssumption DEF IsStateSlot
  <2>. QED
    BY <1>2, <2>1, <2>2 DEF Normal, Cell, Chain, Base
<1>4. /\ ends'[k] = e /\ e.head = FirstHandle(n) /\ e.tail = ends[k].tail /\ e.head # Null
      /\ \A l \in Queues \ {k} : ends'[l] = ends[l]
  BY <1>1, <1>2, HandleOf DEF QueueInv, QueuesTyped, Ends, EndsType
<1>5. PICK c : c = w[k]
  OBVIOUS
<1>6. Walk(mem, ends[k], c)
  BY <1>5 DEF Order, Walks
<1>7. Normal(mem, e.head) = FirstHandle(n)
  BY <1>4, HandleOf DEF Normal
<1>8. Walk(mem, e, c)
  BY <1>1, <1>3, <1>4, <1>6, <1>7 DEF Walk
<1>9. ~Writing(x)
  BY DEF Writing
<1>10. MemoryKept(t)
  BY <1>9, MemorySame
<1>11. \A l \in Queues : /\ Walk(mem', ends'[l], w[l])
                         /\ \A i \in 1..Len(w[l]) : Firm(w[l][i])'
  BY <1>4, <1>5, <1>8, <1>10, OtherQueuesStay, SeatsStay
<1>12. NoLeak(w)'
  <2>. SUFFICES ASSUME NEW m \in allocated
                PROVE  \/ \E u \in Threads : m \in Held(th'[u])
                       \/ \E l \in Queues : m \in Span(l, w)'
    BY DEF NoLeak
  <2>1. Span(k, w) \subseteq Span(k, w)' \cup {Base(ends[k].head)}
    BY <1>1, <1>4 DEF Span
  <2>2. ASSUME NEW l \in Queues \ {k} PROVE Span(l, w)' = Span(l, w)
    <3>1. ends'[l] = ends[l]
      BY <1>4
    <3>. QED
      BY <3>1 DEF Span
  <2>3. Base(ends[k].head) \in Held(x)
    <3>1. Base(ends[k].head) # Null
      BY <1>3, StateQueueAssumption DEF Handles, Base
    <3>. QED
      BY <3>1 DEF Held, Doomed
  <2>4. Held(th[t]) \subseteq Held(x)
    BY <1>0 DEF Held, Doomed, Pending, Removed, Deferred
  <2>5. \A u \in Threads : Held(th[u]) \subseteq Held(th'[u])
    BY <1>a, <2>4
  <2>6. \/ \E u \in Threads : m \in Held(th[u])
        \/ \E l \in Queues : m \in Span(l, w)
    BY DEF Order, NoLeak
  <2>7. ASSUME NEW l \in Queues, m \in Span(l, w)
        PROVE  m \in Held(x) \/ m \in Span(l, w)'
    <3>1. CASE l = k
      BY <2>1, <2>3, <2>7, <3>1
    <3>2. CASE l # k
      BY <2>2, <2>7, <3>2
    <3>. QED
      BY <3>1, <3>2
  <2>. QED
    BY <1>a, <2>5, <2>6, <2>7
<1>13. Order(w)'
  BY <1>9, <1>10, <1>11, <1>12, OrderKeeps
<1>14. ASSUME NEW l \in Queues PROVE Contents(l)' = Contents(l)
  <2>1. Walk(mem', ends'[l], w[l])
    BY <1>11
  <2>2. Contents(l)' = [i \in 1..Len(w[l]) |-> Load(w[l][i])']
    BY <2>1, ContentsBecome
  <2>3. Contents(l) = [i \in 1..Len(w[l]) |-> Load(w[l][i])]
    BY ContentsAre DEF Order
  <2>. QED
    BY <2>2, <2>3 DEF Load
<1>. QED
  BY <1>13, <1>14 DEF OrderInv

\* Taking the first of a queue's seats.
LEMMA TailSeats ==
    ASSUME NEW m, NEW e, NEW w, Walk(m, e, w), e.head # Null, Len(w) > 1,
           NEW f, f.head # Null, Normal(m, f.head) = Normal(m, NextHandle(w[1])),
           f.tail = e.tail
    PROVE  Walk(m, f, Tail(w))
<1>1. /\ w \in Seq(Seats) /\ Len(w) \in Nat /\ w[Len(w)] = e.tail
      /\ \A i \in 1..Len(w)-1 : w[i+1] = Normal(m, NextHandle(w[i]))
      /\ \A i, j \in 1..Len(w) : i < j /\ Base(w[i]) = Base(w[j]) => w[i][2] < w[j][2]
  BY DEF Walk
<1>2. PICK v : v = Tail(w)
  OBVIOUS
<1>3. /\ v \in Seq(Seats) /\ Len(v) = Len(w) - 1 /\ \A i \in 1..Len(v) : v[i] = w[i+1]
  BY <1>1, <1>2
<1>4. v # <<>> /\ v[1] = Normal(m, f.head) /\ v[Len(v)] = f.tail
  <2>1. Len(v) \in 1..Len(v) /\ 1 \in 1..Len(v) /\ Len(v) + 1 = Len(w) /\ 1 \in 1..Len(w)-1
    BY <1>1, <1>3
  <2>. QED
    BY <1>1, <1>3, <2>1
<1>5. ASSUME NEW i \in 1..Len(v)-1 PROVE v[i+1] = Normal(m, NextHandle(v[i]))
  <2>1. i \in 1..Len(v) /\ i + 1 \in 1..Len(v) /\ i + 1 \in 1..Len(w)-1
    BY <1>1, <1>3
  <2>. QED
    BY <1>1, <1>3, <2>1
<1>6. ASSUME NEW i \in 1..Len(v), NEW j \in 1..Len(v), i < j, Base(v[i]) = Base(v[j])
      PROVE  v[i][2] < v[j][2]
  <2>1. i + 1 \in 1..Len(w) /\ j + 1 \in 1..Len(w) /\ i + 1 < j + 1
    BY <1>1, <1>3, <1>6
  <2>. QED
    BY <1>1, <1>3, <1>6, <2>1
<1>7. Walk(m, f, v)
  BY <1>3, <1>4, <1>5, <1>6 DEF Walk
<1>. QED
  BY <1>2, <1>7

\* Moving the head off a state removes the first one, which is the one that will be
\* loaded.
LEMMA CASDequeues ==
    ASSUME NEW R \in [Queues -> SUBSET Nodes], QueueInv(R),
           NEW w \in [Queues -> Seq(Seats)], Order(w), NEW t \in Threads,
           th[t].pc = "dcas", NEW k \in Queues, k = th[t].queue, ends[k] = th[t].ends,
           NEW e, e = IF LastOne(ends[k]) THEN NoEnds
                      ELSE [head |-> NextHandle(ends[k].head), tail |-> ends[k].tail],
           ends' = [ends EXCEPT ![k] = e],
           th' = [th EXCEPT ![t].pc = "dload"],
           mem' = mem, allocated' = allocated
    PROVE  /\ OrderInv'
           /\ Contents(k) \in Seq(States) /\ Contents(k) # <<>>
           /\ Load(ends[k].head) = Head(Contents(k))
           /\ Contents(k)' = Tail(Contents(k))
           /\ \A l \in Queues \ {k} : Contents(l)' = Contents(l)
<1>0. LocalsAgree(th[t]) /\ th[t] \in Locals
  BY LocalsTyped
<1>1. PICK x : x = [th[t] EXCEPT !.pc = "dload"]
  OBVIOUS
<1>2. /\ x.pc = "dload" /\ x.ends = ends[k]
      /\ x.deferred = th[t].deferred /\ x.victim = th[t].victim
  BY <1>0, <1>1 DEF Locals
<1>3. th' = [th EXCEPT ![t] = x]
  BY <1>1
<1>a. th'[t] = x /\ \A u \in Threads \ {t} : th'[u] = th[u]
  BY <1>3, OthersSame DEF QueueInv
<1>4. /\ ~Writing(x) /\ Held(th[t]) \subseteq Held(x)
      /\ LastOne(ends[k]) => Base(ends[k].head) \in Held(x)
  BY <1>2 DEF Writing, Held, Pending, Doomed, Deferred, Removed
<1>5. MemoryKept(t)
  BY <1>3, <1>4, MemorySame
<1>6. /\ ends[k].head # Null /\ ends[k] \in Ends
      /\ ends[k].head \in Handles /\ ends[k].tail \in Handles /\ IsStateSlot(ends[k].tail)
  <2>1. ends[k].head # Null
    BY <1>0 DEF LocalsAgree, Goal, DequeueGoals
  <2>. QED
    BY <1>0, <2>1, EndsOnList DEF Locals
<1>7. PICK h \in Handles : h = ends[k].head /\ IsStateSlot(h)
  BY <1>0, <1>6 DEF LocalsAgree, LastOne
<1>8. Walk(mem, ends[k], w[k])
  BY DEF Order, Walks
<1>9. PICK c \in Seq(Seats) : /\ c = w[k] /\ Len(c) \in Nat \ {0} /\ c[Len(c)] = ends[k].tail
                              /\ c[1] = h
  BY <1>6, <1>7, <1>8 DEF Walk, Normal
<1>10. Walk(mem, ends[k], c)
  BY <1>8, <1>9
<1>b. /\ Len(c) \in Nat /\ Len(c) >= 1 /\ 1 \in 1..Len(c) /\ Len(c) \in 1..Len(c)
      /\ Len(c) # 1 => Len(c) > 1
  <2>1. PICK n : n = Len(c)
    OBVIOUS
  <2>2. n \in Nat \ {0}
    BY <1>9, <2>1
  <2>3. n \in Nat /\ n >= 1 /\ 1 \in 1..n /\ n \in 1..n /\ (n # 1 => n > 1)
    BY <2>2
  <2>. QED
    BY <2>1, <2>3
<1>11. LastOne(ends[k]) <=> Len(c) = 1
  <2>1. Len(c) = 1 => LastOne(ends[k])
    BY <1>7, <1>9 DEF LastOne
  <2>2. LastOne(ends[k]) => c[1] = c[Len(c)]
    BY <1>7, <1>9 DEF LastOne
  <2>3. c[1] = c[Len(c)] => 1 = Len(c)
    <3>1. \A i, j \in 1..Len(c) : c[i] = c[j] => i = j
      BY <1>10, WalkFits
    <3>. QED
      BY <1>b, <3>1
  <2>. QED
    BY <2>1, <2>2, <2>3
<1>12. PICK d : d = Tail(c)
  OBVIOUS
<1>13. /\ d \in Seq(Seats) /\ Len(d) = Len(c) - 1 /\ \A i \in 1..Len(d) : d[i] = c[i+1]
  BY <1>9, <1>12
<1>14. /\ ends'[k] = e /\ \A l \in Queues \ {k} : ends'[l] = ends[l]
  BY DEF QueueInv, QueuesTyped
<1>15. Walk(mem, e, d)
  <2>1. CASE Len(c) = 1
    <3>1. e.head = Null
      BY <1>11, <2>1 DEF NoEnds
    <3>2. d = <<>>
      BY <1>13, <2>1
    <3>. QED
      BY <3>1, <3>2 DEF Walk
  <2>2. CASE Len(c) # 1
    <3>1. PICK f : f = ends[k]
      OBVIOUS
    <3>2. /\ e.head = NextHandle(c[1]) /\ e.tail = f.tail /\ e.head # Null
          /\ Walk(mem, f, c) /\ f.head # Null
      BY <1>6, <1>7, <1>9, <1>10, <1>11, <2>2, <3>1, NextHandleOf
    <3>3. Len(c) > 1
      BY <1>b, <2>2
    <3>4. Walk(mem, e, Tail(c))
      BY <3>2, <3>3, TailSeats
    <3>. QED
      BY <1>12, <3>4
  <2>. QED
    BY <2>1, <2>2
<1>16. PICK v : v = [w EXCEPT ![k] = d]
  OBVIOUS
<1>17. v[k] = d /\ v \in [Queues -> Seq(Seats)] /\ \A l \in Queues \ {k} : v[l] = w[l]
  BY <1>13, <1>16
<1>18. \A i \in 1..Len(c) : Firm(c[i])' /\ Load(c[i])' = Load(c[i]) /\ Firm(c[i])
  BY <1>5, <1>9, SeatsStay DEF Order, Walks
<1>19. \A l \in Queues : /\ Walk(mem', ends'[l], v[l])
                         /\ \A i \in 1..Len(v[l]) : Firm(v[l][i])'
  <2>1. ASSUME NEW l \in Queues, l # k
        PROVE  Walk(mem', ends'[l], v[l]) /\ \A i \in 1..Len(v[l]) : Firm(v[l][i])'
    <3>1. v[l] = w[l] /\ ends'[l] = ends[l]
      BY <1>14, <1>17, <2>1
    <3>2. Walk(mem', ends'[l], w[l]) /\ \A i \in 1..Len(w[l]) : Firm(w[l][i])'
      BY <1>5, <3>1, OtherQueuesStay
    <3>. QED
      BY <3>1, <3>2
  <2>2. ASSUME NEW i \in 1..Len(v[k]), NEW g, g = v[k][i] PROVE Firm(g)'
    <3>1. i + 1 \in 1..Len(c) /\ g = c[i+1]
      BY <1>9, <1>13, <1>17, <2>2
    <3>. QED
      BY <1>18, <3>1
  <2>3. \A i \in 1..Len(v[k]) : Firm(v[k][i])'
    BY <2>2 DEF Firm, Load
  <2>. QED
    BY <1>14, <1>15, <1>17, <2>1, <2>3
<1>20. NoLeak(v)'
  <2>. SUFFICES ASSUME NEW m \in allocated
                PROVE  \/ \E u \in Threads : m \in Held(th'[u])
                       \/ \E l \in Queues : m \in Span(l, v)'
    BY DEF NoLeak
  <2>1. Span(k, w) = {Base(h)} \cup {Base(c[i]) : i \in 1..Len(c)}
    BY <1>6, <1>7, <1>9 DEF Span
  <2>2. CASE Len(c) = 1
    <3>1. \A i \in 1..Len(c) : c[i] = h
      BY <1>9, <2>2
    <3>2. Span(k, w) \subseteq Held(x)
      BY <1>4, <1>7, <1>11, <2>1, <2>2, <3>1
    <3>3. ASSUME NEW l \in Queues \ {k} PROVE Span(l, v)' = Span(l, w)
      <4>1. v[l] = w[l] /\ ends'[l] = ends[l]
        BY <1>14, <1>17
      <4>. QED
        BY <4>1 DEF Span
    <3>4. \/ \E u \in Threads : m \in Held(th[u])
          \/ \E l \in Queues : m \in Span(l, w)
      BY DEF Order, NoLeak
    <3>. QED
      BY <1>a, <1>4, <3>2, <3>3, <3>4
  <2>3. CASE Len(c) # 1
    <3>1. e.head # Null /\ Base(e.head) = Base(h)
      BY <1>7, <1>11, <2>3, NextHandleOf
    <3>2. Span(k, v)' = {Base(h)} \cup {Base(d[i]) : i \in 1..Len(d)}
      <4>1. ends'[k] = e /\ v[k] = d
        BY <1>14, <1>17
      <4>. QED
        BY <3>1, <4>1 DEF Span
    <3>3. ASSUME NEW i \in 1..Len(c), i # 1 PROVE \E j \in 1..Len(d) : d[j] = c[i]
      <4>1. PICK j : j = i - 1
        OBVIOUS
      <4>2. j \in 1..Len(d) /\ j + 1 = i
        BY <1>b, <1>13, <3>3, <4>1
      <4>. QED
        BY <1>13, <4>2
    <3>4. Span(k, w) \subseteq Span(k, v)'
      BY <1>9, <2>1, <3>2, <3>3
    <3>5. ASSUME NEW l \in Queues \ {k} PROVE Span(l, v)' = Span(l, w)
      <4>1. v[l] = w[l] /\ ends'[l] = ends[l]
        BY <1>14, <1>17
      <4>. QED
        BY <4>1 DEF Span
    <3>6. \/ \E u \in Threads : m \in Held(th[u])
          \/ \E l \in Queues : m \in Span(l, w)
      BY DEF Order, NoLeak
    <3>. QED
      BY <1>a, <1>4, <3>4, <3>5, <3>6
  <2>. QED
    BY <2>2, <2>3
<1>21. Firm(x.ends.head)'
  <2>1. Firm(h)'
    BY <1>9, <1>18, <1>b
  <2>2. x.ends.head = h
    BY <1>2, <1>7
  <2>. QED
    BY <2>1, <2>2 DEF Firm, Load
<1>22. Order(v)'
  BY <1>3, <1>4, <1>5, <1>19, <1>20, <1>21, OrderKeeps
<1>23. Contents(k)' = [i \in 1..Len(d) |-> Load(d[i])']
  <2>1. Walk(mem', ends'[k], d)
    BY <1>14, <1>15
  <2>. QED
    BY <2>1, ContentsBecome
<1>24. Contents(k) = [i \in 1..Len(c) |-> Load(c[i])]
  <2>1. Contents(k) = [i \in 1..Len(w[k]) |-> Load(w[k][i])]
    BY ContentsAre DEF Order
  <2>. QED
    BY <1>9, <2>1
<1>25. PICK C : C = Contents(k)
  OBVIOUS
<1>26. /\ C \in Seq(States) /\ Len(C) = Len(c) /\ \A i \in 1..Len(c) : C[i] = Load(c[i])
  <2>1. \A i \in 1..Len(c) : Load(c[i]) \in States
    BY <1>18 DEF Firm
  <2>. QED
    BY <1>9, <1>24, <1>25, <2>1
<1>27. C # <<>> /\ Head(C) = Load(h)
  <2>1. Len(C) >= 1 /\ C[1] = Load(h)
    BY <1>9, <1>26, <1>b
  <2>. QED
    BY <1>26, <2>1
<1>28. Contents(k)' = Tail(C)
  <2>1. PICK D : D = Tail(C)
    OBVIOUS
  <2>2. D \in Seq(States) /\ Len(D) = Len(d) /\ \A i \in 1..Len(d) : D[i] = C[i+1]
    BY <1>9, <1>13, <1>26, <1>27, <2>1
  <2>3. \A i \in 1..Len(d) : D[i] = Load(d[i])'
    <3>. SUFFICES ASSUME NEW i \in 1..Len(d) PROVE D[i] = Load(d[i])'
      OBVIOUS
    <3>1. i + 1 \in 1..Len(c) /\ d[i] = c[i+1]
      BY <1>9, <1>13
    <3>2. D[i] = Load(c[i+1])
      BY <1>26, <2>2, <3>1
    <3>. QED
      BY <3>1, <3>2 DEF Load
  <2>4. D = [i \in 1..Len(d) |-> Load(d[i])']
    BY <2>2, <2>3
  <2>. QED
    BY <1>23, <2>1, <2>4
<1>29. \A l \in Queues \ {k} : Contents(l)' = Contents(l)
  BY <1>5, <1>14, OtherQueuesStay
<1>. QED
  BY <1>7, <1>17, <1>22, <1>25, <1>26, <1>27, <1>28, <1>29 DEF OrderInv

-----------------------------------------------------------------------------
(***************************************************************************)
(* What a step does to the places of the states and to the counts.         *)
(***************************************************************************)

\* The thread has added a state, or removed one, that it has not counted yet.
Adds(l) == "ecount" \in {l.pc, l.then}
Takes(l) == l.pc = "dload" \/ l.got # Null

\* What the places are.
LEMMA PlacesAre ==
    /\ <<"fresh", 0>> \in Places /\ <<"explored", 0>> \in Places
    /\ \A u \in Threads : <<"offered", u>> \in Places /\ <<"taken", u>> \in Places
    /\ \A k \in Queues : <<"queue", k>> \in Places
    /\ \A p \in Places : \/ p = <<"fresh", 0>> \/ p = <<"explored", 0>>
                         \/ \E u \in Threads : p = <<"offered", u>> \/ p = <<"taken", u>>
                         \/ \E k \in Queues : p = <<"queue", k>>
BY DEF Places

\* A step of thread t moves states between the places E only.
Elsewhere(t, E) ==
    /\ <<"fresh", 0>> \in E \/ StatesAt(<<"fresh", 0>>)' = StatesAt(<<"fresh", 0>>)
    /\ <<"explored", 0>> \in E \/ StatesAt(<<"explored", 0>>)' = StatesAt(<<"explored", 0>>)
    /\ <<"offered", t>> \in E \/ StatesAt(<<"offered", t>>)' = StatesAt(<<"offered", t>>)
    /\ <<"taken", t>> \in E \/ StatesAt(<<"taken", t>>)' = StatesAt(<<"taken", t>>)
    /\ \A u \in Threads \ {t} : /\ StatesAt(<<"offered", u>>)' = StatesAt(<<"offered", u>>)
                               /\ StatesAt(<<"taken", u>>)' = StatesAt(<<"taken", u>>)
    /\ \A k \in Queues : <<"queue", k>> \in E \/ StatesAt(<<"queue", k>>)' = StatesAt(<<"queue", k>>)

\* The states at every other place are the same.
LEMMA OtherPlacesSame ==
    ASSUME NEW t \in Threads, NEW E, Elsewhere(t, E)
    PROVE  \A p \in Places \ E : StatesAt(p)' = StatesAt(p)
<1>. USE DEF Elsewhere
<1>. SUFFICES ASSUME NEW p \in Places, p \notin E
              PROVE  StatesAt(p)' = StatesAt(p)
  OBVIOUS
<1>1. CASE p = <<"fresh", 0>> \/ p = <<"explored", 0>>
  BY <1>1, Zenon
<1>2. CASE \E u \in Threads : p = <<"offered", u>> \/ p = <<"taken", u>>
  <2>1. PICK u \in Threads : p = <<"offered", u>> \/ p = <<"taken", u>>
    BY <1>2
  <2>2. CASE u = t
    BY <2>1, <2>2, Zenon
  <2>3. CASE u # t
    <3>1. u \in Threads \ {t}
      BY <2>3
    <3>. QED
      BY <2>1, <3>1, Zenon
  <2>. QED
    BY <2>2, <2>3
<1>3. CASE \E k \in Queues : p = <<"queue", k>>
  BY <1>3, Zenon
<1>. QED
  BY <1>1, <1>2, <1>3, PlacesAre, Zenon

\* The states at each of them, before a step
LEMMA StatesAtPlaces ==
    /\ StatesAt(<<"fresh", 0>>) = fresh /\ StatesAt(<<"explored", 0>>) = explored
    /\ \A u \in Threads :
          /\ StatesAt(<<"offered", u>>) = IF Offers(th[u]) THEN {th[u].s} ELSE {}
          /\ StatesAt(<<"taken", u>>) = {Taken(u)} \ {Null}
    /\ \A k \in Queues :
          StatesAt(<<"queue", k>>) = {Contents(k)[i] : i \in 1..Len(Contents(k))}
BY DEF StatesAt

\* and after it.
LEMMA StatesAtPlacesNext ==
    /\ StatesAt(<<"fresh", 0>>)' = fresh' /\ StatesAt(<<"explored", 0>>)' = explored'
    /\ \A u \in Threads :
          /\ StatesAt(<<"offered", u>>)' = IF Offers(th'[u]) THEN {th'[u].s} ELSE {}
          /\ StatesAt(<<"taken", u>>)' = {Taken(u)'} \ {Null}
    /\ \A k \in Queues :
          StatesAt(<<"queue", k>>)' = {Contents(k)'[i] : i \in 1..Len(Contents(k)')}
BY DEF StatesAt, Offers, Goal

\* Nothing moves.
LEMMA PlacesSame ==
    ASSUME Placed, \A p \in Places : StatesAt(p)' = StatesAt(p)
    PROVE  Placed'
<1>1. PICK P : P = [p \in Places |-> StatesAt(p)]
  OBVIOUS
<1>2. Partition(P)
  BY <1>1 DEF Placed
<1>3. [p \in Places |-> StatesAt(p)'] = P
  BY <1>1
<1>. QED
  BY <1>2, <1>3 DEF Placed, Partition

\* State s moves from a to b.
LEMMA PlacesChange ==
    ASSUME Placed, NEW a \in Places, NEW b \in Places, a # b,
           NEW s, s \in StatesAt(a),
           StatesAt(a)' = StatesAt(a) \ {s}, StatesAt(b)' = StatesAt(b) \cup {s},
           \A p \in Places \ {a, b} : StatesAt(p)' = StatesAt(p)
    PROVE  Placed'
<1>1. PICK P : P = [p \in Places |-> StatesAt(p)]
  OBVIOUS
<1>2. /\ \A p \in Places : P[p] \subseteq States
      /\ \A p, q \in Places : p # q => P[p] \cap P[q] = {}
      /\ \A r \in States : \E p \in Places : r \in P[p]
      /\ s \in P[a]
  BY <1>1 DEF Placed, Partition
<1>3. PICK N : N = [p \in Places |-> StatesAt(p)']
  OBVIOUS
<1>4. /\ N[a] = P[a] \ {s} /\ N[b] = P[b] \cup {s}
      /\ \A p \in Places \ {a, b} : N[p] = P[p]
  BY <1>1, <1>3
<1>5. \A p \in Places : N[p] \subseteq States
  BY <1>2, <1>4
<1>6. \A p, q \in Places : p # q => N[p] \cap N[q] = {}
  <2>1. \A p \in Places : s \in N[p] => p = b
    BY <1>2, <1>4
  <2>2. \A p \in Places : N[p] \ {s} \subseteq P[p]
    BY <1>4
  <2>. QED
    BY <1>2, <2>1, <2>2
<1>7. \A r \in States : \E p \in Places : r \in N[p]
  BY <1>2, <1>4
<1>8. Partition(N)
  BY <1>5, <1>6, <1>7 DEF Partition
<1>. QED
  BY <1>3, <1>8 DEF Placed, Partition

\* Two places have no state in common.
LEMMA PlacesApart ==
    ASSUME Placed, NEW a \in Places, NEW b \in Places, a # b
    PROVE  StatesAt(a) \cap StatesAt(b) = {} /\ StatesAt(a) \subseteq States
<1>1. PICK P : P = [p \in Places |-> StatesAt(p)]
  OBVIOUS
<1>2. Partition(P)
  BY <1>1 DEF Placed
<1>3. P[a] = StatesAt(a) /\ P[b] = StatesAt(b)
  BY <1>1
<1>. QED
  BY <1>2, <1>3 DEF Partition

\* What the other threads offer and have taken stays with them.
LEMMA OthersStay ==
    ASSUME NEW R, QueueInv(R), NEW w, Order(w), NEW t \in Threads, NEW x,
           th' = [th EXCEPT ![t] = x], MemoryKept(t)
    PROVE  \A u \in Threads \ {t} : /\ th'[u] = th[u] /\ Taken(u)' = Taken(u)
                                    /\ StatesAt(<<"offered", u>>)' = StatesAt(<<"offered", u>>)
                                    /\ StatesAt(<<"taken", u>>)' = StatesAt(<<"taken", u>>)
<1>1. \A u \in Threads \ {t} : th'[u] = th[u]
  BY OthersSame DEF QueueInv
<1>. SUFFICES ASSUME NEW u \in Threads \ {t}
              PROVE  /\ Taken(u)' = Taken(u)
                     /\ StatesAt(<<"offered", u>>)' = StatesAt(<<"offered", u>>)
                     /\ StatesAt(<<"taken", u>>)' = StatesAt(<<"taken", u>>)
  BY <1>1
<1>2. Taken(u)' = Taken(u)
  <2>1. CASE th[u].pc = "dload"
    <3>1. PICK h : h = th[u].ends.head
      OBVIOUS
    <3>2. Load(h)' = Load(h)
      BY <2>1, <3>1, LoadingStays
    <3>. QED
      BY <1>1, <2>1, <3>1, <3>2 DEF Taken, At, Load
  <2>2. CASE th[u].pc # "dload"
    BY <1>1, <2>2 DEF Taken, At
  <2>. QED
    BY <2>1, <2>2
<1>3. th'[u] = th[u]
  BY <1>1
<1>4. StatesAt(<<"offered", u>>)' = StatesAt(<<"offered", u>>)
  BY <1>3, StatesAtPlaces, StatesAtPlacesNext
<1>. QED
  BY <1>2, <1>4, StatesAtPlaces, StatesAtPlacesNext

\* Sets of threads are finite.
LEMMA ThreadsFinite ==
    \A S \in SUBSET Threads : IsFiniteSet(S) /\ Cardinality(S) \in Nat
<1>1. IsFiniteSet(Threads)
  BY FS_Interval, StateQueueAssumption DEF Threads
<1>. QED
  BY <1>1, FS_Subset, FS_CardinalityType

\* Thread t may join or leave a set of threads.
LEMMA MembersChange ==
    ASSUME NEW t \in Threads, NEW A \in SUBSET Threads, NEW B \in SUBSET Threads,
           \A u \in Threads \ {t} : u \in A <=> u \in B
    PROVE  /\ Cardinality(A) \in Nat /\ Cardinality(B) \in Nat
           /\ (t \in A <=> t \in B) => Cardinality(B) = Cardinality(A)
           /\ t \notin A /\ t \in B => Cardinality(B) = Cardinality(A) + 1
           /\ t \in A /\ t \notin B => Cardinality(B) = Cardinality(A) - 1
<1>1. IsFiniteSet(A) /\ Cardinality(A) \in Nat /\ Cardinality(B) \in Nat
  BY ThreadsFinite
<1>2. (t \in A <=> t \in B) => B = A
  OBVIOUS
<1>3. t \notin A /\ t \in B => B = A \cup {t}
  OBVIOUS
<1>4. t \in A /\ t \notin B => B = A \ {t}
  OBVIOUS
<1>5. t \notin A => Cardinality(A \cup {t}) = Cardinality(A) + 1
  BY <1>1, FS_AddElement
<1>6. t \in A => Cardinality(A \ {t}) = Cardinality(A) - 1
  BY <1>1, FS_RemoveElement
<1>. QED
  BY <1>1, <1>2, <1>3, <1>4, <1>5, <1>6

\* Thread t's part in the numbers of operations that are not counted.
LEMMA UncountedChange ==
    ASSUME NEW t \in Threads, NEW x, th'[t] = x, \A u \in Threads \ {t} : th'[u] = th[u],
           NEW k \in Queues
    PROVE  /\ Cardinality(AddedTo(k)) \in Nat /\ Cardinality(AddedTo(k)') \in Nat
           /\ ((th[t].queue = k /\ Adds(th[t])) <=> (x.queue = k /\ Adds(x)))
                 => Cardinality(AddedTo(k)') = Cardinality(AddedTo(k))
           /\ ~(th[t].queue = k /\ Adds(th[t])) /\ x.queue = k /\ Adds(x)
                 => Cardinality(AddedTo(k)') = Cardinality(AddedTo(k)) + 1
           /\ th[t].queue = k /\ Adds(th[t]) /\ ~(x.queue = k /\ Adds(x))
                 => Cardinality(AddedTo(k)') = Cardinality(AddedTo(k)) - 1
           /\ Cardinality(RemovedFrom(k)) \in Nat /\ Cardinality(RemovedFrom(k)') \in Nat
           /\ ((th[t].queue = k /\ Takes(th[t])) <=> (x.queue = k /\ Takes(x)))
                 => Cardinality(RemovedFrom(k)') = Cardinality(RemovedFrom(k))
           /\ ~(th[t].queue = k /\ Takes(th[t])) /\ x.queue = k /\ Takes(x)
                 => Cardinality(RemovedFrom(k)') = Cardinality(RemovedFrom(k)) + 1
           /\ th[t].queue = k /\ Takes(th[t]) /\ ~(x.queue = k /\ Takes(x))
                 => Cardinality(RemovedFrom(k)') = Cardinality(RemovedFrom(k)) - 1
<1>1. PICK A, B, C, D : A = AddedTo(k) /\ B = AddedTo(k)' /\ C = RemovedFrom(k) /\ D = RemovedFrom(k)'
  OBVIOUS
<1>2. /\ A \in SUBSET Threads /\ B \in SUBSET Threads
      /\ \A u \in Threads \ {t} : u \in A <=> u \in B
      /\ t \in A <=> th[t].queue = k /\ Adds(th[t])
      /\ t \in B <=> x.queue = k /\ Adds(x)
  BY <1>1 DEF AddedTo, Adds
<1>3. /\ C \in SUBSET Threads /\ D \in SUBSET Threads
      /\ \A u \in Threads \ {t} : u \in C <=> u \in D
      /\ t \in C <=> th[t].queue = k /\ Takes(th[t])
      /\ t \in D <=> x.queue = k /\ Takes(x)
  BY <1>1 DEF RemovedFrom, Takes, At
<1>4. /\ Cardinality(A) \in Nat /\ Cardinality(B) \in Nat
      /\ (t \in A <=> t \in B) => Cardinality(B) = Cardinality(A)
      /\ t \notin A /\ t \in B => Cardinality(B) = Cardinality(A) + 1
      /\ t \in A /\ t \notin B => Cardinality(B) = Cardinality(A) - 1
  BY <1>2, MembersChange
<1>5. /\ Cardinality(C) \in Nat /\ Cardinality(D) \in Nat
      /\ (t \in C <=> t \in D) => Cardinality(D) = Cardinality(C)
      /\ t \notin C /\ t \in D => Cardinality(D) = Cardinality(C) + 1
      /\ t \in C /\ t \notin D => Cardinality(D) = Cardinality(C) - 1
  BY <1>3, MembersChange
<1>. QED
  BY <1>1, <1>2, <1>3, <1>4, <1>5

\* A queue stays ahead of a thread if nobody fills it and it is not visited unless empty.
LEMMA AheadStays ==
    ASSUME StillAhead, NEW t \in Threads, NEW x,
           th'[t] = x, \A u \in Threads \ {t} : th'[u] = th[u],
           \A k \in Queues : ends'[k].head # Null => ends[k].head # Null,
           \A k \in Queues :
              k \in Visited(x) => k \in Visited(th[t]) \/ ends'[k].head = Null
    PROVE  StillAhead'
<1>. SUFFICES ASSUME NEW k \in Queues, ends'[k].head # Null
              PROVE  \E u \in Threads : k \notin Visited(th'[u])
  BY DEF StillAhead
<1>1. PICK u \in Threads : k \notin Visited(th[u])
  BY DEF StillAhead
<1>. QED
  BY <1>1

\* A call that has just begun has every queue before it.
LEMMA NoneVisited ==
    ASSUME NEW x, x.queue \in Queues, x.attempts = 0, ~Retrying(x)
    PROVE  Visited(x) = {}
<1>1. \A k \in Queues : ~(Before(k, x.queue) <= 0)
  BY StateQueueAssumption DEF Before, Queues
<1>. QED
  BY <1>1 DEF Visited

\* Every queue is ahead of a thread that has tried none in this call.
LEMMA AllAhead ==
    ASSUME NEW t \in Threads, NEW x, th'[t] = x, x.queue \in Queues, x.attempts = 0, ~Retrying(x)
    PROVE  StillAhead'
BY NoneVisited DEF StillAhead

\* A step of one thread leaves what the others' variables say.
LEMMA AgreeAll ==
    ASSUME \A u \in Threads : CallAgrees(th[u]), NEW t \in Threads, NEW x, CallAgrees(x),
           th'[t] = x, \A u \in Threads \ {t} : th'[u] = th[u]
    PROVE  \A u \in Threads : CallAgrees(th'[u])
OBVIOUS

\* Thread t comes to local variables x, and no state moves.
Quiet(t, x) ==
    /\ UNCHANGED <<count, fresh, explored>>
    /\ x.pc # "dload" /\ x.got = Taken(t)
    /\ CallAgrees(x)
    /\ Offers(x) <=> Offers(th[t])
    /\ Offers(x) => x.s = th[t].s
    /\ Adds(x) <=> Adds(th[t])
    /\ Takes(x) <=> Takes(th[t])
    /\ Adds(x) \/ Takes(x) => x.queue = th[t].queue
    /\ \A k \in Queues : k \in Visited(x) => k \in Visited(th[t]) \/ ends[k].head = Null

\* A step that moves no state keeps the books.
LEMMA BooksStay ==
    ASSUME NEW R, QueueInv(R), NEW w, Order(w), BooksInv, NEW t \in Threads, NEW x,
           th' = [th EXCEPT ![t] = x], MemoryKept(t), Quiet(t, x),
           \A k \in Queues : Contents(k)' = Contents(k),
           \A k \in Queues : ends'[k].head = Null <=> ends[k].head = Null
    PROVE  BooksInv' /\ \A u \in Threads : Taken(u)' = Taken(u)
<1>1. th'[t] = x /\ \A u \in Threads \ {t} : th'[u] = th[u]
  BY OthersSame DEF QueueInv
<1>2. \A u \in Threads : CallAgrees(th'[u])
  BY <1>1, AgreeAll DEF BooksInv, Quiet
<1>3. Taken(t)' = Taken(t)
  BY <1>1 DEF Quiet, Taken, At
<1>4. \A u \in Threads : /\ Taken(u)' = Taken(u)
                         /\ StatesAt(<<"offered", u>>)' = StatesAt(<<"offered", u>>)
                         /\ StatesAt(<<"taken", u>>)' = StatesAt(<<"taken", u>>)
  <2>1. StatesAt(<<"offered", t>>)' = StatesAt(<<"offered", t>>)
    <3>1. /\ StatesAt(<<"offered", t>>) = IF Offers(th[t]) THEN {th[t].s} ELSE {}
          /\ StatesAt(<<"offered", t>>)' = IF Offers(th'[t]) THEN {th'[t].s} ELSE {}
      BY StatesAtPlaces, StatesAtPlacesNext, Zenon
    <3>2. (Offers(x) <=> Offers(th[t])) /\ (Offers(x) => x.s = th[t].s)
      BY Zenon DEF Quiet
    <3>. QED
      BY <1>1, <3>1, <3>2, Zenon
  <2>2. StatesAt(<<"taken", t>>)' = StatesAt(<<"taken", t>>)
    BY <1>3, StatesAtPlaces, StatesAtPlacesNext
  <2>. QED
    BY <1>3, <2>1, <2>2, OthersStay
<1>5. ASSUME NEW k \in Queues PROVE StatesAt(<<"queue", k>>)' = StatesAt(<<"queue", k>>)
  <2>1. PICK C : C = Contents(k) /\ C = Contents(k)'
    OBVIOUS
  <2>2. StatesAt(<<"queue", k>>) = {C[i] : i \in 1..Len(C)}
    BY <2>1, StatesAtPlaces
  <2>3. StatesAt(<<"queue", k>>)' = {C[i] : i \in 1..Len(C)}
    BY <2>1, StatesAtPlacesNext
  <2>. QED
    BY <2>2, <2>3
<1>6. StatesAt(<<"fresh", 0>>)' = StatesAt(<<"fresh", 0>>)
      /\ StatesAt(<<"explored", 0>>)' = StatesAt(<<"explored", 0>>)
  <2>1. UNCHANGED <<fresh, explored>>
    BY DEF Quiet
  <2>. QED
    BY <2>1, StatesAtPlaces, StatesAtPlacesNext, Zenon
<1>7. Placed'
  <2>1. ASSUME NEW p \in Places PROVE StatesAt(p)' = StatesAt(p)
    <3>1. CASE p = <<"fresh", 0>> \/ p = <<"explored", 0>>
      BY <1>6, <3>1, Zenon
    <3>2. CASE \E u \in Threads : p = <<"offered", u>> \/ p = <<"taken", u>>
      BY <1>4, <3>2, Zenon
    <3>3. CASE \E k \in Queues : p = <<"queue", k>>
      BY <1>5, <3>3, Zenon
    <3>. QED
      BY <3>1, <3>2, <3>3, PlacesAre, Zenon
  <2>. QED
    BY <2>1, PlacesSame DEF BooksInv
<1>8. InjectiveQueues'
  BY DEF BooksInv, InjectiveQueues
<1>9. StillAhead'
  BY <1>1, AheadStays DEF BooksInv, Quiet
<1>10. CountsAgree'
  <2>. SUFFICES ASSUME NEW k \in Queues
                PROVE  count'[k] + Cardinality(AddedTo(k)') =
                         Len(Contents(k)') + Cardinality(RemovedFrom(k)')
    BY DEF CountsAgree
  <2>1. Cardinality(AddedTo(k)') = Cardinality(AddedTo(k))
    <3>1. (th[t].queue = k /\ Adds(th[t])) <=> (x.queue = k /\ Adds(x))
      BY DEF Quiet
    <3>. QED
      BY <1>1, <3>1, UncountedChange
  <2>2. Cardinality(RemovedFrom(k)') = Cardinality(RemovedFrom(k))
    <3>1. (th[t].queue = k /\ Takes(th[t])) <=> (x.queue = k /\ Takes(x))
      BY DEF Quiet
    <3>. QED
      BY <1>1, <3>1, UncountedChange
  <2>. QED
    BY <2>1, <2>2 DEF BooksInv, CountsAgree, Quiet
<1>. QED
  BY <1>2, <1>4, <1>7, <1>8, <1>9, <1>10 DEF BooksInv, Quiet

-----------------------------------------------------------------------------
(***************************************************************************)
(* Steps that move a state to another place.                               *)
(***************************************************************************)

\* explore() calls queue_enqueue.
LEMMA OfferBooks ==
    ASSUME NEW R, QueueInv(R), NEW w, Order(w), BooksInv, NEW t \in Threads, NEW x,
           th' = [th EXCEPT ![t] = x], MemoryKept(t),
           NEW s, s \in fresh, fresh' = fresh \ {s}, UNCHANGED <<count, explored>>,
           \A k \in Queues : Contents(k)' = Contents(k),
           ~Offers(th[t]), ~Adds(th[t]), ~Takes(th[t]),
           Offers(x), ~Adds(x), ~Takes(x), x.s = s,
           CallAgrees(x), x.queue \in Queues, x.attempts = 0, ~Retrying(x)
    PROVE  BooksInv' /\ \A u \in Threads : Taken(u)' = Taken(u)
<1>1. th'[t] = x /\ \A u \in Threads \ {t} : th'[u] = th[u]
  BY OthersSame DEF QueueInv
<1>2. \A u \in Threads : CallAgrees(th'[u])
  BY <1>1, AgreeAll DEF BooksInv
<1>3. Taken(t) = Null /\ Taken(t)' = Null
  BY <1>1 DEF Taken, Takes, At
<1>4. ASSUME NEW k \in Queues PROVE StatesAt(<<"queue", k>>)' = StatesAt(<<"queue", k>>)
  <2>1. PICK C : C = Contents(k) /\ C = Contents(k)'
    OBVIOUS
  <2>2. StatesAt(<<"queue", k>>) = {C[i] : i \in 1..Len(C)}
    BY <2>1, StatesAtPlaces
  <2>3. StatesAt(<<"queue", k>>)' = {C[i] : i \in 1..Len(C)}
    BY <2>1, StatesAtPlacesNext
  <2>. QED
    BY <2>2, <2>3
<1>5. /\ StatesAt(<<"fresh", 0>>) = fresh /\ StatesAt(<<"fresh", 0>>)' = fresh \ {s}
      /\ StatesAt(<<"explored", 0>>)' = StatesAt(<<"explored", 0>>)
      /\ StatesAt(<<"offered", t>>) = {} /\ StatesAt(<<"offered", t>>)' = {s}
      /\ StatesAt(<<"taken", t>>)' = StatesAt(<<"taken", t>>)
  BY <1>1, <1>3, StatesAtPlaces, StatesAtPlacesNext
<1>6. \A u \in Threads \ {t} : /\ Taken(u)' = Taken(u)
                               /\ StatesAt(<<"offered", u>>)' = StatesAt(<<"offered", u>>)
                               /\ StatesAt(<<"taken", u>>)' = StatesAt(<<"taken", u>>)
  BY OthersStay
<1>7. Placed'
  <2>1. PICK a \in Places, b \in Places : a = <<"fresh", 0>> /\ b = <<"offered", t>>
    BY PlacesAre
  <2>2. \A p \in Places \ {a, b} : StatesAt(p)' = StatesAt(p)
    <3>1. /\ <<"fresh", 0>> \in {a, b}
          /\ <<"offered", t>> \in {a, b}
      BY <2>1
    <3>2. Elsewhere(t, {a, b})
      BY <1>4, <1>5, <1>6, <3>1 DEF Elsewhere
    <3>. QED
      BY <3>2, OtherPlacesSame, Zenon
  <2>3. /\ a # b /\ s \in StatesAt(a) /\ StatesAt(a)' = StatesAt(a) \ {s}
        /\ StatesAt(b)' = StatesAt(b) \cup {s}
    <3>1. a # b
      BY <2>1
    <3>2. /\ StatesAt(a) = fresh /\ StatesAt(a)' = fresh \ {s}
          /\ StatesAt(b) = {} /\ StatesAt(b)' = {s}
      BY <1>5, <2>1, Zenon
    <3>. QED
      BY <3>1, <3>2
  <2>. QED
    BY <2>2, <2>3, PlacesChange DEF BooksInv
<1>8. InjectiveQueues'
  BY DEF BooksInv, InjectiveQueues
<1>9. StillAhead'
  BY <1>1, AllAhead
<1>10. CountsAgree'
  <2>. SUFFICES ASSUME NEW k \in Queues
                PROVE  count'[k] + Cardinality(AddedTo(k)') =
                         Len(Contents(k)') + Cardinality(RemovedFrom(k)')
    BY DEF CountsAgree
  <2>1. /\ Cardinality(AddedTo(k)') = Cardinality(AddedTo(k))
        /\ Cardinality(RemovedFrom(k)') = Cardinality(RemovedFrom(k))
    BY <1>1, UncountedChange
  <2>. QED
    BY <2>1 DEF BooksInv, CountsAgree
<1>. QED
  BY <1>2, <1>3, <1>6, <1>7, <1>8, <1>9, <1>10 DEF BooksInv

\* The compare-and-swap that adds a state to queue k.
LEMMA AddBooks ==
    ASSUME NEW R, QueueInv(R), NEW w, Order(w), BooksInv, NEW t \in Threads, NEW x,
           th' = [th EXCEPT ![t] = x], MemoryKept(t), UNCHANGED <<count, fresh, explored>>,
           NEW k \in Queues, NEW s, s \in States, NEW C, C \in Seq(States),
           Contents(k) = C, Contents(k)' = Append(C, s),
           \A l \in Queues \ {k} : Contents(l)' = Contents(l),
           Offers(th[t]), ~Adds(th[t]), ~Takes(th[t]), th[t].s = s, th[t].queue = k,
           ~Offers(x), Adds(x), ~Takes(x),
           CallAgrees(x), x.queue = k, x.attempts = 0, ~Retrying(x)
    PROVE  BooksInv' /\ \A u \in Threads : Taken(u)' = Taken(u)
<1>1. th'[t] = x /\ \A u \in Threads \ {t} : th'[u] = th[u]
  BY OthersSame DEF QueueInv
<1>2. \A u \in Threads : CallAgrees(th'[u])
  BY <1>1, AgreeAll DEF BooksInv
<1>3. Taken(t) = Null /\ Taken(t)' = Null
  BY <1>1 DEF Taken, Takes, At
<1>4. PICK D : D = Append(C, s)
  OBVIOUS
<1>5. /\ Len(C) \in Nat /\ Len(D) = Len(C) + 1 /\ D[Len(C) + 1] = s
      /\ \A i \in 1..Len(C) : D[i] = C[i]
  BY <1>4
<1>6. {D[i] : i \in 1..Len(D)} = {C[i] : i \in 1..Len(C)} \cup {s}
  <2>1. \A i \in 1..Len(D) : i \in 1..Len(C) \/ i = Len(C) + 1
    BY <1>5
  <2>2. Len(C) + 1 \in 1..Len(D) /\ \A i \in 1..Len(C) : i \in 1..Len(D)
    BY <1>5
  <2>. QED
    BY <1>5, <2>1, <2>2
<1>7. ASSUME NEW l \in Queues \ {k} PROVE StatesAt(<<"queue", l>>)' = StatesAt(<<"queue", l>>)
  <2>1. PICK B : B = Contents(l) /\ B = Contents(l)'
    OBVIOUS
  <2>2. StatesAt(<<"queue", l>>) = {B[i] : i \in 1..Len(B)}
    BY <2>1, StatesAtPlaces
  <2>3. StatesAt(<<"queue", l>>)' = {B[i] : i \in 1..Len(B)}
    BY <2>1, StatesAtPlacesNext
  <2>. QED
    BY <2>2, <2>3
<1>8. /\ StatesAt(<<"queue", k>>) = {C[i] : i \in 1..Len(C)}
      /\ StatesAt(<<"queue", k>>)' = {D[i] : i \in 1..Len(D)}
  <2>1. StatesAt(<<"queue", k>>) = {C[i] : i \in 1..Len(C)}
    BY StatesAtPlaces
  <2>2. StatesAt(<<"queue", k>>)' = {D[i] : i \in 1..Len(D)}
    <3>1. D = Contents(k)'
      BY <1>4
    <3>2. StatesAt(<<"queue", k>>)' = {Contents(k)'[i] : i \in 1..Len(Contents(k)')}
      BY StatesAtPlacesNext, Zenon
    <3>. QED
      BY <3>1, <3>2, Zenon
  <2>. QED
    BY <2>1, <2>2
<1>9. /\ StatesAt(<<"fresh", 0>>)' = StatesAt(<<"fresh", 0>>)
      /\ StatesAt(<<"explored", 0>>)' = StatesAt(<<"explored", 0>>)
      /\ StatesAt(<<"offered", t>>) = {s} /\ StatesAt(<<"offered", t>>)' = {}
      /\ StatesAt(<<"taken", t>>)' = StatesAt(<<"taken", t>>)
  <2>1. /\ StatesAt(<<"offered", t>>) = IF Offers(th[t]) THEN {th[t].s} ELSE {}
        /\ StatesAt(<<"offered", t>>)' = IF Offers(x) THEN {x.s} ELSE {}
    <3>1. StatesAt(<<"offered", t>>) = IF Offers(th[t]) THEN {th[t].s} ELSE {}
      BY StatesAtPlaces, Zenon
    <3>2. StatesAt(<<"offered", t>>)' = IF Offers(th'[t]) THEN {th'[t].s} ELSE {}
      BY StatesAtPlacesNext, Zenon
    <3>. QED
      BY <1>1, <3>1, <3>2, Zenon
  <2>2. StatesAt(<<"taken", t>>)' = StatesAt(<<"taken", t>>)
    <3>1. StatesAt(<<"taken", t>>) = {Taken(t)} \ {Null}
      BY StatesAtPlaces, Zenon
    <3>2. StatesAt(<<"taken", t>>)' = {Taken(t)'} \ {Null}
      BY StatesAtPlacesNext, Zenon
    <3>. QED
      BY <1>3, <3>1, <3>2
  <2>3. /\ StatesAt(<<"fresh", 0>>)' = StatesAt(<<"fresh", 0>>)
        /\ StatesAt(<<"explored", 0>>)' = StatesAt(<<"explored", 0>>)
    <3>1. fresh' = fresh /\ explored' = explored
      OBVIOUS
    <3>. QED
      BY <3>1, StatesAtPlaces, StatesAtPlacesNext, Zenon
  <2>4. StatesAt(<<"offered", t>>) = {s} /\ StatesAt(<<"offered", t>>)' = {}
    <3>1. StatesAt(<<"offered", t>>) = {s}
      BY <2>1
    <3>2. StatesAt(<<"offered", t>>)' = {}
      BY <2>1
    <3>. QED
      BY <3>1, <3>2
  <2>. QED
    BY <2>2, <2>3, <2>4
<1>10. \A u \in Threads \ {t} : /\ Taken(u)' = Taken(u)
                                /\ StatesAt(<<"offered", u>>)' = StatesAt(<<"offered", u>>)
                                /\ StatesAt(<<"taken", u>>)' = StatesAt(<<"taken", u>>)
  BY OthersStay
<1>11. PICK a \in Places, b \in Places : a = <<"offered", t>> /\ b = <<"queue", k>>
  BY PlacesAre
<1>12. Placed'
  <2>1. \A p \in Places \ {a, b} : StatesAt(p)' = StatesAt(p)
    <3>1. /\ <<"offered", t>> \in {a, b}
          /\ <<"queue", k>> \in {a, b}
      BY <1>11
    <3>2. Elsewhere(t, {a, b})
      BY <1>7, <1>9, <1>10, <3>1 DEF Elsewhere
    <3>. QED
      BY <3>2, OtherPlacesSame, Zenon
  <2>2. /\ a # b /\ s \in StatesAt(a) /\ StatesAt(a)' = StatesAt(a) \ {s}
        /\ StatesAt(b)' = StatesAt(b) \cup {s}
    <3>1. a # b
      BY <1>11
    <3>2. /\ StatesAt(a) = {s} /\ StatesAt(a)' = {}
          /\ StatesAt(b)' = StatesAt(b) \cup {s}
      BY <1>6, <1>8, <1>9, <1>11, Zenon
    <3>. QED
      BY <3>1, <3>2
  <2>. QED
    BY <2>1, <2>2, PlacesChange DEF BooksInv
<1>13. InjectiveQueues'
  <2>. SUFFICES ASSUME NEW l \in Queues, NEW B, B = Contents(l)',
                       NEW i \in 1..Len(B), NEW j \in 1..Len(B), B[i] = B[j]
                PROVE  i = j
    BY DEF InjectiveQueues
  <2>1. CASE l # k
    BY <2>1 DEF BooksInv, InjectiveQueues
  <2>2. CASE l = k
    <3>1. B = D
      BY <1>4, <2>2
    <3>2. s \notin {C[n] : n \in 1..Len(C)}
      <4>1. a # b /\ Placed
        BY <1>11 DEF BooksInv
      <4>2. StatesAt(a) \cap StatesAt(b) = {}
        BY <4>1, PlacesApart
      <4>. QED
        BY <1>8, <1>9, <1>11, <4>2
    <3>3. \A m, n \in 1..Len(C) : C[m] = C[n] => m = n
      BY DEF BooksInv, InjectiveQueues
    <3>4. /\ i \in 1..Len(C) \/ i = Len(C) + 1
          /\ j \in 1..Len(C) \/ j = Len(C) + 1
      BY <1>5, <3>1
    <3>. QED
      BY <1>5, <3>1, <3>2, <3>3, <3>4
  <2>. QED
    BY <2>1, <2>2
<1>14. StillAhead'
  BY <1>1, AllAhead
<1>15. CountsAgree'
  <2>. SUFFICES ASSUME NEW l \in Queues
                PROVE  count'[l] + Cardinality(AddedTo(l)') =
                         Len(Contents(l)') + Cardinality(RemovedFrom(l)')
    BY DEF CountsAgree
  <2>1. /\ Cardinality(RemovedFrom(l)') = Cardinality(RemovedFrom(l))
        /\ Cardinality(AddedTo(l)) \in Nat /\ Cardinality(RemovedFrom(l)) \in Nat
        /\ l = k => Cardinality(AddedTo(l)') = Cardinality(AddedTo(l)) + 1
        /\ l # k => Cardinality(AddedTo(l)') = Cardinality(AddedTo(l))
    BY <1>1, UncountedChange
  <2>2. count[l] \in Int
    BY DEF BooksInv
  <2>3. CASE l # k
    BY <2>1, <2>3 DEF BooksInv, CountsAgree
  <2>4. CASE l = k
    <3>1. Len(Contents(l)') = Len(C) + 1 /\ Len(Contents(l)) = Len(C)
      BY <1>4, <1>5, <2>4
    <3>2. count[l] + Cardinality(AddedTo(l)) = Len(C) + Cardinality(RemovedFrom(l))
      BY <3>1 DEF BooksInv, CountsAgree
    <3>3. PICK c, n, m, L : /\ c = count[l] /\ n = Cardinality(AddedTo(l))
                            /\ m = Cardinality(RemovedFrom(l)) /\ L = Len(C)
      OBVIOUS
    <3>4. c \in Int /\ n \in Nat /\ m \in Nat /\ L \in Nat /\ c + n = L + m
      BY <1>5, <2>1, <2>2, <3>2, <3>3
    <3>5. c + (n + 1) = (L + 1) + m
      BY <3>4
    <3>6. count'[l] = c
      BY <3>3
    <3>. QED
      BY <2>1, <2>4, <3>1, <3>3, <3>5, <3>6
  <2>. QED
    BY <2>3, <2>4
<1>. QED
  BY <1>2, <1>3, <1>10, <1>12, <1>13, <1>14, <1>15 DEF BooksInv

\* Queues whose states stay where they are.
LEMMA QueuePlaceSame ==
    ASSUME NEW k \in Queues, Contents(k)' = Contents(k)
    PROVE  StatesAt(<<"queue", k>>)' = StatesAt(<<"queue", k>>)
<1>1. PICK C : C = Contents(k) /\ C = Contents(k)'
  OBVIOUS
<1>2. StatesAt(<<"queue", k>>) = {C[i] : i \in 1..Len(C)}
  BY <1>1, StatesAtPlaces
<1>3. StatesAt(<<"queue", k>>)' = {C[i] : i \in 1..Len(C)}
  BY <1>1, StatesAtPlacesNext
<1>. QED
  BY <1>2, <1>3

\* The compare-and-swap that removes the first state of queue k.
LEMMA TakeBooks ==
    ASSUME NEW R, QueueInv(R), NEW w, Order(w), BooksInv, NEW t \in Threads, NEW x,
           th' = [th EXCEPT ![t] = x], MemoryKept(t), UNCHANGED <<count, fresh, explored>>,
           NEW k \in Queues, NEW C, C \in Seq(States), C # <<>>,
           Contents(k) = C, Contents(k)' = Tail(C),
           \A l \in Queues \ {k} : Contents(l)' = Contents(l),
           \A l \in Queues : ends'[l].head # Null => ends[l].head # Null,
           ~Offers(th[t]), ~Adds(th[t]), ~Takes(th[t]), th[t].queue = k,
           ~Offers(x), ~Adds(x), x.pc = "dload", Load(x.ends.head)' = Head(C),
           CallAgrees(x), x.queue = k, Visited(x) \subseteq Visited(th[t])
    PROVE  /\ BooksInv'
           /\ Taken(t) = Null /\ Taken(t)' = Head(C)
           /\ \A u \in Threads \ {t} : Taken(u)' = Taken(u)
<1>1. th'[t] = x /\ \A u \in Threads \ {t} : th'[u] = th[u]
  BY OthersSame DEF QueueInv
<1>2. \A u \in Threads : CallAgrees(th'[u])
  BY <1>1, AgreeAll DEF BooksInv
<1>3. PICK D, s : D = Tail(C) /\ s = Head(C)
  OBVIOUS
<1>4. /\ Len(C) \in Nat /\ Len(C) >= 1 /\ Len(D) = Len(C) - 1 /\ C[1] = s /\ s \in States
      /\ \A i \in 1..Len(D) : D[i] = C[i+1]
  BY <1>3
<1>5. s # Null
  BY <1>4, StateQueueAssumption
<1>6. Taken(t) = Null /\ Taken(t)' = s
  <2>1. Taken(t) = Null
    BY DEF Taken, Takes, At
  <2>2. mem'[x.ends.head[1]][x.ends.head[2]] = s
    BY <1>3 DEF Load
  <2>. QED
    BY <1>1, <2>1, <2>2 DEF Taken, At, Load
<1>7. \A m, n \in 1..Len(C) : C[m] = C[n] => m = n
  BY DEF BooksInv, InjectiveQueues
<1>8. {D[i] : i \in 1..Len(D)} = {C[i] : i \in 1..Len(C)} \ {s}
  <2>1. \A i \in 1..Len(D) : i + 1 \in 1..Len(C) /\ i + 1 # 1
    BY <1>4
  <2>2. 1 \in 1..Len(C)
    BY <1>4
  <2>3. \A i \in 1..Len(D) : D[i] # s
    BY <1>4, <1>7, <2>1, <2>2
  <2>4. ASSUME NEW i \in 1..Len(C), C[i] # s PROVE \E j \in 1..Len(D) : D[j] = C[i]
    <3>1. i # 1
      BY <1>4, <2>4
    <3>2. PICK j : j = i - 1
      OBVIOUS
    <3>3. j \in 1..Len(D) /\ j + 1 = i
      BY <1>4, <3>1, <3>2
    <3>. QED
      BY <1>4, <3>3
  <2>5. {D[i] : i \in 1..Len(D)} \subseteq {C[i] : i \in 1..Len(C)} \ {s}
    BY <1>4, <2>1, <2>3
  <2>6. {C[i] : i \in 1..Len(C)} \ {s} \subseteq {D[i] : i \in 1..Len(D)}
    BY <2>4
  <2>. QED
    BY <2>5, <2>6
<1>9. StatesAt(<<"queue", k>>) = {C[i] : i \in 1..Len(C)}
  BY StatesAtPlaces
<1>10. StatesAt(<<"queue", k>>)' = {D[i] : i \in 1..Len(D)}
  <2>1. D = Contents(k)'
    BY <1>3
  <2>. QED
    BY ZenonT(40), <2>1, StatesAtPlacesNext
<1>11. \A l \in Queues \ {k} : StatesAt(<<"queue", l>>)' = StatesAt(<<"queue", l>>)
  BY QueuePlaceSame
<1>12. /\ StatesAt(<<"fresh", 0>>)' = StatesAt(<<"fresh", 0>>)
       /\ StatesAt(<<"explored", 0>>)' = StatesAt(<<"explored", 0>>)
       /\ StatesAt(<<"taken", t>>) = {} /\ StatesAt(<<"taken", t>>)' = {s}
       /\ StatesAt(<<"offered", t>>)' = StatesAt(<<"offered", t>>)
  BY <1>1, <1>5, <1>6, StatesAtPlaces, StatesAtPlacesNext
<1>13. \A u \in Threads \ {t} : /\ Taken(u)' = Taken(u)
                                /\ StatesAt(<<"offered", u>>)' = StatesAt(<<"offered", u>>)
                                /\ StatesAt(<<"taken", u>>)' = StatesAt(<<"taken", u>>)
  BY OthersStay
<1>14. Placed'
  <2>1. PICK a \in Places, b \in Places : a = <<"queue", k>> /\ b = <<"taken", t>>
    BY PlacesAre
  <2>2. \A p \in Places \ {a, b} : StatesAt(p)' = StatesAt(p)
    <3>1. /\ <<"queue", k>> \in {a, b}
          /\ <<"taken", t>> \in {a, b}
      BY <2>1
    <3>2. Elsewhere(t, {a, b})
      BY <1>11, <1>12, <1>13, <3>1 DEF Elsewhere
    <3>. QED
      BY <3>2, OtherPlacesSame, Zenon
  <2>3. s \in {C[i] : i \in 1..Len(C)}
    BY <1>4
  <2>4. /\ a # b /\ s \in StatesAt(a) /\ StatesAt(a)' = StatesAt(a) \ {s}
        /\ StatesAt(b)' = StatesAt(b) \cup {s}
    BY <1>8, <1>9, <1>10, <1>12, <2>1, <2>3
  <2>. QED
    BY <2>2, <2>4, PlacesChange DEF BooksInv
<1>15. InjectiveQueues'
  <2>. SUFFICES ASSUME NEW l \in Queues, NEW B, B = Contents(l)',
                       NEW i \in 1..Len(B), NEW j \in 1..Len(B), B[i] = B[j]
                PROVE  i = j
    BY DEF InjectiveQueues
  <2>1. CASE l # k
    BY <2>1 DEF BooksInv, InjectiveQueues
  <2>2. CASE l = k
    <3>1. B = D
      BY <1>3, <2>2
    <3>2. i + 1 \in 1..Len(C) /\ j + 1 \in 1..Len(C) /\ C[i+1] = C[j+1]
      BY <1>4, <3>1
    <3>3. i + 1 = j + 1
      BY <1>7, <3>2
    <3>. QED
      BY <1>4, <3>1, <3>3
  <2>. QED
    BY <2>1, <2>2
<1>16. StillAhead'
  BY <1>1, AheadStays DEF BooksInv
<1>17. CountsAgree'
  <2>. SUFFICES ASSUME NEW l \in Queues
                PROVE  count'[l] + Cardinality(AddedTo(l)') =
                         Len(Contents(l)') + Cardinality(RemovedFrom(l)')
    BY DEF CountsAgree
  <2>1. /\ Cardinality(AddedTo(l)') = Cardinality(AddedTo(l))
        /\ Cardinality(AddedTo(l)) \in Nat /\ Cardinality(RemovedFrom(l)) \in Nat
        /\ l = k => Cardinality(RemovedFrom(l)') = Cardinality(RemovedFrom(l)) + 1
        /\ l # k => Cardinality(RemovedFrom(l)') = Cardinality(RemovedFrom(l))
    <3>1. Takes(x)
      BY DEF Takes
    <3>. QED
      BY <1>1, <3>1, UncountedChange
  <2>2. count[l] \in Int
    BY DEF BooksInv
  <2>3. CASE l # k
    BY <2>1, <2>3 DEF BooksInv, CountsAgree
  <2>4. CASE l = k
    <3>1. Len(Contents(l)') = Len(C) - 1 /\ Len(Contents(l)) = Len(C)
      BY <1>3, <1>4, <2>4
    <3>2. count[l] + Cardinality(AddedTo(l)) = Len(C) + Cardinality(RemovedFrom(l))
      BY <3>1 DEF BooksInv, CountsAgree
    <3>3. PICK c, n, m, L : /\ c = count[l] /\ n = Cardinality(AddedTo(l))
                            /\ m = Cardinality(RemovedFrom(l)) /\ L = Len(C)
      OBVIOUS
    <3>4. c \in Int /\ n \in Nat /\ m \in Nat /\ L \in Nat /\ c + n = L + m
      BY <1>4, <2>1, <2>2, <3>2, <3>3
    <3>5. c + n = (L - 1) + (m + 1)
      BY <3>4
    <3>6. count'[l] = c
      BY <3>3
    <3>. QED
      BY SMTT(30), <2>1, <2>4, <3>1, <3>3, <3>5, <3>6
  <2>. QED
    BY <2>3, <2>4
<1>. QED
  BY <1>2, <1>3, <1>6, <1>13, <1>14, <1>15, <1>16, <1>17 DEF BooksInv

\* queue_enqueue returns.
LEMMA CountBooks ==
    ASSUME NEW R, QueueInv(R), NEW w, Order(w), BooksInv, NEW t \in Threads, NEW x,
           th' = [th EXCEPT ![t] = x], MemoryKept(t), UNCHANGED <<fresh, explored>>,
           \A k \in Queues : Contents(k)' = Contents(k),
           ~Offers(th[t]), Adds(th[t]), ~Takes(th[t]),
           count' = [count EXCEPT ![th[t].queue] = @ + 1],
           ~Offers(x), ~Adds(x), ~Takes(x),
           CallAgrees(x), x.queue \in Queues, x.attempts = 0, ~Retrying(x)
    PROVE  BooksInv' /\ \A u \in Threads : Taken(u)' = Taken(u)
<1>1. th'[t] = x /\ \A u \in Threads \ {t} : th'[u] = th[u]
  BY OthersSame DEF QueueInv
<1>2. \A u \in Threads : CallAgrees(th'[u])
  BY <1>1, AgreeAll DEF BooksInv
<1>3. Taken(t) = Null /\ Taken(t)' = Null
  BY <1>1 DEF Taken, Takes, At
<1>4. \A k \in Queues : StatesAt(<<"queue", k>>)' = StatesAt(<<"queue", k>>)
  BY QueuePlaceSame
<1>5. /\ StatesAt(<<"fresh", 0>>)' = StatesAt(<<"fresh", 0>>)
      /\ StatesAt(<<"explored", 0>>)' = StatesAt(<<"explored", 0>>)
      /\ StatesAt(<<"taken", t>>)' = StatesAt(<<"taken", t>>)
      /\ StatesAt(<<"offered", t>>)' = StatesAt(<<"offered", t>>)
  BY <1>1, <1>3, StatesAtPlaces, StatesAtPlacesNext
<1>6. \A u \in Threads \ {t} : /\ Taken(u)' = Taken(u)
                               /\ StatesAt(<<"offered", u>>)' = StatesAt(<<"offered", u>>)
                               /\ StatesAt(<<"taken", u>>)' = StatesAt(<<"taken", u>>)
  BY OthersStay
<1>7. Placed'
  <2>1. ASSUME NEW p \in Places PROVE StatesAt(p)' = StatesAt(p)
    <3>1. CASE \E k \in Queues : p = <<"queue", k>>
      BY <1>4, <3>1
    <3>2. CASE \E u \in Threads : p = <<"offered", u>> \/ p = <<"taken", u>>
      BY <1>5, <1>6, <3>2
    <3>. QED
      BY <1>5, <3>1, <3>2, PlacesAre
  <2>. QED
    BY <2>1, PlacesSame DEF BooksInv
<1>8. InjectiveQueues'
  BY DEF BooksInv, InjectiveQueues
<1>9. StillAhead'
  BY <1>1, AllAhead
<1>10. /\ count' \in [Queues -> Int]
       /\ \A k \in Queues : count'[k] = IF k = th[t].queue THEN count[k] + 1 ELSE count[k]
  <2>1. count \in [Queues -> Int]
    BY DEF BooksInv
  <2>2. PICK q \in Queues : q = th[t].queue
    BY LocalsTyped DEF Locals
  <2>3. PICK c \in Int : c = count[q] + 1
    BY <2>1
  <2>4. count' = [count EXCEPT ![q] = c]
    BY <2>2, <2>3
  <2>. QED
    BY <2>1, <2>2, <2>3, <2>4
<1>11. CountsAgree'
  <2>. SUFFICES ASSUME NEW l \in Queues
                PROVE  count'[l] + Cardinality(AddedTo(l)') =
                         Len(Contents(l)') + Cardinality(RemovedFrom(l)')
    BY DEF CountsAgree
  <2>1. /\ Cardinality(RemovedFrom(l)') = Cardinality(RemovedFrom(l))
        /\ Cardinality(AddedTo(l)) \in Nat
        /\ l = th[t].queue => Cardinality(AddedTo(l)') = Cardinality(AddedTo(l)) - 1
        /\ l # th[t].queue => Cardinality(AddedTo(l)') = Cardinality(AddedTo(l))
    BY <1>1, UncountedChange
  <2>2. count'[l] + Cardinality(AddedTo(l)') = count[l] + Cardinality(AddedTo(l))
    <3>1. PICK c \in Int, n \in Nat : c = count[l] /\ n = Cardinality(AddedTo(l))
      BY <2>1 DEF BooksInv
    <3>2. (c + 1) + (n - 1) = c + n
      BY <3>1
    <3>. QED
      BY <1>10, <2>1, <3>1, <3>2
  <2>. QED
    BY <2>1, <2>2 DEF BooksInv, CountsAgree
<1>. QED
  BY <1>2, <1>3, <1>6, <1>7, <1>8, <1>9, <1>10, <1>11 DEF BooksInv

\* queue_dequeue returns state s.
LEMMA ReturnBooks ==
    ASSUME NEW R, QueueInv(R), NEW w, Order(w), BooksInv, NEW t \in Threads, NEW x,
           th' = [th EXCEPT ![t] = x], MemoryKept(t), UNCHANGED fresh,
           \A k \in Queues : Contents(k)' = Contents(k),
           ~Offers(th[t]), ~Adds(th[t]), th[t].pc # "dload", th[t].got # Null,
           NEW s, s = th[t].got, explored' = explored \cup {s},
           count' = [count EXCEPT ![th[t].queue] = @ - 1],
           ~Offers(x), ~Adds(x), ~Takes(x),
           CallAgrees(x), x.queue \in Queues, x.attempts = 0, ~Retrying(x)
    PROVE  /\ BooksInv'
           /\ Taken(t) = s /\ s \in States /\ s \notin explored /\ Taken(t)' = Null
           /\ \A u \in Threads \ {t} : Taken(u)' = Taken(u)
<1>1. th'[t] = x /\ \A u \in Threads \ {t} : th'[u] = th[u]
  BY OthersSame DEF QueueInv
<1>2. \A u \in Threads : CallAgrees(th'[u])
  BY <1>1, AgreeAll DEF BooksInv
<1>3. Taken(t) = s /\ Taken(t)' = Null
  BY <1>1 DEF Taken, Takes, At
<1>4. \A k \in Queues : StatesAt(<<"queue", k>>)' = StatesAt(<<"queue", k>>)
  BY QueuePlaceSame
<1>5. /\ StatesAt(<<"fresh", 0>>)' = StatesAt(<<"fresh", 0>>)
      /\ StatesAt(<<"explored", 0>>)' = StatesAt(<<"explored", 0>>) \cup {s}
      /\ StatesAt(<<"explored", 0>>) = explored
      /\ StatesAt(<<"taken", t>>) = {s} /\ StatesAt(<<"taken", t>>)' = {}
      /\ StatesAt(<<"offered", t>>)' = StatesAt(<<"offered", t>>)
  BY <1>1, <1>3, StatesAtPlaces, StatesAtPlacesNext
<1>6. \A u \in Threads \ {t} : /\ Taken(u)' = Taken(u)
                               /\ StatesAt(<<"offered", u>>)' = StatesAt(<<"offered", u>>)
                               /\ StatesAt(<<"taken", u>>)' = StatesAt(<<"taken", u>>)
  BY OthersStay
<1>7. PICK a \in Places, b \in Places : a = <<"taken", t>> /\ b = <<"explored", 0>>
  BY PlacesAre
<1>8. Placed'
  <2>1. \A p \in Places \ {a, b} : StatesAt(p)' = StatesAt(p)
    <3>1. /\ <<"taken", t>> \in {a, b}
          /\ <<"explored", 0>> \in {a, b}
      BY <1>7
    <3>2. Elsewhere(t, {a, b})
      BY <1>4, <1>5, <1>6, <3>1 DEF Elsewhere
    <3>. QED
      BY <3>2, OtherPlacesSame, Zenon
  <2>2. /\ a # b /\ s \in StatesAt(a) /\ StatesAt(a)' = StatesAt(a) \ {s}
        /\ StatesAt(b)' = StatesAt(b) \cup {s}
    BY <1>5, <1>7
  <2>. QED
    BY <2>1, <2>2, PlacesChange DEF BooksInv
<1>9. s \in States /\ s \notin explored
  <2>1. StatesAt(a) \cap StatesAt(b) = {} /\ StatesAt(a) \subseteq States
    <3>1. a # b
      BY <1>7
    <3>. QED
      BY <3>1, PlacesApart DEF BooksInv
  <2>. QED
    BY <1>5, <1>7, <2>1
<1>10. InjectiveQueues'
  BY DEF BooksInv, InjectiveQueues
<1>11. StillAhead'
  BY <1>1, AllAhead
<1>12. /\ count' \in [Queues -> Int]
       /\ \A k \in Queues : count'[k] = IF k = th[t].queue THEN count[k] - 1 ELSE count[k]
  <2>1. count \in [Queues -> Int]
    BY DEF BooksInv
  <2>2. PICK q \in Queues : q = th[t].queue
    BY LocalsTyped DEF Locals
  <2>3. PICK c \in Int : c = count[q] - 1
    BY <2>1
  <2>4. count' = [count EXCEPT ![q] = c]
    BY <2>2, <2>3
  <2>. QED
    BY <2>1, <2>2, <2>3, <2>4
<1>13. CountsAgree'
  <2>. SUFFICES ASSUME NEW l \in Queues
                PROVE  count'[l] + Cardinality(AddedTo(l)') =
                         Len(Contents(l)') + Cardinality(RemovedFrom(l)')
    BY DEF CountsAgree
  <2>1. /\ Cardinality(AddedTo(l)') = Cardinality(AddedTo(l))
        /\ Cardinality(AddedTo(l)) \in Nat /\ Cardinality(RemovedFrom(l)) \in Nat
        /\ l = th[t].queue => Cardinality(RemovedFrom(l)') = Cardinality(RemovedFrom(l)) - 1
        /\ l # th[t].queue => Cardinality(RemovedFrom(l)') = Cardinality(RemovedFrom(l))
    <3>1. Takes(th[t])
      BY DEF Takes
    <3>. QED
      BY <1>1, <3>1, UncountedChange
  <2>2. PICK L : L = Len(Contents(l))
    OBVIOUS
  <2>3. PICK c \in Int, n \in Nat, m \in Nat :
           /\ c = count[l] /\ n = Cardinality(AddedTo(l)) /\ m = Cardinality(RemovedFrom(l))
    BY <2>1 DEF BooksInv
  <2>4. L \in Nat
    <3>1. PICK v : v = w
      OBVIOUS
    <3>. QED
      BY <2>2, ContentsAre DEF Order, Walks, Walk
  <2>5. c + n = L + m
    BY <2>2, <2>3 DEF BooksInv, CountsAgree
  <2>6. (c - 1) + n = L + (m - 1)
    BY <2>3, <2>4, <2>5
  <2>7. count'[l] = IF l = th[t].queue THEN c - 1 ELSE c
    BY <1>12, <2>3
  <2>8. Len(Contents(l)') = L
    BY <2>2
  <2>. QED
    BY <2>1, <2>3, <2>5, <2>6, <2>7, <2>8
<1>. QED
  BY <1>2, <1>3, <1>6, <1>8, <1>9, <1>10, <1>11, <1>12, <1>13 DEF BooksInv

-----------------------------------------------------------------------------
(***************************************************************************)
(* Steps that move no state.                                               *)
(***************************************************************************)

\* Where the thread goes when reclaim has returned, too.
Aim(l) == IF Reclaiming(l) THEN l.after ELSE Goal(l)

\* What a thread is up to follows from where it is going.
LEMMA AimSays ==
    ASSUME NEW l, LocalsAgree(l), l.pc # "unhazard" => l.then = "idle"
    PROVE  /\ Counting(l) <=> Aim(l) = "dcount"
           /\ Retrying(l) <=> Aim(l) = "dretry"
           /\ Offers(l) <=> Aim(l) \in {"eread", "efirst"} \cup EnqueueGoals
           /\ Adds(l) <=> Aim(l) = "ecount"
           /\ Enqueuing(l) <=> Aim(l) \in {"idle", "eread", "efirst", "ecount"} \cup EnqueueGoals
           /\ l.pc = "done" <=> Aim(l) = "done"
<1>1. Reclaiming(l) => l.after \in {"dretry", "dcount"}
  BY DEF LocalsAgree, Reclaiming
<1>2. l.pc = "unhazard" =>
        l.then \in {"efirst", "ehazard", "ecount", "dretry", "reclaim", "dcount"}
  BY DEF LocalsAgree
<1>3. CASE Reclaiming(l)
  <2>1. Goal(l) \in {"rold", "rnew", "rdefer", "reclaim"}
    BY <1>3 DEF Reclaiming, Goal
  <2>2. \/ l.pc \in {"rold", "rnew", "rdefer", "reclaim"}
        \/ l.pc = "unhazard" /\ l.then = "reclaim"
    BY <1>3 DEF Reclaiming, Goal
  <2>. QED
    BY <1>1, <1>3, <2>1, <2>2
       DEF Aim, Counting, Retrying, Offers, Adds, Enqueuing, EnqueueGoals
<1>4. CASE ~Reclaiming(l)
  <2>1. Aim(l) = Goal(l)
    BY <1>4 DEF Aim
  <2>2. CASE l.pc = "unhazard"
    BY <1>2, <1>4, <2>1, <2>2
       DEF Goal, Counting, Retrying, Offers, Adds, Enqueuing, EnqueueGoals
  <2>3. CASE l.pc # "unhazard"
    BY <1>4, <2>1, <2>3
       DEF Goal, Counting, Retrying, Offers, Adds, Enqueuing, EnqueueGoals
  <2>. QED
    BY <2>2, <2>3
<1>. QED
  BY <1>3, <1>4

\* The thread goes where it went before.
LEMMA SameAim ==
    ASSUME NEW t \in Threads, CallAgrees(th[t]), LocalsAgree(th[t]), th[t].pc # "dload",
           NEW x, LocalsAgree(x), x.pc # "dload", x.pc # "unhazard" => x.then = "idle",
           Aim(x) = Aim(th[t]), x.victim # Null => Reclaiming(x),
           x.queue = th[t].queue, x.s = th[t].s, x.attempts = th[t].attempts,
           x.got = th[t].got, Retrying(th[t]) => x.old = th[t].old,
           UNCHANGED <<count, fresh, explored>>
    PROVE  Quiet(t, x)
<1>1. PICK l : l = th[t]
  OBVIOUS
<1>2. l.pc # "unhazard" => l.then = "idle"
  BY <1>1 DEF CallAgrees
<1>3. /\ Counting(x) <=> Counting(l)
      /\ Retrying(x) <=> Retrying(l)
      /\ Offers(x) <=> Offers(l)
      /\ Adds(x) <=> Adds(l)
      /\ Enqueuing(x) <=> Enqueuing(l)
      /\ x.pc = "done" <=> l.pc = "done"
  BY <1>1, <1>2, AimSays
<1>4. CallAgrees(x)
  BY <1>1, <1>3 DEF CallAgrees
<1>5. Visited(x) \subseteq Visited(l)
  BY <1>1, <1>3 DEF Visited
<1>. QED
  BY <1>1, <1>3, <1>4, <1>5 DEF Quiet, Taken, At, Takes

\* queue_enqueue goes on.
LEMMA EnqueuerQuiet ==
    ASSUME NEW t \in Threads, CallAgrees(th[t]), LocalsAgree(th[t]), Offers(th[t]),
           NEW x, LocalsAgree(x), Offers(x), x.pc # "unhazard" => x.then = "idle",
           x.queue \in Queues, x.s = th[t].s, x.attempts = th[t].attempts,
           x.got = th[t].got, x.victim = th[t].victim,
           UNCHANGED <<count, fresh, explored>>
    PROVE  Quiet(t, x)
<1>1. PICK l : l = th[t]
  OBVIOUS
<1>2. l.pc # "unhazard" => l.then = "idle"
  BY <1>1 DEF CallAgrees
<1>3. /\ ~Counting(l) /\ ~Retrying(l) /\ Enqueuing(l) /\ ~Adds(l) /\ l.pc # "done"
      /\ ~Counting(x) /\ ~Retrying(x) /\ Enqueuing(x) /\ ~Adds(x) /\ x.pc # "done"
  BY <1>1, <1>2, AimSays DEF EnqueueGoals
<1>4. ~Reclaiming(l) /\ l.pc # "dload" /\ x.pc # "dload"
  BY <1>1 DEF Offers, Reclaiming, Goal, EnqueueGoals
<1>5. l.got = Null /\ l.victim = Null /\ l.attempts = 0
  BY <1>1, <1>3, <1>4 DEF CallAgrees
<1>6. CallAgrees(x)
  BY <1>1, <1>3, <1>5, StateQueueAssumption DEF CallAgrees
<1>7. Visited(x) = {}
  BY <1>1, <1>3, <1>5, NoneVisited
<1>. QED
  BY <1>1, <1>3, <1>4, <1>5, <1>6, <1>7 DEF Quiet, Taken, At, Takes

\* queue_dequeue goes on with the queue it is at.
DequeueAims == {"dread", "dhazard", "dcheck", "dnext", "dskip", "dcas", "dretry"}

\* A dequeuer that goes on with the same queue moves no state.
LEMMA DequeuerQuiet ==
    ASSUME NEW t \in Threads, CallAgrees(th[t]), LocalsAgree(th[t]),
           Aim(th[t]) \in {"idle"} \cup DequeueAims,
           NEW x, LocalsAgree(x), Aim(x) \in DequeueAims,
           x.pc # "unhazard" => x.then = "idle",
           x.queue = th[t].queue, x.attempts = th[t].attempts, x.got = th[t].got,
           x.victim # Null => Reclaiming(x),
           Retrying(x) /\ x.old.head = Null => ends[x.queue].head = Null,
           UNCHANGED <<count, fresh, explored>>
    PROVE  Quiet(t, x)
<1>1. PICK l : l = th[t]
  OBVIOUS
<1>2. l.pc # "unhazard" => l.then = "idle"
  BY <1>1 DEF CallAgrees
<1>3. /\ ~Counting(l) /\ ~Adds(l) /\ ~Offers(l) /\ l.pc # "done" /\ l.pc # "dload"
      /\ ~Counting(x) /\ ~Adds(x) /\ ~Offers(x) /\ x.pc # "done" /\ x.pc # "dload"
      /\ ~Enqueuing(x)
  <2>1. \A y : y.pc = "dload" => Aim(y) = "dload"
    BY DEF Aim, Reclaiming, Goal
  <2>. QED
    BY <1>1, <1>2, <2>1, AimSays DEF EnqueueGoals, DequeueAims
<1>4. l.got = Null
  BY <1>1, <1>3 DEF CallAgrees
<1>5. CallAgrees(x)
  BY <1>1, <1>3, <1>4 DEF CallAgrees
<1>6. \A k \in Visited(x) : k \in Visited(l) \/ ends[k].head = Null
  BY <1>1 DEF Visited
<1>. QED
  BY <1>1, <1>3, <1>4, <1>5, <1>6 DEF Quiet, Taken, At, Takes

\* queue_dequeue goes on to the next queue, (queue_id + 1) % THREADS.
LEMMA NextQueue ==
    ASSUME NEW q \in Queues
    PROVE  /\ (q + 1) % THREADS \in Queues
           /\ \A k \in Queues : k # q => Before(k, (q + 1) % THREADS) = Before(k, q) + 1
<1>1. THREADS \in Nat \ {0, 1} /\ q \in Nat /\ q < THREADS
  BY StateQueueAssumption DEF Queues
<1>2. PICK n : n = (q + 1) % THREADS
  OBVIOUS
<1>3. n = IF q + 1 = THREADS THEN 0 ELSE q + 1
  BY <1>1, <1>2
<1>4. n \in Queues
  BY <1>1, <1>3 DEF Queues
<1>5. ASSUME NEW k \in Queues, k # q PROVE Before(k, n) = Before(k, q) + 1
  <2>1. k \in Nat /\ k < THREADS
    BY <1>1 DEF Queues
  <2>2. CASE q + 1 = THREADS
    <3>1. n = 0 /\ k < q
      BY <1>1, <1>3, <1>5, <2>1, <2>2
    <3>2. ~(k < n)
      BY <2>1, <3>1
    <3>. QED
      BY <1>1, <2>1, <2>2, <3>1, <3>2 DEF Before
  <2>3. CASE q + 1 # THREADS /\ k < q
    <3>1. n = q + 1 /\ k < n
      BY <1>1, <1>3, <2>1, <2>3
    <3>. QED
      BY <1>1, <2>1, <2>3, <3>1 DEF Before
  <2>4. CASE q + 1 # THREADS /\ ~(k < q)
    <3>1. n = q + 1 /\ ~(k < n)
      BY <1>1, <1>3, <1>5, <2>1, <2>4
    <3>. QED
      BY <1>1, <2>1, <2>4, <3>1 DEF Before
  <2>. QED
    BY <2>2, <2>3, <2>4
<1>. QED
  BY <1>2, <1>4, <1>5

\* The branch after "retry:", for a thread with local variables l.
LEMMA RetryVisits ==
    ASSUME NEW l \in Locals, l.then = "idle", l.got = Null, l.victim = Null,
           l.attempts \in 0..THREADS-1, NEW e \in Ends, NEW x, x = DequeueRetry(l, e)
    PROVE  /\ CallAgrees(x) /\ ~Offers(x) /\ ~Adds(x) /\ ~Takes(x) /\ x.got = Null
           /\ x.pc \in {"dhazard", "dread", "done"}
           /\ \A k \in Queues : k \in Visited(x) =>
                 \/ Before(k, l.queue) <= l.attempts
                 \/ k = l.queue /\ e.head = Null
<1>0. l.queue \in Queues /\ THREADS \in Nat \ {0, 1} /\ l.attempts \in Nat
  BY StateQueueAssumption DEF Locals
<1>1. CASE e.head # Null
  <2>1. x = [l EXCEPT !.ends = e, !.pc = "dhazard"]
    BY <1>1 DEF DequeueRetry
  <2>2. /\ x.pc = "dhazard" /\ x.then = "idle" /\ x.got = Null /\ x.victim = Null
        /\ x.queue = l.queue /\ x.attempts = l.attempts
    BY ZenonT(40), <2>1 DEF Locals
  <2>3. ~Reclaiming(x) /\ Goal(x) = "dhazard"
    BY <2>2 DEF Reclaiming, Goal
  <2>4. ~Counting(x) /\ ~Retrying(x) /\ ~Enqueuing(x) /\ ~Offers(x) /\ ~Adds(x) /\ ~Takes(x)
    BY <2>2, <2>3 DEF Counting, Retrying, Enqueuing, Offers, Adds, Takes, EnqueueGoals
  <2>5. CallAgrees(x)
    BY <1>0, <2>2, <2>4 DEF CallAgrees
  <2>6. \A k \in Visited(x) : Before(k, l.queue) <= l.attempts
    BY <2>2, <2>4 DEF Visited
  <2>. QED
    BY <2>2, <2>4, <2>5, <2>6
<1>2. CASE e.head = Null
  <2>1. PICK g \in {"done", "dread"} : g = IF l.attempts + 1 = THREADS THEN "done" ELSE "dread"
    OBVIOUS
  <2>2. PICK q \in Queues : q = (l.queue + 1) % THREADS
    BY <1>0, NextQueue
  <2>3. PICK a \in 0..THREADS : a = l.attempts + 1
    BY <1>0
  <2>4. x = [l EXCEPT !.ends = NoEnds, !.attempts = a, !.queue = q, !.pc = g]
    BY <1>2, <2>1, <2>2, <2>3 DEF DequeueRetry
  <2>5. /\ x.pc = g /\ x.then = "idle" /\ x.got = Null /\ x.victim = Null
        /\ x.queue = q /\ x.attempts = a
    BY ZenonT(40), <2>4 DEF Locals
  <2>6. ~Reclaiming(x) /\ Goal(x) = g
    BY <2>5 DEF Reclaiming, Goal
  <2>7. ~Counting(x) /\ ~Retrying(x) /\ ~Enqueuing(x) /\ ~Offers(x) /\ ~Adds(x) /\ ~Takes(x)
    BY <2>5, <2>6 DEF Counting, Retrying, Enqueuing, Offers, Adds, Takes, EnqueueGoals
  <2>8. g = "done" <=> a = THREADS
    BY <2>1, <2>3
  <2>9. CallAgrees(x)
    BY <2>3, <2>5, <2>7, <2>8 DEF CallAgrees
  <2>10. ASSUME NEW k \in Queues, k \in Visited(x), k # l.queue
         PROVE  Before(k, l.queue) <= l.attempts
    <3>1. Before(k, q) <= a
      BY <2>5, <2>7, <2>10 DEF Visited
    <3>2. Before(k, q) = Before(k, l.queue) + 1
      BY <1>0, <2>2, <2>10, NextQueue
    <3>3. Before(k, l.queue) \in Nat
      BY <1>0 DEF Before, Queues
    <3>. QED
      BY <1>0, <2>3, <3>1, <3>2, <3>3
  <2>. QED
    BY <1>2, <2>1, <2>5, <2>7, <2>9, <2>10
<1>. QED
  BY <1>1, <1>2

\* The thread takes that branch, with the ends it has read or was given.
LEMMA RetryQuiet ==
    ASSUME NEW t \in Threads, CallAgrees(th[t]), LocalsAgree(th[t]),
           Aim(th[t]) \in {"dread", "dretry"},
           NEW l \in Locals, l.then = "idle", l.victim = Null, l.got = th[t].got,
           l.queue = th[t].queue, l.attempts = th[t].attempts,
           NEW e \in Ends, e.head = Null =>
                              \/ ends[th[t].queue].head = Null
                              \/ Retrying(th[t]) /\ th[t].old.head = Null,
           NEW x, x = DequeueRetry(l, e),
           UNCHANGED <<count, fresh, explored>>
    PROVE  Quiet(t, x)
<1>1. PICK m : m = th[t]
  OBVIOUS
<1>2. m.pc # "unhazard" => m.then = "idle"
  BY <1>1 DEF CallAgrees
<1>3. /\ ~Counting(m) /\ ~Adds(m) /\ ~Offers(m) /\ m.pc # "done" /\ m.pc # "dload"
  <2>1. \A y : y.pc = "dload" => Aim(y) = "dload"
    BY DEF Aim, Reclaiming, Goal
  <2>. QED
    BY <1>1, <1>2, <2>1, AimSays DEF EnqueueGoals
<1>4. m.got = Null /\ m.attempts \in 0..THREADS-1
  BY <1>1, <1>3, StateQueueAssumption DEF CallAgrees
<1>5. /\ CallAgrees(x) /\ ~Offers(x) /\ ~Adds(x) /\ ~Takes(x) /\ x.got = Null
      /\ x.pc \in {"dhazard", "dread", "done"}
      /\ \A k \in Queues : k \in Visited(x) =>
            \/ Before(k, l.queue) <= l.attempts
            \/ k = l.queue /\ e.head = Null
  BY <1>1, <1>4, RetryVisits
<1>6. \A k \in Queues : k \in Visited(x) => k \in Visited(m) \/ ends[k].head = Null
  BY <1>1, <1>5 DEF Visited
<1>. QED
  BY <1>1, <1>3, <1>4, <1>5, <1>6 DEF Quiet, Taken, At, Takes

\* What a quiet step leaves of the abstract queues.
Stutters ==
    /\ \A k \in Queues : Contents(k)' = Contents(k)
    /\ \A u \in Threads : Taken(u)' = Taken(u)
    /\ explored' = explored

\* A step of one thread that moves no state and changes no ends.
LEMMA QuietStep ==
    ASSUME NEW R, QueueInv(R), NEW w \in [Queues -> Seq(Seats)], Order(w), BooksInv,
           NEW t \in Threads, NEW x, th' = [th EXCEPT ![t] = x], MemoryKept(t),
           ends' = ends, Quiet(t, x),
           Writing(x) /\ x.node # Null => mem'[x.node][1] = x.s,
           allocated' \subseteq allocated \cup Held(x),
           Held(th[t]) \cap allocated' \subseteq Held(x)
    PROVE  OrderInv' /\ BooksInv' /\ Stutters
<1>1. /\ Order(w)'
      /\ \A k \in Queues : Contents(k)' = Contents(k)
  BY OrderStays DEF Quiet
<1>2. BooksInv' /\ \A u \in Threads : Taken(u)' = Taken(u)
  BY <1>1, BooksStay
<1>. QED
  BY <1>1, <1>2 DEF OrderInv, Stutters, Quiet

\* ... of a step that changes no memory.
LEMMA LocalStep ==
    ASSUME NEW R, QueueInv(R), NEW w \in [Queues -> Seq(Seats)], Order(w), BooksInv,
           NEW t \in Threads, NEW x, th' = [th EXCEPT ![t] = x],
           mem' = mem, ends' = ends, Quiet(t, x),
           Writing(x) => /\ Writing(th[t]) /\ x.ends = th[t].ends
                         /\ x.node = th[t].node /\ x.s = th[t].s,
           allocated' \subseteq allocated,
           Held(th[t]) \cap allocated' \subseteq Held(x)
    PROVE  OrderInv' /\ BooksInv' /\ Stutters
<1>1. MemoryKept(t)
  BY MemorySame DEF SlotOf
<1>2. Writing(x) /\ x.node # Null => mem'[x.node][1] = x.s
  BY DEF Order, Filled
<1>. QED
  BY <1>1, <1>2, QuietStep

-----------------------------------------------------------------------------
(***************************************************************************)
(* Every step keeps the invariant and moves no state, or one.              *)
(***************************************************************************)

\* What is known of a thread's variables before and after a step.
LEMMA VariablesAgree ==
    ASSUME NEW R, QueueInv(R), BooksInv, NEW t \in Threads
    PROVE  th[t] \in Locals /\ LocalsAgree(th[t]) /\ CallAgrees(th[t])
BY LocalsTyped DEF BooksInv

\* They are typed and agree after the step, too.
LEMMA VariablesAgreeNext ==
    ASSUME NEW R, QueueInv(R), NodesInv', NEW t \in Threads, NEW x, th' = [th EXCEPT ![t] = x]
    PROVE  x \in Locals /\ LocalsAgree(x)
<1>1. th'[t] = x
  BY OthersSame DEF QueueInv
<1>2. th'[t] \in Locals /\ LocalsAgree(th'[t])
  BY DEF NodesInv, QueueInv, QueuesTyped, ThreadsAgree
<1>. QED
  BY <1>1, <1>2

\* A step of queue_enqueue that leaves the queue and the memory alone.
LEMMA EnqueuerStep ==
    ASSUME NEW R, QueueInv(R), NEW w \in [Queues -> Seq(Seats)], Order(w), BooksInv, NodesInv',
           NEW t \in Threads, NEW x, th' = [th EXCEPT ![t] = x],
           UNCHANGED <<mem, allocated, ends, count, fresh, explored>>,
           Offers(th[t]), Offers(x), x.pc # "unhazard" => x.then = "idle",
           x.queue = th[t].queue, x.s = th[t].s, x.attempts = th[t].attempts,
           x.got = th[t].got, x.victim = th[t].victim, x.deferred = th[t].deferred,
           Writing(x) <=> Writing(th[t]),
           Writing(x) => x.ends = th[t].ends /\ x.node = th[t].node
    PROVE  OrderInv' /\ BooksInv' /\ Stutters
<1>1. /\ LocalsAgree(th[t]) /\ th[t] \in Locals /\ CallAgrees(th[t])
      /\ LocalsAgree(x) /\ x \in Locals
  BY VariablesAgree, VariablesAgreeNext
<1>2. x.queue \in Queues
  BY <1>1 DEF Locals
<1>3. Quiet(t, x)
  BY <1>1, <1>2, EnqueuerQuiet
<1>4. Held(th[t]) \subseteq Held(x)
  <2>1. th[t].pc # "dload"
    BY DEF Offers, Goal, EnqueueGoals
  <2>2. Pending(th[t]) = Pending(x)
    BY DEF Pending, Writing
  <2>. QED
    BY <2>1, <2>2 DEF Held, Doomed, Deferred, Removed
<1>. QED
  BY <1>3, <1>4, LocalStep

\* The ends that are read say where to go on.
LEMMA EnqueueReadStep ==
    ASSUME NEW R, QueueInv(R), NEW w \in [Queues -> Seq(Seats)], Order(w), BooksInv, NodesInv',
           NEW t \in Threads, EnqueueRead(t)
    PROVE  OrderInv' /\ BooksInv' /\ Stutters
<1>0. th[t] \in Locals /\ CallAgrees(th[t])
  BY VariablesAgree
<1>1. PICK e, g : e = ends[th[t].queue] /\ g = EnqueueRetry(e)
  OBVIOUS
<1>2. PICK x : x = [th[t] EXCEPT !.ends = e, !.pc = g]
  OBVIOUS
<1>3. /\ th[t].pc = "eread" /\ th' = [th EXCEPT ![t] = x]
      /\ UNCHANGED <<mem, allocated, ends, count, fresh, explored>>
  BY <1>1, <1>2 DEF EnqueueRead, At, shared
<1>4. g \in {"efirst", "ehazard"}
  BY <1>1 DEF EnqueueRetry
<1>5. /\ x.pc = g /\ x.then = th[t].then /\ x.queue = th[t].queue /\ x.s = th[t].s
      /\ x.attempts = th[t].attempts /\ x.got = th[t].got /\ x.victim = th[t].victim
      /\ x.deferred = th[t].deferred
  BY ZenonT(40), <1>0, <1>2 DEF Locals
<1>6. Offers(th[t]) /\ Offers(x) /\ ~Writing(x) /\ ~Writing(th[t])
  BY <1>3, <1>4, <1>5 DEF Offers, Goal, EnqueueGoals, Writing
<1>. QED
  BY <1>0, <1>3, <1>4, <1>5, <1>6, EnqueuerStep DEF CallAgrees

\* Announcing a node moves no state.
LEMMA EnqueueHazardStep ==
    ASSUME NEW R, QueueInv(R), NEW w \in [Queues -> Seq(Seats)], Order(w), BooksInv, NodesInv',
           NEW t \in Threads, EnqueueHazard(t)
    PROVE  OrderInv' /\ BooksInv' /\ Stutters
<1>0. th[t] \in Locals /\ CallAgrees(th[t])
  BY VariablesAgree
<1>1. PICK x : x = [th[t] EXCEPT !.pc = "echeck"]
  OBVIOUS
<1>2. /\ th[t].pc = "ehazard" /\ th' = [th EXCEPT ![t] = x]
      /\ UNCHANGED <<mem, allocated, ends, count, fresh, explored>>
  BY <1>1 DEF EnqueueHazard, At
<1>3. /\ x.pc = "echeck" /\ x.then = th[t].then /\ x.queue = th[t].queue /\ x.s = th[t].s
      /\ x.attempts = th[t].attempts /\ x.got = th[t].got /\ x.victim = th[t].victim
      /\ x.deferred = th[t].deferred
  BY ZenonT(40), <1>0, <1>1 DEF Locals
<1>4. Offers(th[t]) /\ Offers(x) /\ ~Writing(x) /\ ~Writing(th[t])
  BY <1>2, <1>3 DEF Offers, Goal, EnqueueGoals, Writing
<1>. QED
  BY <1>0, <1>2, <1>3, <1>4, EnqueuerStep DEF CallAgrees

\* Nor does the second check of an enqueuer.
LEMMA EnqueueCheckStep ==
    ASSUME NEW R, QueueInv(R), NEW w \in [Queues -> Seq(Seats)], Order(w), BooksInv, NodesInv',
           NEW t \in Threads, EnqueueCheck(t)
    PROVE  OrderInv' /\ BooksInv' /\ Stutters
<1>0. th[t] \in Locals /\ CallAgrees(th[t])
  BY VariablesAgree
<1>1. /\ th[t].pc = "echeck"
      /\ UNCHANGED <<mem, allocated, ends, count, fresh, explored>>
  BY DEF EnqueueCheck, At, shared
<1>2. PICK e, g : e = ends[th[t].queue] /\ g = EnqueueRetry(e)
  OBVIOUS
<1>3. g \in {"efirst", "ehazard"}
  BY <1>2 DEF EnqueueRetry
<1>4. PICK x : x = IF EndsUnchanged(t) THEN [th[t] EXCEPT !.pc = "ewrite"]
                   ELSE [th[t] EXCEPT !.ends = e, !.pc = "unhazard", !.then = g]
  OBVIOUS
<1>5. th' = [th EXCEPT ![t] = x]
  BY <1>2, <1>4 DEF EnqueueCheck
<1>6. /\ x.queue = th[t].queue /\ x.s = th[t].s
      /\ x.attempts = th[t].attempts /\ x.got = th[t].got /\ x.victim = th[t].victim
      /\ x.deferred = th[t].deferred
      /\ \/ x.pc = "ewrite" /\ x.then = th[t].then
         \/ x.pc = "unhazard" /\ x.then = g
  <2>1. CASE EndsUnchanged(t)
    <3>1. x = [th[t] EXCEPT !.pc = "ewrite"]
      BY <1>4, <2>1
    <3>. QED
      BY ZenonT(40), <1>0, <3>1 DEF Locals
  <2>2. CASE ~EndsUnchanged(t)
    <3>1. x = [th[t] EXCEPT !.ends = e, !.pc = "unhazard", !.then = g]
      BY <1>4, <2>2
    <3>. QED
      BY ZenonT(40), <1>0, <3>1 DEF Locals
  <2>. QED
    BY <2>1, <2>2
<1>7. Offers(th[t]) /\ Offers(x) /\ ~Writing(x) /\ ~Writing(th[t])
  BY <1>1, <1>3, <1>6 DEF Offers, Goal, EnqueueGoals, Writing
<1>8. x.pc # "unhazard" => x.then = "idle"
  BY <1>0, <1>1, <1>6 DEF CallAgrees
<1>. QED
  BY <1>1, <1>5, <1>6, <1>7, <1>8, EnqueuerStep

\* A step that adds a state, removes one, or hands one to its caller.
Adding(k, s) ==
    /\ Contents(k)' = Append(Contents(k), s)
    /\ \A l \in Queues \ {k} : Contents(l)' = Contents(l)
    /\ \A u \in Threads : Taken(u)' = Taken(u)
    /\ explored' = explored
Taking(t, k) ==
    /\ Contents(k) # <<>> /\ Taken(t) = Null
    /\ Contents(k)' = Tail(Contents(k)) /\ Taken(t)' = Head(Contents(k))
    /\ \A l \in Queues \ {k} : Contents(l)' = Contents(l)
    /\ \A u \in Threads \ {t} : Taken(u)' = Taken(u)
    /\ explored' = explored
Returning(t) ==
    /\ Taken(t) # Null /\ Taken(t) \notin explored
    /\ explored' = explored \cup {Taken(t)} /\ Taken(t)' = Null
    /\ \A k \in Queues : Contents(k)' = Contents(k)
    /\ \A u \in Threads \ {t} : Taken(u)' = Taken(u)
Moves ==
    \/ Stutters
    \/ \E k \in Queues, s \in States : Adding(k, s)
    \/ \E t \in Threads, k \in Queues : Taking(t, k)
    \/ \E t \in Threads : Returning(t)

\* What a queue holds are states.
LEMMA ContentsTyped ==
    ASSUME NEW w \in [Queues -> Seq(Seats)], Walks(w), NEW k \in Queues
    PROVE  Contents(k) \in Seq(States)
<1>1. Contents(k) = [i \in 1..Len(w[k]) |-> Load(w[k][i])]
  BY ContentsAre
<1>2. \A i \in 1..Len(w[k]) : Load(w[k][i]) \in States
  BY DEF Walks, Firm
<1>3. w[k] \in Seq(Seats) /\ Len(w[k]) \in Nat
  OBVIOUS
<1>. QED
  BY <1>1, <1>2, <1>3

\* An enqueuer that has added its state and has not counted it yet.
LEMMA AddedAgrees ==
    ASSUME NEW l, CallAgrees(l), Offers(l),
           NEW x, Goal(x) = "ecount", x.pc \in {"ecount", "unhazard"},
           x.pc # "unhazard" => x.then = "idle",
           x.attempts = l.attempts, x.got = l.got, x.victim = l.victim
    PROVE  /\ CallAgrees(x) /\ ~Offers(x) /\ Adds(x) /\ ~Takes(x)
           /\ x.attempts = 0 /\ ~Retrying(x)
           /\ ~Adds(l) /\ ~Takes(l)
<1>1. Goal(l) \in {"eread", "efirst"} \cup EnqueueGoals
  BY DEF Offers
<1>2. /\ ~Counting(l) /\ Enqueuing(l) /\ ~Reclaiming(l) /\ l.pc # "dload" /\ ~Adds(l)
  <2>1. l.pc # "unhazard" => l.then = "idle"
    BY DEF CallAgrees
  <2>. QED
    BY <1>1, <2>1 DEF Counting, Enqueuing, Reclaiming, Goal, EnqueueGoals, Adds
<1>3. l.got = Null /\ l.victim = Null /\ l.attempts = 0
  BY <1>2 DEF CallAgrees
<1>4. /\ ~Counting(x) /\ Enqueuing(x) /\ ~Reclaiming(x) /\ ~Retrying(x)
      /\ x.pc \notin {"dload", "done"}
      /\ ~Offers(x) /\ Adds(x)
  BY DEF Counting, Enqueuing, Reclaiming, Retrying, Goal, Offers, EnqueueGoals, Adds
<1>5. 0 \in 0..THREADS /\ THREADS # 0
  BY StateQueueAssumption
<1>. QED
  BY <1>2, <1>3, <1>4, <1>5 DEF CallAgrees, Takes

\* The linearization point of queue_enqueue on an empty queue; or it has failed.
LEMMA EnqueueFirstStep ==
    ASSUME NEW R \in [Queues -> SUBSET Nodes], QueueInv(R),
           NEW w \in [Queues -> Seq(Seats)], Order(w), BooksInv, NodesInv',
           NEW t \in Threads, EnqueueFirst(t)
    PROVE  OrderInv' /\ BooksInv' /\ Moves
<1>0. th[t] \in Locals /\ CallAgrees(th[t]) /\ LocalsAgree(th[t])
  BY VariablesAgree
<1>1. th[t].pc = "efirst" /\ th[t].then = "idle" /\ UNCHANGED <<count, fresh, explored>>
  BY <1>0 DEF EnqueueFirst, At, CallAgrees
<1>2. PICK k \in Queues : k = th[t].queue
  BY <1>0 DEF Locals
<1>3. CASE ends[k] = th[t].ends
  <2>1. PICK x : x = [th[t] EXCEPT !.pc = "ecount"]
    OBVIOUS
  <2>2. PICK n \in Nodes \ allocated :
           /\ allocated' = allocated \cup {n}
           /\ mem' = [mem EXCEPT ![n] = NewNode(th[t].s)]
           /\ ends' = [ends EXCEPT ![k] = [head |-> FirstHandle(n), tail |-> FirstHandle(n)]]
           /\ th' = [th EXCEPT ![t].pc = "ecount"]
    BY <1>2, <1>3 DEF EnqueueFirst
  <2>3. th' = [th EXCEPT ![t] = x]
    BY <2>1, <2>2
  <2>4. /\ x.pc = "ecount" /\ x.then = "idle" /\ x.queue = k
        /\ x.attempts = th[t].attempts /\ x.got = th[t].got /\ x.victim = th[t].victim
    BY ZenonT(40), <1>0, <1>1, <1>2, <2>1 DEF Locals
  <2>5. /\ OrderInv'
        /\ Contents(k) = <<>> /\ Contents(k)' = <<th[t].s>>
        /\ \A l \in Queues \ {k} : Contents(l)' = Contents(l)
    BY <1>1, <1>2, <1>3, <2>2, FirstOrders
  <2>6. MemoryKept(t)
    BY <2>2, <2>3, <2>4, MemoryAdded DEF Writing
  <2>7. Offers(th[t]) /\ Goal(x) = "ecount"
    BY <1>1, <2>4 DEF Offers, Goal
  <2>8. th[t].s \in States
    BY <1>0, <1>1 DEF LocalsAgree, Goal
  <2>9. Contents(k)' = Append(<<>>, th[t].s) /\ <<>> \in Seq(States)
    BY <2>5
  <2>10. /\ CallAgrees(x) /\ ~Offers(x) /\ Adds(x) /\ ~Takes(x)
         /\ x.attempts = 0 /\ ~Retrying(x)
         /\ ~Adds(th[t]) /\ ~Takes(th[t])
    BY <1>0, <2>4, <2>7, AddedAgrees
  <2>11. BooksInv' /\ \A u \in Threads : Taken(u)' = Taken(u)
    BY <1>1, <1>2, <2>3, <2>4, <2>5, <2>6, <2>7, <2>8, <2>9, <2>10, AddBooks
  <2>12. Adding(k, th[t].s)
    BY <1>1, <2>5, <2>9, <2>11 DEF Adding
  <2>. QED
    BY <2>5, <2>8, <2>11, <2>12 DEF Moves
<1>4. CASE ends[k] # th[t].ends
  <2>1. PICK e, g : e = ends[k] /\ g = EnqueueRetry(e)
    OBVIOUS
  <2>2. PICK x : x = [th[t] EXCEPT !.ends = e, !.pc = g]
    OBVIOUS
  <2>3. /\ th' = [th EXCEPT ![t] = x]
        /\ UNCHANGED <<mem, allocated, ends, count, fresh, explored>>
    BY <1>2, <1>4, <2>1, <2>2 DEF EnqueueFirst
  <2>4. g \in {"efirst", "ehazard"}
    BY <2>1 DEF EnqueueRetry
  <2>5. /\ x.pc = g /\ x.then = th[t].then /\ x.queue = th[t].queue /\ x.s = th[t].s
        /\ x.attempts = th[t].attempts /\ x.got = th[t].got /\ x.victim = th[t].victim
        /\ x.deferred = th[t].deferred
    BY ZenonT(40), <1>0, <2>2 DEF Locals
  <2>6. Offers(th[t]) /\ Offers(x) /\ ~Writing(x) /\ ~Writing(th[t])
    BY <1>1, <2>4, <2>5 DEF Offers, Goal, EnqueueGoals, Writing
  <2>. QED
    BY <1>1, <2>3, <2>4, <2>5, <2>6, EnqueuerStep DEF Moves
<1>. QED
  BY <1>3, <1>4

\* A state behind the tail is not in the queue yet.
LEMMA EnqueueWriteStep ==
    ASSUME NEW R \in [Queues -> SUBSET Nodes], QueueInv(R),
           NEW w \in [Queues -> Seq(Seats)], Order(w), BooksInv, NodesInv',
           NEW t \in Threads, EnqueueWrite(t)
    PROVE  OrderInv' /\ BooksInv' /\ Stutters
<1>0. th[t] \in Locals /\ CallAgrees(th[t]) /\ LocalsAgree(th[t])
  BY VariablesAgree
<1>1. th[t].pc = "ewrite" /\ th[t].then = "idle"
  BY <1>0 DEF EnqueueWrite, At, CallAgrees
<1>2. Offers(th[t])
  BY <1>1 DEF Offers, Goal, EnqueueGoals
<1>3. CASE \E h \in Handles, n \in Nodes \cup {Null}, x \in Locals : WriteMove(t, h, n, x)
  <2>1. PICK h \in Handles, n \in Nodes \cup {Null}, x \in Locals : WriteMove(t, h, n, x)
    BY <1>3
  <2>2. /\ x = [th[t] EXCEPT !.node = n, !.pc = "ecas"] /\ th' = [th EXCEPT ![t] = x]
        /\ x.pc = "ecas" /\ x.s = th[t].s /\ x.node = n
        /\ UNCHANGED <<ends, count, fresh, explored>>
        /\ allocated' = allocated \cup ({n} \ {Null})
        /\ n # Null => mem'[n][1] = x.s
        /\ x.deferred = th[t].deferred /\ x.victim = th[t].victim
    BY <2>1 DEF WriteMove
  <2>3. /\ x.then = th[t].then /\ x.queue = th[t].queue
        /\ x.attempts = th[t].attempts /\ x.got = th[t].got
    BY ZenonT(40), <1>0, <2>2 DEF Locals
  <2>4. MemoryKept(t)
    BY <2>1, MemoryWritten
  <2>5. LocalsAgree(x)
    BY <2>2, VariablesAgreeNext
  <2>6. Offers(x) /\ x.queue \in Queues
    BY <2>2 DEF Offers, Goal, EnqueueGoals, Locals
  <2>7. Quiet(t, x)
    BY <1>0, <1>1, <1>2, <2>2, <2>3, <2>5, <2>6, EnqueuerQuiet
  <2>8. Held(th[t]) \subseteq Held(x) /\ {n} \ {Null} \subseteq Held(x)
    BY <1>1, <2>2 DEF Held, Doomed, Deferred, Removed, Pending
  <2>9. allocated' \subseteq allocated \cup Held(x)
    BY <2>2, <2>8
  <2>. QED
    BY <2>2, <2>4, <2>7, <2>8, <2>9, QuietStep
<1>4. CASE /\ UNCHANGED <<mem, allocated, ends, count, hazarded, fresh, explored>>
           /\ th' = [th EXCEPT ![t].pc = "unhazard", ![t].then = EnqueueRetry(th[t].ends)]
  <2>1. PICK g \in {"efirst", "ehazard"} : g = EnqueueRetry(th[t].ends)
    BY DEF EnqueueRetry
  <2>2. PICK x : x = [th[t] EXCEPT !.pc = "unhazard", !.then = g]
    OBVIOUS
  <2>3. th' = [th EXCEPT ![t] = x]
    BY <1>4, <2>1, <2>2
  <2>4. /\ x.pc = "unhazard" /\ x.then = g /\ x.queue = th[t].queue /\ x.s = th[t].s
        /\ x.attempts = th[t].attempts /\ x.got = th[t].got /\ x.victim = th[t].victim
        /\ x.deferred = th[t].deferred
    BY ZenonT(40), <1>0, <2>2 DEF Locals
  <2>5. Offers(x) /\ ~Writing(x) /\ ~Writing(th[t])
    BY <1>1, <2>1, <2>4 DEF Offers, Goal, EnqueueGoals, Writing
  <2>. QED
    BY <1>2, <1>4, <2>3, <2>4, <2>5, EnqueuerStep
<1>. QED
  BY <1>3, <1>4, EnqueueWriteMoves

\* The linearization point of queue_enqueue on other queues; or it has failed.
LEMMA EnqueueCASStep ==
    ASSUME NEW R \in [Queues -> SUBSET Nodes], QueueInv(R),
           NEW w \in [Queues -> Seq(Seats)], Order(w), BooksInv, NodesInv',
           NEW t \in Threads, EnqueueCAS(t)
    PROVE  OrderInv' /\ BooksInv' /\ Moves
<1>0. th[t] \in Locals /\ CallAgrees(th[t]) /\ LocalsAgree(th[t])
  BY VariablesAgree
<1>1. /\ th[t].pc = "ecas" /\ th[t].then = "idle"
      /\ UNCHANGED <<mem, allocated, count, fresh, explored>>
  BY <1>0 DEF EnqueueCAS, At, CallAgrees
<1>2. PICK k \in Queues : k = th[t].queue
  BY <1>0 DEF Locals
<1>3. Offers(th[t]) /\ th[t].s \in States
  BY <1>0, <1>1 DEF Offers, Goal, EnqueueGoals, LocalsAgree
<1>4. CASE ends[k] = th[t].ends
  <2>1. PICK x : x = [th[t] EXCEPT !.pc = "unhazard", !.then = "ecount", !.node = Null]
    OBVIOUS
  <2>2. /\ ends' = [ends EXCEPT ![k].tail = NewTail(th[t])]
        /\ th' = [th EXCEPT ![t].pc = "unhazard", ![t].then = "ecount", ![t].node = Null]
    BY <1>2, <1>4 DEF EnqueueCAS
  <2>3. th' = [th EXCEPT ![t] = x]
    BY <2>1, <2>2
  <2>4. /\ x.pc = "unhazard" /\ x.then = "ecount" /\ x.queue = k
        /\ x.attempts = th[t].attempts /\ x.got = th[t].got /\ x.victim = th[t].victim
    BY ZenonT(40), <1>0, <1>1, <1>2, <2>1 DEF Locals
  <2>5. /\ OrderInv'
        /\ Contents(k)' = Append(Contents(k), th[t].s)
        /\ \A l \in Queues \ {k} : Contents(l)' = Contents(l)
    BY <1>1, <1>2, <1>4, <2>2, CASOrders
  <2>6. MemoryKept(t)
    BY <1>1, <2>3, <2>4, MemorySame DEF Writing
  <2>7. Goal(x) = "ecount"
    BY <2>4 DEF Goal
  <2>8. PICK C \in Seq(States) : C = Contents(k)
    BY ContentsTyped DEF Order
  <2>9. /\ CallAgrees(x) /\ ~Offers(x) /\ Adds(x) /\ ~Takes(x)
        /\ x.attempts = 0 /\ ~Retrying(x)
        /\ ~Adds(th[t]) /\ ~Takes(th[t])
    BY <1>0, <1>3, <2>4, <2>7, AddedAgrees
  <2>10. BooksInv' /\ \A u \in Threads : Taken(u)' = Taken(u)
    BY <1>1, <1>2, <1>3, <2>3, <2>4, <2>5, <2>6, <2>8, <2>9, AddBooks
  <2>11. Adding(k, th[t].s)
    BY <1>1, <2>5, <2>10 DEF Adding
  <2>. QED
    BY <1>3, <2>5, <2>10, <2>11 DEF Moves
<1>5. CASE ends[k] # th[t].ends
  <2>1. PICK e : e = ends[k]
    OBVIOUS
  <2>2. PICK x : x = [th[t] EXCEPT !.old = e, !.pc = "eundo"]
    OBVIOUS
  <2>3. th' = [th EXCEPT ![t] = x] /\ ends' = ends
    BY <1>2, <1>5, <2>1, <2>2 DEF EnqueueCAS
  <2>4. /\ x.pc = "eundo" /\ x.then = th[t].then /\ x.queue = th[t].queue /\ x.s = th[t].s
        /\ x.attempts = th[t].attempts /\ x.got = th[t].got /\ x.victim = th[t].victim
        /\ x.deferred = th[t].deferred /\ x.ends = th[t].ends /\ x.node = th[t].node
    BY ZenonT(40), <1>0, <2>2 DEF Locals
  <2>5. Offers(x) /\ Writing(x) /\ Writing(th[t])
    BY <1>1, <2>4 DEF Offers, Goal, EnqueueGoals, Writing
  <2>. QED
    BY <1>1, <1>3, <2>3, <2>4, <2>5, EnqueuerStep DEF Moves
<1>. QED
  BY <1>4, <1>5

\* What is undone was not in the queue, and the node goes back with it.
LEMMA EnqueueUndoStep ==
    ASSUME NEW R \in [Queues -> SUBSET Nodes], QueueInv(R),
           NEW w \in [Queues -> Seq(Seats)], Order(w), BooksInv, NodesInv',
           NEW t \in Threads, EnqueueUndo(t)
    PROVE  OrderInv' /\ BooksInv' /\ Stutters
<1>0. th[t] \in Locals /\ CallAgrees(th[t]) /\ LocalsAgree(th[t])
  BY VariablesAgree
<1>1. /\ th[t].pc = "eundo" /\ UNCHANGED <<ends, count, fresh, explored>>
      /\ allocated' = allocated \ {th[t].node}
  BY DEF EnqueueUndo, At
<1>2. PICK g \in {"efirst", "ehazard"} : g = EnqueueRetry(th[t].old)
  BY DEF EnqueueRetry
<1>3. PICK x : x = [th[t] EXCEPT !.pc = "unhazard", !.node = Null, !.ends = th[t].old,
                                 !.old = NoEnds, !.then = g]
  OBVIOUS
<1>4. th' = [th EXCEPT ![t] = x]
  BY <1>2, <1>3 DEF EnqueueUndo
<1>5. /\ x.pc = "unhazard" /\ x.then = g /\ x.queue = th[t].queue /\ x.s = th[t].s
      /\ x.attempts = th[t].attempts /\ x.got = th[t].got /\ x.victim = th[t].victim
      /\ x.deferred = th[t].deferred
  BY ZenonT(40), <1>0, <1>3 DEF Locals
<1>6. Offers(th[t]) /\ Offers(x) /\ ~Writing(x)
  BY <1>1, <1>5 DEF Offers, Goal, EnqueueGoals, Writing
<1>7. MemoryKept(t)
  BY MemoryUndone
<1>8. LocalsAgree(x) /\ x.queue \in Queues
  BY <1>0, <1>4, <1>5, VariablesAgreeNext DEF Locals
<1>9. Quiet(t, x)
  BY <1>0, <1>1, <1>5, <1>6, <1>8, EnqueuerQuiet
<1>10. Held(th[t]) \ {th[t].node} \subseteq Held(x)
  BY <1>1, <1>5 DEF Held, Doomed, Deferred, Removed, Pending
<1>11. allocated' \subseteq allocated \cup Held(x) /\ Held(th[t]) \cap allocated' \subseteq Held(x)
  BY <1>1, <1>10
<1>. QED
  BY <1>1, <1>4, <1>6, <1>7, <1>9, <1>11, QuietStep

\* A thread between two calls.
LEMMA IdleAgrees ==
    ASSUME NEW x, x.pc = "idle", x.then = "idle", x.attempts = 0,
           x.got = Null, x.victim = Null
    PROVE  /\ CallAgrees(x) /\ ~Offers(x) /\ ~Adds(x) /\ ~Takes(x) /\ ~Retrying(x)
<1>1. Goal(x) = "idle" /\ ~Reclaiming(x)
  BY DEF Goal, Reclaiming
<1>2. ~Counting(x) /\ ~Retrying(x) /\ ~Offers(x) /\ ~Adds(x) /\ ~Takes(x)
  BY <1>1 DEF Counting, Retrying, Offers, Adds, Takes, EnqueueGoals
<1>3. 0 \in 0..THREADS /\ THREADS # 0
  BY StateQueueAssumption
<1>. QED
  BY <1>2, <1>3 DEF CallAgrees

\* The count catches up with the state that was added.
LEMMA EnqueueCountStep ==
    ASSUME NEW R \in [Queues -> SUBSET Nodes], QueueInv(R),
           NEW w \in [Queues -> Seq(Seats)], Order(w), BooksInv, NodesInv',
           NEW t \in Threads, EnqueueCount(t)
    PROVE  OrderInv' /\ BooksInv' /\ Stutters
<1>0. th[t] \in Locals /\ CallAgrees(th[t]) /\ LocalsAgree(th[t])
  BY VariablesAgree
<1>1. /\ th[t].pc = "ecount" /\ UNCHANGED <<mem, allocated, ends, fresh, explored>>
      /\ count' = [count EXCEPT ![th[t].queue] = @ + 1]
  BY DEF EnqueueCount, At
<1>2. PICK x : x = [StartLocals(t) EXCEPT !.deferred = th[t].deferred]
  OBVIOUS
<1>3. th' = [th EXCEPT ![t] = x]
  BY <1>1, <1>2 DEF EnqueueCount
<1>4. /\ x.pc = "idle" /\ x.then = "idle" /\ x.queue = t /\ x.attempts = 0
      /\ x.got = Null /\ x.victim = Null /\ x.deferred = th[t].deferred
  BY ZenonT(40), <1>2 DEF StartLocals
<1>5. CallAgrees(x) /\ ~Offers(x) /\ ~Adds(x) /\ ~Takes(x) /\ ~Retrying(x)
  BY <1>4, IdleAgrees
<1>6. ~Offers(th[t]) /\ Adds(th[t]) /\ ~Writing(x)
  BY <1>1, <1>4 DEF Offers, Goal, EnqueueGoals, Adds, Writing
<1>7. ~Counting(th[t]) /\ ~Reclaiming(th[t])
  BY <1>1 DEF Counting, Reclaiming, Goal
<1>8. th[t].got = Null /\ th[t].victim = Null /\ ~Takes(th[t])
  BY <1>0, <1>1, <1>7 DEF CallAgrees, Takes
<1>9. MemoryKept(t)
  BY <1>1, <1>3, <1>6, MemorySame
<1>10. Held(th[t]) = Held(x)
  BY <1>1, <1>4, <1>8 DEF Held, Doomed, Deferred, Removed, Pending
<1>11. /\ Order(w)'
       /\ \A k \in Queues : Contents(k)' = Contents(k)
  BY <1>1, <1>3, <1>4, <1>6, <1>9, <1>10, OrderStays
<1>12. t \in Queues
  BY DEF Threads, Queues
<1>13. BooksInv' /\ \A u \in Threads : Taken(u)' = Taken(u)
  BY <1>1, <1>3, <1>4, <1>5, <1>6, <1>8, <1>9, <1>11, <1>12, CountBooks
<1>. QED
  BY <1>1, <1>11, <1>13 DEF OrderInv, Stutters

\* A fresh state is offered by one thread.
LEMMA EnqueueStep ==
    ASSUME NEW R \in [Queues -> SUBSET Nodes], QueueInv(R),
           NEW w \in [Queues -> Seq(Seats)], Order(w), BooksInv, NodesInv',
           NEW t \in Threads, NEW s \in States, NEW k \in Queues, Enqueue(t, s, k)
    PROVE  OrderInv' /\ BooksInv' /\ Stutters
<1>0. th[t] \in Locals /\ CallAgrees(th[t]) /\ LocalsAgree(th[t])
  BY VariablesAgree
<1>1. /\ th[t].pc = "idle" /\ UNCHANGED <<mem, allocated, ends, count, explored>>
      /\ s \in fresh /\ fresh' = fresh \ {s}
  BY DEF Enqueue, At, shared
<1>2. PICK x : x = [th[t] EXCEPT !.pc = "eread", !.s = s, !.queue = k]
  OBVIOUS
<1>3. th' = [th EXCEPT ![t] = x]
  BY <1>2 DEF Enqueue
<1>4. /\ x.pc = "eread" /\ x.then = th[t].then /\ x.queue = k /\ x.s = s
      /\ x.attempts = th[t].attempts /\ x.got = th[t].got /\ x.victim = th[t].victim
      /\ x.deferred = th[t].deferred
  BY ZenonT(40), <1>0, <1>2 DEF Locals
<1>5. /\ ~Counting(th[t]) /\ ~Reclaiming(th[t]) /\ Enqueuing(th[t])
      /\ ~Offers(th[t]) /\ th[t].then = "idle" /\ ~Adds(th[t])
  BY <1>0, <1>1 DEF Counting, Reclaiming, Enqueuing, Goal, Offers, EnqueueGoals, CallAgrees, Adds
<1>6. th[t].got = Null /\ th[t].victim = Null /\ th[t].attempts = 0 /\ ~Takes(th[t])
  BY <1>0, <1>1, <1>5 DEF CallAgrees, Takes
<1>7. Goal(x) = "eread" /\ ~Reclaiming(x)
  BY <1>4 DEF Goal, Reclaiming
<1>8. /\ ~Counting(x) /\ ~Retrying(x) /\ Offers(x) /\ ~Adds(x) /\ ~Takes(x)
      /\ ~Writing(x)
  BY <1>4, <1>5, <1>6, <1>7 DEF Counting, Retrying, Offers, Adds, Takes, Writing
<1>9. CallAgrees(x)
  <2>1. 0 \in 0..THREADS /\ THREADS # 0
    BY StateQueueAssumption
  <2>. QED
    BY <1>4, <1>5, <1>6, <1>8, <2>1 DEF CallAgrees
<1>10. MemoryKept(t)
  BY <1>1, <1>3, <1>8, MemorySame
<1>11. Held(th[t]) = Held(x)
  BY <1>1, <1>4 DEF Held, Doomed, Deferred, Removed, Pending
<1>12. /\ Order(w)'
       /\ \A l \in Queues : Contents(l)' = Contents(l)
  BY <1>1, <1>3, <1>4, <1>8, <1>10, <1>11, OrderStays
<1>13. BooksInv' /\ \A u \in Threads : Taken(u)' = Taken(u)
  BY <1>1, <1>3, <1>4, <1>5, <1>6, <1>8, <1>9, <1>10, <1>12, OfferBooks
<1>. QED
  BY <1>1, <1>12, <1>13 DEF OrderInv, Stutters

\* A step of queue_dequeue that leaves the queue and the memory alone.
LEMMA DequeuerStep ==
    ASSUME NEW R, QueueInv(R), NEW w \in [Queues -> Seq(Seats)], Order(w), BooksInv, NodesInv',
           NEW t \in Threads, NEW x, th' = [th EXCEPT ![t] = x],
           UNCHANGED <<mem, allocated, ends, count, fresh, explored>>,
           th[t].pc \in {"idle"} \cup DequeueAims,
           \/ x.pc \in DequeueAims /\ x.then = th[t].then
           \/ /\ x.pc = "unhazard" /\ x.then = "dretry"
              /\ x.old.head = Null => ends[x.queue].head = Null,
           x.queue = th[t].queue, x.attempts = th[t].attempts, x.got = th[t].got,
           x.victim = th[t].victim, x.deferred = th[t].deferred
    PROVE  OrderInv' /\ BooksInv' /\ Stutters
<1>1. /\ LocalsAgree(th[t]) /\ th[t] \in Locals /\ CallAgrees(th[t]) /\ LocalsAgree(x)
  BY VariablesAgree, VariablesAgreeNext
<1>2. /\ th[t].pc # "dload" /\ ~Reclaiming(th[t]) /\ th[t].pc \notin {"unhazard", "dretry"}
      /\ Aim(th[t]) \in {"idle"} \cup DequeueAims
  <2>1. "dretry" \notin Labels
    BY DEF Labels
  <2>2. th[t].pc # "dretry"
    BY <1>1, <2>1 DEF Locals
  <2>. QED
    BY <2>2 DEF DequeueAims, Aim, Goal, Reclaiming
<1>3. th[t].then = "idle" /\ th[t].victim = Null
  BY <1>1, <1>2 DEF CallAgrees
<1>4. x.pc # "unhazard" => x.then = "idle"
  BY <1>3
<1>5. /\ ~Reclaiming(x) /\ Aim(x) \in DequeueAims /\ ~Writing(x) /\ x.pc # "dload"
      /\ Retrying(x) => x.pc \in {"unhazard", "dretry"}
  BY <1>3, <1>4 DEF DequeueAims, Aim, Goal, Reclaiming, Writing, Retrying
<1>6. x.pc # "dretry"
  <2>1. x \in Locals /\ "dretry" \notin Labels
    BY VariablesAgreeNext DEF Labels
  <2>. QED
    BY <2>1 DEF Locals
<1>7. Retrying(x) /\ x.old.head = Null => ends[x.queue].head = Null
  BY <1>5, <1>6 DEF DequeueAims
<1>8. Quiet(t, x)
  BY <1>1, <1>2, <1>3, <1>4, <1>5, <1>7, DequeuerQuiet
<1>9. Held(th[t]) \subseteq Held(x)
  <2>1. Pending(th[t]) = {}
    BY DEF Pending, DequeueAims
  <2>. QED
    BY <1>2, <2>1 DEF Held, Doomed, Deferred, Removed
<1>. QED
  BY <1>5, <1>8, <1>9, LocalStep

\* queue_dequeue is called: no queue is visited yet.
LEMMA DequeueStep ==
    ASSUME NEW R, QueueInv(R), NEW w \in [Queues -> Seq(Seats)], Order(w), BooksInv, NodesInv',
           NEW t \in Threads, Dequeue(t)
    PROVE  OrderInv' /\ BooksInv' /\ Stutters
<1>0. th[t] \in Locals
  BY VariablesAgree
<1>1. PICK x : x = [th[t] EXCEPT !.pc = "dread"]
  OBVIOUS
<1>2. /\ th[t].pc = "idle" /\ th' = [th EXCEPT ![t] = x]
      /\ UNCHANGED <<mem, allocated, ends, count, fresh, explored>>
  BY <1>1 DEF Dequeue, At, shared
<1>3. /\ x.pc = "dread" /\ x.then = th[t].then /\ x.queue = th[t].queue
      /\ x.attempts = th[t].attempts /\ x.got = th[t].got /\ x.victim = th[t].victim
      /\ x.deferred = th[t].deferred
  BY ZenonT(40), <1>0, <1>1 DEF Locals
<1>4. x.pc \in DequeueAims
  BY <1>3 DEF DequeueAims
<1>. QED
  BY <1>2, <1>3, <1>4, DequeuerStep

\* Announcing a node moves no state.
LEMMA DequeueHazardStep ==
    ASSUME NEW R, QueueInv(R), NEW w \in [Queues -> Seq(Seats)], Order(w), BooksInv, NodesInv',
           NEW t \in Threads, DequeueHazard(t)
    PROVE  OrderInv' /\ BooksInv' /\ Stutters
<1>0. th[t] \in Locals
  BY VariablesAgree
<1>1. PICK x : x = [th[t] EXCEPT !.pc = "dcheck"]
  OBVIOUS
<1>2. /\ th[t].pc = "dhazard" /\ th' = [th EXCEPT ![t] = x]
      /\ UNCHANGED <<mem, allocated, ends, count, fresh, explored>>
  BY <1>1 DEF DequeueHazard, At
<1>3. /\ x.pc = "dcheck" /\ x.then = th[t].then /\ x.queue = th[t].queue
      /\ x.attempts = th[t].attempts /\ x.got = th[t].got /\ x.victim = th[t].victim
      /\ x.deferred = th[t].deferred
  BY ZenonT(40), <1>0, <1>1 DEF Locals
<1>4. x.pc \in DequeueAims /\ th[t].pc \in DequeueAims
  BY <1>2, <1>3 DEF DequeueAims
<1>. QED
  BY <1>2, <1>3, <1>4, DequeuerStep

\* The second check fails with the ends to retry with: empty if they are empty now.
LEMMA DequeueCheckStep ==
    ASSUME NEW R, QueueInv(R), NEW w \in [Queues -> Seq(Seats)], Order(w), BooksInv, NodesInv',
           NEW t \in Threads, DequeueCheck(t)
    PROVE  OrderInv' /\ BooksInv' /\ Stutters
<1>0. th[t] \in Locals
  BY VariablesAgree
<1>1. /\ th[t].pc = "dcheck"
      /\ UNCHANGED <<mem, allocated, ends, count, fresh, explored>>
  BY DEF DequeueCheck, At, shared
<1>2. th[t].pc \in DequeueAims
  BY <1>1 DEF DequeueAims
<1>3. CASE EndsUnchanged(t)
  <2>1. PICK g \in {"dcas", "dnext"} :
           g = IF LastOne(th[t].ends) \/ IsStateSlot(th[t].ends.head) THEN "dcas" ELSE "dnext"
    OBVIOUS
  <2>2. PICK x : x = [th[t] EXCEPT !.pc = g]
    OBVIOUS
  <2>3. th' = [th EXCEPT ![t] = x]
    BY <1>3, <2>1, <2>2 DEF DequeueCheck
  <2>4. /\ x.pc = g /\ x.then = th[t].then /\ x.queue = th[t].queue
        /\ x.attempts = th[t].attempts /\ x.got = th[t].got /\ x.victim = th[t].victim
        /\ x.deferred = th[t].deferred
    BY ZenonT(40), <1>0, <2>2 DEF Locals
  <2>5. x.pc \in DequeueAims
    BY <2>1, <2>4 DEF DequeueAims
  <2>. QED
    BY <1>1, <1>2, <2>3, <2>4, <2>5, DequeuerStep
<1>4. CASE ~EndsUnchanged(t)
  <2>1. PICK e : e = ends[th[t].queue]
    OBVIOUS
  <2>2. PICK x : x = [th[t] EXCEPT !.old = e, !.pc = "unhazard", !.then = "dretry"]
    OBVIOUS
  <2>3. th' = [th EXCEPT ![t] = x]
    BY <1>4, <2>1, <2>2 DEF DequeueCheck
  <2>4. /\ x.pc = "unhazard" /\ x.then = "dretry" /\ x.queue = th[t].queue /\ x.old = e
        /\ x.attempts = th[t].attempts /\ x.got = th[t].got /\ x.victim = th[t].victim
        /\ x.deferred = th[t].deferred
    BY ZenonT(40), <1>0, <2>2 DEF Locals
  <2>. QED
    BY <1>1, <1>2, <2>1, <2>3, <2>4, DequeuerStep
<1>. QED
  BY <1>3, <1>4

\* The next node is loaded while the head is still on the list.
LEMMA DequeueNextStep ==
    ASSUME NEW R, QueueInv(R), NEW w \in [Queues -> Seq(Seats)], Order(w), BooksInv, NodesInv',
           NEW t \in Threads, DequeueNext(t)
    PROVE  OrderInv' /\ BooksInv' /\ Stutters
<1>0. th[t] \in Locals
  BY VariablesAgree
<1>1. PICK n : n = Load(th[t].ends.head)
  OBVIOUS
<1>2. PICK x : x = [th[t] EXCEPT !.node = n, !.pc = "dskip"]
  OBVIOUS
<1>3. /\ th[t].pc = "dnext" /\ th' = [th EXCEPT ![t] = x]
      /\ UNCHANGED <<mem, allocated, ends, count, fresh, explored>>
  BY <1>1, <1>2 DEF DequeueNext, At, shared
<1>4. /\ x.pc = "dskip" /\ x.then = th[t].then /\ x.queue = th[t].queue
      /\ x.attempts = th[t].attempts /\ x.got = th[t].got /\ x.victim = th[t].victim
      /\ x.deferred = th[t].deferred
  BY ZenonT(40), <1>0, <1>2 DEF Locals
<1>5. x.pc \in DequeueAims /\ th[t].pc \in DequeueAims
  BY <1>3, <1>4 DEF DequeueAims
<1>. QED
  BY <1>3, <1>4, <1>5, DequeuerStep

\* ... of one whose compare-and-swap fails.
LEMMA DequeueFailsStep ==
    ASSUME NEW R, QueueInv(R), NEW w \in [Queues -> Seq(Seats)], Order(w), BooksInv, NodesInv',
           NEW t \in Threads, th[t].pc \in {"dskip", "dcas"},
           NEW n, NEW e, e = ends[th[t].queue], NEW x,
           x = [th[t] EXCEPT !.pc = "unhazard", !.then = "dretry", !.old = e, !.node = n],
           th' = [th EXCEPT ![t] = x],
           UNCHANGED <<mem, allocated, ends, count, fresh, explored>>
    PROVE  OrderInv' /\ BooksInv' /\ Stutters
<1>0. th[t] \in Locals
  BY VariablesAgree
<1>1. /\ x.pc = "unhazard" /\ x.then = "dretry" /\ x.queue = th[t].queue /\ x.old = e
      /\ x.attempts = th[t].attempts /\ x.got = th[t].got /\ x.victim = th[t].victim
      /\ x.deferred = th[t].deferred
  BY ZenonT(40), <1>0 DEF Locals
<1>2. th[t].pc \in DequeueAims
  BY DEF DequeueAims
<1>3. x.old.head = Null => ends[x.queue].head = Null
  BY <1>1
<1>. QED
  BY <1>1, <1>2, <1>3, DequeuerStep

\* A queue is given up when it is empty as it is read.
LEMMA DequeueReadStep ==
    ASSUME NEW R, QueueInv(R), NEW w \in [Queues -> Seq(Seats)], Order(w), BooksInv, NodesInv',
           NEW t \in Threads, DequeueRead(t)
    PROVE  OrderInv' /\ BooksInv' /\ Stutters
<1>0. th[t] \in Locals /\ CallAgrees(th[t]) /\ LocalsAgree(th[t])
  BY VariablesAgree
<1>1. /\ th[t].pc = "dread" /\ UNCHANGED <<mem, allocated, ends, count, fresh, explored>>
  BY DEF DequeueRead, At, shared
<1>2. PICK e \in Ends : e = ends[th[t].queue]
  BY LocalsTyped
<1>3. PICK l \in Locals : l = th[t]
  BY <1>0
<1>4. PICK x : x = DequeueRetry(l, e)
  OBVIOUS
<1>5. th' = [th EXCEPT ![t] = x]
  BY <1>2, <1>3, <1>4 DEF DequeueRead
<1>6. /\ Aim(l) = "dread" /\ ~Reclaiming(l) /\ l.then = "idle"
  BY <1>0, <1>1, <1>3 DEF Aim, Reclaiming, Goal, CallAgrees
<1>7. l.victim = Null /\ l.node = Null
  BY <1>0, <1>1, <1>3, <1>6 DEF CallAgrees, LocalsAgree
<1>8. Quiet(t, x)
  BY <1>0, <1>1, <1>2, <1>3, <1>4, <1>6, <1>7, RetryQuiet
<1>9. /\ x.pc \in {"dhazard", "done", "dread"}
      /\ x.victim = l.victim /\ x.deferred = l.deferred
  BY <1>4, <1>7, DequeueRetryGoes
<1>10. Held(th[t]) \subseteq Held(x) /\ ~Writing(x)
  BY <1>1, <1>3, <1>9 DEF Held, Pending, Doomed, Deferred, Removed, Writing
<1>. QED
  BY <1>1, <1>5, <1>8, <1>10, LocalStep

\* The head is moved past a chained pointer: no state moves.
LEMMA DequeueSkipStep ==
    ASSUME NEW R \in [Queues -> SUBSET Nodes], QueueInv(R),
           NEW w \in [Queues -> Seq(Seats)], Order(w), BooksInv, NodesInv',
           NEW t \in Threads, DequeueSkip(t)
    PROVE  OrderInv' /\ BooksInv' /\ Stutters
<1>0. th[t] \in Locals /\ CallAgrees(th[t]) /\ LocalsAgree(th[t]) /\ NextAgrees(th[t])
  BY VariablesAgree, LocalsTyped
<1>1. /\ th[t].pc = "dskip" /\ th[t].then = "idle"
      /\ UNCHANGED <<mem, allocated, count, fresh, explored>>
  BY <1>0 DEF DequeueSkip, At, CallAgrees
<1>2. PICK k \in Queues : k = th[t].queue
  BY <1>0 DEF Locals
<1>3. ends \in [Queues -> Ends]
  BY DEF QueueInv, QueuesTyped
<1>4. CASE ends[k] = th[t].ends
  <2>1. PICK e : e = [ends[k] EXCEPT !.head = FirstHandle(th[t].node)]
    OBVIOUS
  <2>2. PICK v : v = Base(ends[k].head)
    OBVIOUS
  <2>3. PICK x : x = [th[t] EXCEPT !.pc = "unhazard", !.then = "reclaim", !.victim = v,
                                   !.after = "dretry", !.old = e, !.node = Null]
    OBVIOUS
  <2>4. th' = [th EXCEPT ![t] = x] /\ ends' = [ends EXCEPT ![k] = e]
    <3>1. e = [ends[th[t].queue] EXCEPT !.head = FirstHandle(th[t].node)]
      BY <1>2, <2>1
    <3>2. ends[th[t].queue] = th[t].ends /\ v = Base(th[t].ends.head)
      BY <1>2, <1>4, <2>2
    <3>3. /\ th' = [th EXCEPT ![t].pc = "unhazard", ![t].then = "reclaim",
                             ![t].victim = v, ![t].after = "dretry", ![t].old = e,
                             ![t].node = Null]
          /\ ends' = [ends EXCEPT ![th[t].queue] = e]
      BY <3>1, <3>2, Zenon DEF DequeueSkip
    <3>4. th' = [th EXCEPT ![t] = x]
      BY <2>3, <3>3, Zenon
    <3>. QED
      BY <1>2, <3>3, <3>4, Zenon
  <2>5. /\ x.pc = "unhazard" /\ x.then = "reclaim" /\ x.victim = v /\ x.after = "dretry"
        /\ x.old = e /\ x.queue = th[t].queue /\ x.deferred = th[t].deferred
        /\ x.attempts = th[t].attempts /\ x.got = th[t].got
    BY ZenonT(40), <1>0, <2>3 DEF Locals
  <2>6. ~Reclaiming(th[t]) /\ th[t].victim = Null
    BY <1>0, <1>1 DEF Reclaiming, Goal, CallAgrees
  <2>7. OrderInv' /\ \A l \in Queues : Contents(l)' = Contents(l)
    BY ZenonT(40), <1>1, <1>2, <1>4, <2>1, <2>2, <2>4, <2>5, <2>6, SkipOrders
  <2>8. e.head # Null
    <3>1. th[t].node \in Nodes
      BY <1>0, <1>1 DEF NextAgrees, Settled
    <3>2. e.head = FirstHandle(th[t].node)
      BY <1>3, <2>1 DEF Ends, EndsType
    <3>. QED
      BY <3>1, <3>2, HandleOf
  <2>9. ends[k].head # Null
    BY <1>0, <1>1, <1>4 DEF LocalsAgree, Goal, DequeueGoals
  <2>10. \A l \in Queues : ends'[l].head = Null <=> ends[l].head = Null
    BY <1>3, <2>4, <2>8, <2>9
  <2>11. Aim(th[t]) \in DequeueAims /\ Reclaiming(x) /\ Aim(x) \in DequeueAims
    BY <1>1, <2>5, <2>6 DEF Aim, Goal, Reclaiming, DequeueAims
  <2>12. LocalsAgree(x)
    BY <2>4, VariablesAgreeNext
  <2>13. Quiet(t, x)
    BY <1>0, <1>1, <2>5, <2>8, <2>11, <2>12, DequeuerQuiet
  <2>14. MemoryKept(t)
    BY <1>1, <2>4, <2>5, MemorySame DEF Writing
  <2>15. BooksInv' /\ \A u \in Threads : Taken(u)' = Taken(u)
    BY <2>4, <2>7, <2>10, <2>13, <2>14, BooksStay
  <2>. QED
    BY <1>1, <2>7, <2>15 DEF Stutters
<1>5. CASE ends[k] # th[t].ends
  <2>1. PICK x : x = [th[t] EXCEPT !.pc = "unhazard", !.then = "dretry",
                                   !.old = ends[th[t].queue], !.node = Null]
    OBVIOUS
  <2>2. th' = [th EXCEPT ![t] = x] /\ ends' = ends
    BY <1>2, <1>5, <2>1 DEF DequeueSkip
  <2>. QED
    BY <1>1, <2>1, <2>2, DequeueFailsStep
<1>. QED
  BY <1>4, <1>5

\* The linearization point of queue_dequeue; or it has failed.
LEMMA DequeueCASStep ==
    ASSUME NEW R \in [Queues -> SUBSET Nodes], QueueInv(R),
           NEW w \in [Queues -> Seq(Seats)], Order(w), BooksInv, NodesInv',
           NEW t \in Threads, DequeueCAS(t)
    PROVE  OrderInv' /\ BooksInv' /\ Moves
<1>0. th[t] \in Locals /\ CallAgrees(th[t]) /\ LocalsAgree(th[t])
  BY VariablesAgree
<1>1. /\ th[t].pc = "dcas" /\ th[t].then = "idle"
      /\ UNCHANGED <<mem, allocated, count, fresh, explored>>
  BY <1>0 DEF DequeueCAS, At, CallAgrees
<1>2. PICK k \in Queues : k = th[t].queue
  BY <1>0 DEF Locals
<1>3. ends \in [Queues -> Ends]
  BY DEF QueueInv, QueuesTyped
<1>4. CASE ends[k] = th[t].ends
  <2>1. PICK e : e = IF LastOne(ends[k]) THEN NoEnds
                     ELSE [head |-> NextHandle(ends[k].head), tail |-> ends[k].tail]
    OBVIOUS
  <2>2. PICK x : x = [th[t] EXCEPT !.pc = "dload"]
    OBVIOUS
  <2>3. /\ th' = [th EXCEPT ![t].pc = "dload"] /\ th' = [th EXCEPT ![t] = x]
        /\ ends' = [ends EXCEPT ![k] = e]
    BY <1>2, <1>4, <2>1, <2>2 DEF DequeueCAS
  <2>4. /\ x.pc = "dload" /\ x.then = "idle" /\ x.queue = k /\ x.ends = ends[k]
        /\ x.attempts = th[t].attempts /\ x.got = th[t].got /\ x.victim = th[t].victim
    BY ZenonT(40), <1>0, <1>1, <1>2, <1>4, <2>2 DEF Locals
  <2>5. /\ OrderInv'
        /\ Contents(k) \in Seq(States) /\ Contents(k) # <<>>
        /\ Load(ends[k].head) = Head(Contents(k))
        /\ Contents(k)' = Tail(Contents(k))
        /\ \A l \in Queues \ {k} : Contents(l)' = Contents(l)
    BY <1>1, <1>2, <1>4, <2>1, <2>3, CASDequeues
  <2>6. MemoryKept(t)
    BY <1>1, <2>3, <2>4, MemorySame DEF Writing
  <2>7. ends[k].head # Null
    BY <1>0, <1>1, <1>4 DEF LocalsAgree, Goal, DequeueGoals
  <2>8. \A l \in Queues : ends'[l].head # Null => ends[l].head # Null
    BY <1>3, <2>3, <2>7
  <2>9. /\ ~Reclaiming(th[t]) /\ ~Counting(th[t]) /\ ~Offers(th[t]) /\ ~Adds(th[t])
        /\ ~Reclaiming(x) /\ ~Counting(x) /\ ~Offers(x) /\ ~Adds(x) /\ ~Retrying(x)
        /\ ~Enqueuing(x)
    BY <1>1, <2>4 DEF Reclaiming, Counting, Retrying, Offers, Adds, Enqueuing, Goal, EnqueueGoals
  <2>10. th[t].got = Null /\ ~Takes(th[t])
    BY <1>0, <1>1, <2>9 DEF CallAgrees, Takes
  <2>11. CallAgrees(x)
    BY <1>0, <1>1, <2>4, <2>9 DEF CallAgrees
  <2>12. Load(x.ends.head)' = Head(Contents(k))
    BY <1>1, <2>4, <2>5 DEF Load
  <2>13. Visited(x) \subseteq Visited(th[t])
    BY <1>2, <2>4, <2>9 DEF Visited
  <2>14. PICK C \in Seq(States) :
            /\ C = Contents(k) /\ C # <<>> /\ Contents(k)' = Tail(C)
            /\ Load(x.ends.head)' = Head(C)
    BY <2>5, <2>12
  <2>15. /\ BooksInv'
         /\ Taken(t) = Null /\ Taken(t)' = Head(C)
         /\ \A u \in Threads \ {t} : Taken(u)' = Taken(u)
    <3>1. th' = [th EXCEPT ![t] = x] /\ UNCHANGED <<count, fresh, explored>> /\ th[t].queue = k
      BY <1>1, <1>2, <2>3
    <3>2. \A l \in Queues \ {k} : Contents(l)' = Contents(l)
      BY <2>5
    <3>3. x.pc = "dload" /\ x.queue = k /\ Contents(k) = C
      BY <2>4, <2>14
    <3>. QED
      BY <2>6, <2>8, <2>9, <2>10, <2>11, <2>13, <2>14, <3>1, <3>2, <3>3, TakeBooks
  <2>16. Taking(t, k)
    BY <1>1, <2>5, <2>14, <2>15 DEF Taking
  <2>. QED
    BY <2>5, <2>15, <2>16 DEF Moves
<1>5. CASE ends[k] # th[t].ends
  <2>1. PICK n : n = th[t].node
    OBVIOUS
  <2>2. PICK x : x = [th[t] EXCEPT !.pc = "unhazard", !.then = "dretry",
                                   !.old = ends[th[t].queue], !.node = n]
    OBVIOUS
  <2>3. x = [th[t] EXCEPT !.pc = "unhazard", !.then = "dretry", !.old = ends[th[t].queue]]
    BY <1>0, <2>1, <2>2 DEF Locals
  <2>4. th' = [th EXCEPT ![t] = x] /\ ends' = ends
    BY <1>2, <1>5, <2>3 DEF DequeueCAS
  <2>. QED
    BY <1>1, <2>2, <2>4, DequeueFailsStep DEF Moves
<1>. QED
  BY <1>4, <1>5

\* The state that is loaded is the one that was removed: nobody can have written there
\* since.
LEMMA DequeueLoadStep ==
    ASSUME NEW R \in [Queues -> SUBSET Nodes], QueueInv(R),
           NEW w \in [Queues -> Seq(Seats)], Order(w), BooksInv, NodesInv',
           NEW t \in Threads, DequeueLoad(t)
    PROVE  OrderInv' /\ BooksInv' /\ Stutters
<1>0. th[t] \in Locals /\ CallAgrees(th[t])
  BY VariablesAgree
<1>1. /\ th[t].pc = "dload" /\ th[t].then = "idle"
      /\ UNCHANGED <<mem, allocated, ends, count, fresh, explored>>
  BY <1>0 DEF DequeueLoad, At, shared, CallAgrees
<1>2. PICK s : s = Load(th[t].ends.head)
  OBVIOUS
<1>3. s \in States /\ s # Null /\ Taken(t) = s
  BY <1>1, <1>2, StateQueueAssumption DEF Order, Loading, Firm, At, Taken
<1>4a. PICK g \in {"reclaim", "dcount"} :
          g = IF LastOne(th[t].ends) THEN "reclaim" ELSE "dcount"
  OBVIOUS
<1>4. PICK v : v = IF LastOne(th[t].ends) THEN Base(th[t].ends.head) ELSE Null
  OBVIOUS
<1>5. PICK x : x = [th[t] EXCEPT !.got = s, !.pc = "unhazard", !.then = g, !.victim = v,
                                 !.after = "dcount"]
  OBVIOUS
<1>6. th' = [th EXCEPT ![t] = x]
  BY <1>2, <1>4a, <1>4, <1>5 DEF DequeueLoad
<1>7. /\ x.pc = "unhazard" /\ x.then = g /\ x.victim = v /\ x.after = "dcount" /\ x.got = s
      /\ x.queue = th[t].queue /\ x.attempts = th[t].attempts /\ x.deferred = th[t].deferred
  BY ZenonT(40), <1>0, <1>5 DEF Locals
<1>8. /\ ~Reclaiming(th[t]) /\ ~Offers(th[t]) /\ ~Adds(th[t]) /\ Takes(th[t]) /\ ~Retrying(th[t])
      /\ Counting(x) /\ ~Offers(x) /\ ~Adds(x) /\ Takes(x) /\ ~Retrying(x) /\ ~Enqueuing(x)
      /\ v # Null => Reclaiming(x)
  BY <1>1, <1>3, <1>4a, <1>4, <1>7
     DEF Reclaiming, Counting, Retrying, Offers, Adds, Takes, Enqueuing, Goal, EnqueueGoals
<1>9. CallAgrees(x)
  BY <1>0, <1>1, <1>3, <1>7, <1>8 DEF CallAgrees
<1>10. Quiet(t, x)
  BY <1>1, <1>3, <1>7, <1>8, <1>9 DEF Quiet, Visited
<1>11. Held(th[t]) \subseteq Held(x) /\ ~Writing(x)
  <2>1. Pending(th[t]) = {} /\ th[t].victim = Null
    BY <1>0, <1>1, <1>8 DEF Pending, CallAgrees
  <2>2. Removed(th[t]) \subseteq {v} \ {Null}
    <3>1. th[t].ends.head # Null => Base(th[t].ends.head) # Null
      BY <1>0, StateQueueAssumption DEF Locals, Ends, EndsType, Handles, Base
    <3>2. th[t].ends.head # Null
      BY <1>1, VariablesAgree DEF LocalsAgree, Goal, DequeueGoals
    <3>. QED
      BY <1>1, <1>4, <3>1, <3>2 DEF Removed
  <2>. QED
    BY <1>1, <1>7, <2>1, <2>2 DEF Held, Doomed, Deferred, Writing
<1>. QED
  BY <1>1, <1>6, <1>10, <1>11, LocalStep

\* The count catches up, and the state is returned.
LEMMA DequeueCountStep ==
    ASSUME NEW R \in [Queues -> SUBSET Nodes], QueueInv(R),
           NEW w \in [Queues -> Seq(Seats)], Order(w), BooksInv, NodesInv',
           NEW t \in Threads, DequeueCount(t)
    PROVE  OrderInv' /\ BooksInv' /\ Moves
<1>0. th[t] \in Locals /\ CallAgrees(th[t])
  BY VariablesAgree
<1>1. /\ th[t].pc = "dcount" /\ th[t].then = "idle"
      /\ UNCHANGED <<mem, allocated, ends, fresh>>
      /\ count' = [count EXCEPT ![th[t].queue] = @ - 1]
      /\ explored' = explored \cup {th[t].got}
  BY <1>0 DEF DequeueCount, CountedQueue, At, CallAgrees
<1>2. PICK x : x = [StartLocals(t) EXCEPT !.deferred = th[t].deferred, !.queue = th[t].queue]
  OBVIOUS
<1>3. th' = [th EXCEPT ![t] = x]
  BY <1>1, <1>2 DEF DequeueCount
<1>4. /\ x.pc = "idle" /\ x.then = "idle" /\ x.queue = th[t].queue /\ x.attempts = 0
      /\ x.got = Null /\ x.victim = Null /\ x.deferred = th[t].deferred
  BY ZenonT(40), <1>2 DEF StartLocals
<1>5. CallAgrees(x) /\ ~Offers(x) /\ ~Adds(x) /\ ~Takes(x) /\ ~Retrying(x)
  BY <1>4, IdleAgrees
<1>6. ~Offers(th[t]) /\ ~Adds(th[t]) /\ ~Writing(x) /\ Counting(th[t]) /\ ~Reclaiming(th[t])
  BY <1>1, <1>4 DEF Offers, Goal, EnqueueGoals, Adds, Writing, Counting, Reclaiming
<1>7. th[t].got # Null /\ th[t].victim = Null
  BY <1>0, <1>6 DEF CallAgrees
<1>8. MemoryKept(t)
  BY <1>1, <1>3, <1>6, MemorySame
<1>9. Held(th[t]) = Held(x)
  BY <1>1, <1>4, <1>7 DEF Held, Doomed, Deferred, Removed, Pending
<1>10. /\ Order(w)'
       /\ \A k \in Queues : Contents(k)' = Contents(k)
  BY <1>1, <1>3, <1>4, <1>6, <1>8, <1>9, OrderStays
<1>11. x.queue \in Queues
  BY <1>0, <1>4 DEF Locals
<1>12. PICK s : s = th[t].got
  OBVIOUS
<1>13. /\ BooksInv'
       /\ Taken(t) = s /\ s \in States /\ s \notin explored /\ Taken(t)' = Null
       /\ \A u \in Threads \ {t} : Taken(u)' = Taken(u)
  BY <1>1, <1>3, <1>4, <1>5, <1>6, <1>7, <1>8, <1>10, <1>11, <1>12, ReturnBooks
<1>14. Returning(t)
  BY <1>1, <1>7, <1>10, <1>12, <1>13 DEF Returning
<1>. QED
  BY <1>10, <1>13, <1>14 DEF OrderInv, Moves

\* The call goes on where it left off.
LEMMA UnhazardStep ==
    ASSUME NEW R, QueueInv(R), NEW w \in [Queues -> Seq(Seats)], Order(w), BooksInv, NodesInv',
           NEW t \in Threads, Unhazard(t)
    PROVE  OrderInv' /\ BooksInv' /\ Stutters
<1>0. th[t] \in Locals /\ CallAgrees(th[t]) /\ LocalsAgree(th[t])
  BY VariablesAgree
<1>1. /\ th[t].pc = "unhazard"
      /\ UNCHANGED <<mem, allocated, ends, count, fresh, explored>>
  BY DEF Unhazard, At
<1>2. PICK g : g = th[t].then
  OBVIOUS
<1>3. /\ g \in {"efirst", "ehazard", "ecount", "dretry", "reclaim", "dcount"}
      /\ Goal(th[t]) = g /\ th[t].node = Null
      /\ g \in {"efirst", "ehazard"} => th[t].s \in States
      /\ g = "efirst" => th[t].ends.tail = Null
      /\ g = "ehazard" => th[t].ends.tail # Null
      /\ g = "reclaim" => th[t].after \in {"dretry", "dcount"}
  BY <1>0, <1>1, <1>2 DEF LocalsAgree, Goal, EnqueueGoals
<1>4. PICK l : l = [th[t] EXCEPT !.then = "idle"]
  OBVIOUS
<1>5. /\ l \in Locals /\ l.then = "idle" /\ l.queue = th[t].queue /\ l.s = th[t].s
      /\ l.attempts = th[t].attempts /\ l.got = th[t].got /\ l.victim = th[t].victim
      /\ l.deferred = th[t].deferred /\ l.old = th[t].old /\ l.after = th[t].after
      /\ l.node = Null /\ l.ends = th[t].ends
  <2>1. l \in Locals
    BY ZenonT(40), <1>0, <1>4 DEF Locals, Labels, Targets
  <2>. QED
    BY ZenonT(60), <1>0, <1>3, <1>4, <2>1 DEF Locals
<1>6. PICK x : x = Resume(l, g)
  OBVIOUS
<1>7. th' = [th EXCEPT ![t] = x]
  BY <1>2, <1>4, <1>6 DEF Unhazard
<1>8. /\ LocalsAgree(x) /\ x.victim = l.victim /\ x.deferred = l.deferred
      /\ x.pc \in {"efirst", "ehazard", "ecount", "dcount", "dhazard", "done", "dread", "rold"}
  BY <1>3, <1>5, <1>6, ResumeGoes
<1>9. Held(th[t]) \subseteq Held(x) /\ ~Writing(x)
  BY <1>1, <1>5, <1>8 DEF Held, Pending, Doomed, Deferred, Removed, Writing
<1>10. Quiet(t, x)
  <2>1. CASE g = "dretry"
    <3>1. PICK e \in Ends : e = th[t].old
      BY <1>0 DEF Locals
    <3>2. PICK m : m = [l EXCEPT !.old = NoEnds]
      OBVIOUS
    <3>3. /\ m \in Locals /\ m.then = "idle" /\ m.queue = th[t].queue
          /\ m.attempts = th[t].attempts /\ m.got = th[t].got /\ m.victim = th[t].victim
      BY ZenonT(40), <1>5, <3>2, LocalsTyped DEF Locals
    <3>4. x = DequeueRetry(m, e)
      BY <1>5, <1>6, <2>1, <3>1, <3>2 DEF Resume
    <3>5. ~Reclaiming(th[t]) /\ Aim(th[t]) = "dretry" /\ Retrying(th[t])
      BY <1>1, <1>3, <2>1 DEF Reclaiming, Aim, Retrying
    <3>6. m.victim = Null
      BY <1>0, <3>3, <3>5 DEF CallAgrees
    <3>. QED
      BY <1>0, <1>1, <3>1, <3>3, <3>4, <3>5, <3>6, RetryQuiet
  <2>2. CASE g = "reclaim"
    <3>1. x = [l EXCEPT !.pc = "rold", !.i = 1, !.j = 0]
      BY <1>6, <2>2 DEF Resume
    <3>2. /\ x.pc = "rold" /\ x.then = "idle" /\ x.queue = th[t].queue /\ x.s = th[t].s
          /\ x.attempts = th[t].attempts /\ x.got = th[t].got /\ x.old = th[t].old
          /\ x.after = th[t].after
      BY ZenonT(40), <1>5, <3>1 DEF Locals
    <3>3. Reclaiming(th[t]) /\ Reclaiming(x) /\ Aim(x) = Aim(th[t])
      BY <1>3, <2>2, <3>2 DEF Reclaiming, Aim
    <3>. QED
      BY <1>0, <1>1, <1>8, <3>2, <3>3, SameAim
  <2>3. CASE g \notin {"dretry", "reclaim"}
    <3>1. x = [l EXCEPT !.pc = g]
      BY <1>6, <2>3 DEF Resume
    <3>2. /\ x.pc = g /\ x.then = "idle" /\ x.queue = th[t].queue /\ x.s = th[t].s
          /\ x.attempts = th[t].attempts /\ x.got = th[t].got /\ x.old = th[t].old
      BY ZenonT(40), <1>5, <3>1 DEF Locals
    <3>3. /\ ~Reclaiming(th[t]) /\ ~Reclaiming(x) /\ Aim(x) = g /\ Aim(th[t]) = g
          /\ x.pc \notin {"unhazard", "dload"}
      BY <1>1, <1>3, <2>3, <3>2 DEF Reclaiming, Aim, Goal
    <3>4. x.victim = Null
      BY <1>0, <1>5, <1>8, <3>3 DEF CallAgrees
    <3>. QED
      BY <1>0, <1>1, <1>8, <3>2, <3>3, <3>4, SameAim
  <2>. QED
    BY <2>1, <2>2, <2>3
<1>. QED
  BY <1>1, <1>7, <1>9, <1>10, LocalStep

\* A step inside reclaim.
LEMMA ReclaimerStep ==
    ASSUME NEW R, QueueInv(R), NEW w \in [Queues -> Seq(Seats)], Order(w), BooksInv, NodesInv',
           NEW t \in Threads, NEW x, th' = [th EXCEPT ![t] = x],
           UNCHANGED <<mem, ends, count, fresh, explored>>, allocated' \subseteq allocated,
           th[t].pc \in {"rold", "rnew", "rdefer"}, x.pc \in {"rold", "rnew", "rdefer"},
           x.then = th[t].then, x.after = th[t].after, x.old = th[t].old,
           x.queue = th[t].queue, x.s = th[t].s, x.attempts = th[t].attempts,
           x.got = th[t].got, x.victim = th[t].victim,
           Deferred(th[t]) \cap allocated' \subseteq Deferred(x)
    PROVE  OrderInv' /\ BooksInv' /\ Stutters
<1>1. CallAgrees(th[t]) /\ LocalsAgree(th[t]) /\ LocalsAgree(x)
  BY VariablesAgree, VariablesAgreeNext
<1>2. Reclaiming(th[t]) /\ Reclaiming(x) /\ Aim(x) = Aim(th[t])
  BY DEF Reclaiming, Aim
<1>3. x.then = "idle"
  BY <1>1 DEF CallAgrees
<1>4. Quiet(t, x)
  BY <1>1, <1>2, <1>3, SameAim
<1>5. Held(th[t]) \cap allocated' \subseteq Held(x) /\ ~Writing(x)
  BY DEF Held, Pending, Doomed, Removed, Writing
<1>. QED
  BY <1>4, <1>5, LocalStep

\* reclaim() goes on to the next entry and changes nothing else.
LEMMA NextDeferredSame ==
    ASSUME NEW l \in Locals, NEW x, x = NextDeferred(l), l.pc = "rold"
    PROVE  /\ x.pc \in {"rold", "rnew"} /\ x.then = l.then /\ x.after = l.after
           /\ x.old = l.old /\ x.queue = l.queue /\ x.s = l.s /\ x.attempts = l.attempts
           /\ x.got = l.got /\ x.victim = l.victim /\ x.deferred = l.deferred
<1>1. PICK i : x = [l EXCEPT !.i = i, !.j = 0] \/ x = [l EXCEPT !.i = i, !.j = 0, !.pc = "rnew"]
  BY DEF NextDeferred
<1>2. CASE x = [l EXCEPT !.i = i, !.j = 0]
  BY ZenonT(40), <1>2 DEF Locals
<1>3. CASE x = [l EXCEPT !.i = i, !.j = 0, !.pc = "rnew"]
  BY ZenonT(40), <1>3 DEF Locals
<1>. QED
  BY <1>1, <1>2, <1>3

\* A deferred node that is freed was on no list.
LEMMA ReclaimDeferredStep ==
    ASSUME NEW R, QueueInv(R), NEW w \in [Queues -> Seq(Seats)], Order(w), BooksInv, NodesInv',
           NEW t \in Threads, ReclaimDeferred(t)
    PROVE  OrderInv' /\ BooksInv' /\ Stutters
<1>0. th[t] \in Locals /\ LocalsAgree(th[t])
  BY VariablesAgree
<1>1. th[t].pc = "rold" /\ UNCHANGED <<mem, ends, count, fresh, explored>>
  BY DEF ReclaimDeferred, At
<1>2. PICK l \in Locals : l = th[t]
  BY <1>0
<1>3. PICK d : d = l.deferred[l.i]
  OBVIOUS
<1>4. CASE th' = [th EXCEPT ![t] = NextDeferred(l)] /\ allocated' = allocated
  <2>1. PICK x : x = NextDeferred(l)
    OBVIOUS
  <2>2. /\ x.pc \in {"rold", "rnew"} /\ x.then = l.then /\ x.after = l.after
        /\ x.old = l.old /\ x.queue = l.queue /\ x.s = l.s /\ x.attempts = l.attempts
        /\ x.got = l.got /\ x.victim = l.victim /\ x.deferred = l.deferred
    BY <1>1, <1>2, <2>1, NextDeferredSame
  <2>3. Deferred(th[t]) = Deferred(x)
    BY <1>2, <2>2 DEF Deferred
  <2>. QED
    BY <1>1, <1>2, <1>4, <2>1, <2>2, <2>3, ReclaimerStep
<1>5. CASE th' = [th EXCEPT ![t].j = @ + 1] /\ allocated' = allocated
  <2>1. PICK x : x = [th[t] EXCEPT !.j = @ + 1]
    OBVIOUS
  <2>2. th' = [th EXCEPT ![t] = x]
    BY <1>5, <2>1
  <2>3. /\ x.pc = "rold" /\ x.then = l.then /\ x.after = l.after
        /\ x.old = l.old /\ x.queue = l.queue /\ x.s = l.s /\ x.attempts = l.attempts
        /\ x.got = l.got /\ x.victim = l.victim /\ x.deferred = l.deferred
    BY ZenonT(40), <1>1, <1>2, <2>1 DEF Locals
  <2>4. Deferred(th[t]) = Deferred(x)
    BY <1>2, <2>3 DEF Deferred
  <2>. QED
    BY <1>1, <1>2, <1>5, <2>2, <2>3, <2>4, ReclaimerStep
<1>6. CASE th' = [th EXCEPT ![t] = NextDeferred(Forget(l))] /\ allocated' = allocated \ {d}
  <2>1. PICK f : f = Forget(l)
    OBVIOUS
  <2>2. l.i \in 1..THREADS-1
    BY <1>0, <1>1, <1>2 DEF LocalsAgree
  <2>3. /\ f \in Locals /\ f.pc = "rold" /\ f.then = l.then /\ f.after = l.after
        /\ f.old = l.old /\ f.queue = l.queue /\ f.s = l.s /\ f.attempts = l.attempts
        /\ f.got = l.got /\ f.victim = l.victim
        /\ \A i \in 1..THREADS-1 : f.deferred[i] = IF i = l.i THEN Null ELSE l.deferred[i]
    BY <1>1, <1>2, <2>1, <2>2 DEF Forget, Locals
  <2>4. PICK x : x = NextDeferred(f)
    OBVIOUS
  <2>5. /\ x.pc \in {"rold", "rnew"} /\ x.then = f.then /\ x.after = f.after
        /\ x.old = f.old /\ x.queue = f.queue /\ x.s = f.s /\ x.attempts = f.attempts
        /\ x.got = f.got /\ x.victim = f.victim /\ x.deferred = f.deferred
    BY <2>3, <2>4, NextDeferredSame
  <2>6. Deferred(th[t]) \ {d} \subseteq Deferred(x)
    BY <1>2, <1>3, <2>3, <2>5 DEF Deferred
  <2>7. Deferred(th[t]) \cap allocated' \subseteq Deferred(x) /\ allocated' \subseteq allocated
    BY <1>6, <2>6
  <2>8. th' = [th EXCEPT ![t] = x]
    BY <1>6, <2>1, <2>4, Zenon
  <2>9. /\ x.pc \in {"rold", "rnew", "rdefer"} /\ th[t].pc \in {"rold", "rnew", "rdefer"}
        /\ x.then = th[t].then /\ x.after = th[t].after /\ x.old = th[t].old
        /\ x.queue = th[t].queue /\ x.s = th[t].s /\ x.attempts = th[t].attempts
        /\ x.got = th[t].got /\ x.victim = th[t].victim
    BY <1>1, <1>2, <2>3, <2>5
  <2>. QED
    BY <1>1, <2>7, <2>8, <2>9, ReclaimerStep
<1>. QED
  BY <1>2, <1>3, <1>4, <1>5, <1>6 DEF ReclaimDeferred

\* reclaim returns, with deferred list d.
LEMMA ReclaimReturns ==
    ASSUME NEW R, QueueInv(R), NEW w \in [Queues -> Seq(Seats)], Order(w), BooksInv, NodesInv',
           NEW t \in Threads, th[t].pc \in {"rnew", "rdefer"},
           NEW d \in [1..THREADS-1 -> Nodes \cup {Null}],
           NEW l, l = [th[t] EXCEPT !.deferred = d],
           th' = [th EXCEPT ![t] = ReclaimDone(l)],
           UNCHANGED <<mem, ends, count, fresh, explored>>, allocated' \subseteq allocated,
           (({th[t].victim} \ {Null}) \cup Deferred(th[t])) \cap allocated'
               \subseteq {d[i] : i \in 1..THREADS-1} \ {Null}
    PROVE  OrderInv' /\ BooksInv' /\ Stutters
<1>0. th[t] \in Locals /\ CallAgrees(th[t]) /\ LocalsAgree(th[t])
  BY VariablesAgree
<1>1. PICK g \in {"dretry", "dcount"} : g = th[t].after
  BY <1>0 DEF LocalsAgree
<1>2. /\ th[t].then = "idle" /\ th[t].node = Null /\ Reclaiming(th[t]) /\ Aim(th[t]) = g
      /\ th[t].pc # "dload"
  BY <1>0, <1>1 DEF CallAgrees, LocalsAgree, Reclaiming, Aim
<1>3. PICK y : y = [l EXCEPT !.victim = Null, !.j = 0, !.after = "idle"]
  OBVIOUS
<1>4. y = [th[t] EXCEPT !.deferred = d, !.victim = Null, !.j = 0, !.after = "idle"]
  BY <1>0, <1>3 DEF Locals
<1>5. y \in Locals
  <2>1. 0 \in 0..THREADS /\ "idle" \in Targets
    BY StateQueueAssumption DEF Labels, Targets
  <2>. QED
    BY <1>0, <1>4, <2>1 DEF Locals
<1>6. /\ y.then = "idle" /\ y.node = Null /\ y.deferred = d /\ y.victim = Null
      /\ y.queue = th[t].queue /\ y.s = th[t].s /\ y.attempts = th[t].attempts
      /\ y.got = th[t].got /\ y.old = th[t].old
  BY ZenonT(60), <1>0, <1>2, <1>4 DEF Locals
<1>7. PICK x : x = Resume(y, g)
  OBVIOUS
<1>8. th' = [th EXCEPT ![t] = x]
  <2>1. l.after = g
    BY ZenonT(40), <1>0, <1>1 DEF Locals
  <2>. QED
    BY <1>3, <1>7, <2>1 DEF ReclaimDone
<1>9. /\ LocalsAgree(x) /\ x.victim = Null /\ x.deferred = d
      /\ x.pc \in {"efirst", "ehazard", "ecount", "dcount", "dhazard", "done", "dread", "rold"}
  BY <1>5, <1>6, <1>7, ResumeGoes
<1>10. Held(th[t]) \cap allocated' \subseteq Held(x) /\ ~Writing(x)
  BY <1>9 DEF Held, Pending, Doomed, Deferred, Removed, Writing
<1>11. Quiet(t, x)
  <2>1. CASE g = "dretry"
    <3>1. PICK e \in Ends : e = th[t].old
      BY <1>0 DEF Locals
    <3>2. PICK m : m = [y EXCEPT !.old = NoEnds]
      OBVIOUS
    <3>3. /\ m \in Locals /\ m.then = "idle" /\ m.queue = th[t].queue
          /\ m.attempts = th[t].attempts /\ m.got = th[t].got /\ m.victim = Null
      BY <1>5, <1>6, <3>2, LocalsTyped DEF Locals
    <3>4. x = DequeueRetry(m, e)
      BY <1>6, <1>7, <2>1, <3>1, <3>2 DEF Resume
    <3>5. Retrying(th[t])
      BY <1>1, <1>2, <2>1 DEF Retrying
    <3>. QED
      BY <1>0, <1>2, <2>1, <3>1, <3>3, <3>4, <3>5, RetryQuiet
  <2>2. CASE g = "dcount"
    <3>1. x = [y EXCEPT !.pc = "dcount"]
      BY <1>7, <2>2 DEF Resume
    <3>2. /\ x.pc = "dcount" /\ x.then = "idle" /\ x.queue = th[t].queue /\ x.s = th[t].s
          /\ x.attempts = th[t].attempts /\ x.got = th[t].got /\ x.old = th[t].old
      BY ZenonT(40), <1>5, <1>6, <3>1 DEF Locals
    <3>3. Aim(x) = Aim(th[t])
      BY <1>2, <2>2, <3>2 DEF Reclaiming, Aim, Goal
    <3>. QED
      BY <1>0, <1>2, <1>9, <3>2, <3>3, SameAim
  <2>. QED
    BY <2>1, <2>2
<1>. QED
  BY <1>8, <1>10, <1>11, LocalStep

\* Nor was a removed one; its reclaimer returns to where it was called.
LEMMA ReclaimNodeStep ==
    ASSUME NEW R, QueueInv(R), NEW w \in [Queues -> Seq(Seats)], Order(w), BooksInv, NodesInv',
           NEW t \in Threads, ReclaimNode(t)
    PROVE  OrderInv' /\ BooksInv' /\ Stutters
<1>0. th[t] \in Locals
  BY VariablesAgree
<1>1. th[t].pc = "rnew" /\ UNCHANGED <<mem, ends, count, fresh, explored>>
  BY DEF ReclaimNode, At
<1>2. PICK l \in Locals : l = th[t]
  BY <1>0
<1>3. CASE th' = [th EXCEPT ![t].pc = "rdefer"] /\ allocated' = allocated
  <2>1. PICK x : x = [l EXCEPT !.pc = "rdefer"]
    OBVIOUS
  <2>2. th' = [th EXCEPT ![t] = x]
    BY <1>2, <1>3, <2>1
  <2>3. /\ x.pc = "rdefer" /\ x.then = l.then /\ x.after = l.after
        /\ x.old = l.old /\ x.queue = l.queue /\ x.s = l.s /\ x.attempts = l.attempts
        /\ x.got = l.got /\ x.victim = l.victim /\ x.deferred = l.deferred
    BY ZenonT(40), <2>1 DEF Locals
  <2>4. Deferred(th[t]) = Deferred(x)
    BY <1>2, <2>3 DEF Deferred
  <2>. QED
    BY <1>1, <1>2, <1>3, <2>2, <2>3, <2>4, ReclaimerStep
<1>4. CASE th' = [th EXCEPT ![t].j = @ + 1] /\ allocated' = allocated
  <2>1. PICK x : x = [th[t] EXCEPT !.j = @ + 1]
    OBVIOUS
  <2>2. th' = [th EXCEPT ![t] = x]
    BY <1>4, <2>1
  <2>3. /\ x.pc = "rnew" /\ x.then = l.then /\ x.after = l.after
        /\ x.old = l.old /\ x.queue = l.queue /\ x.s = l.s /\ x.attempts = l.attempts
        /\ x.got = l.got /\ x.victim = l.victim /\ x.deferred = l.deferred
    BY ZenonT(40), <1>1, <1>2, <2>1 DEF Locals
  <2>4. Deferred(th[t]) = Deferred(x)
    BY <1>2, <2>3 DEF Deferred
  <2>. QED
    BY <1>1, <1>2, <1>4, <2>2, <2>3, <2>4, ReclaimerStep
<1>5. CASE th' = [th EXCEPT ![t] = ReclaimDone(l)] /\ allocated' = allocated \ {l.victim}
  <2>1. PICK d \in [1..THREADS-1 -> Nodes \cup {Null}] : d = l.deferred
    BY DEF Locals
  <2>2. l = [th[t] EXCEPT !.deferred = d]
    BY <1>2, <2>1 DEF Locals
  <2>3. (({l.victim} \ {Null}) \cup Deferred(l)) \cap allocated'
           \subseteq {d[i] : i \in 1..THREADS-1} \ {Null}
    BY <1>5, <2>1 DEF Deferred
  <2>. QED
    BY <1>1, <1>2, <1>5, <2>2, <2>3, ReclaimReturns
<1>. QED
  BY <1>2, <1>3, <1>4, <1>5 DEF ReclaimNode

\* A node that is deferred stays in its reclaimer's hands.
LEMMA ReclaimDeferStep ==
    ASSUME NEW R, QueueInv(R), NEW w \in [Queues -> Seq(Seats)], Order(w), BooksInv, NodesInv',
           NEW t \in Threads, ReclaimDefer(t)
    PROVE  OrderInv' /\ BooksInv' /\ Stutters
<1>0. th[t] \in Locals
  BY VariablesAgree
<1>1. th[t].pc = "rdefer" /\ UNCHANGED <<mem, ends, allocated, count, fresh, explored>>
  BY DEF ReclaimDefer, At, shared
<1>2. PICK F : F = FreeDeferred(t)
  OBVIOUS
<1>3. F \subseteq 1..THREADS-1 /\ F # {} /\ F \in SUBSET Nat
  BY <1>2, StateQueueAssumption DEF FreeDeferred, ReclaimDefer
<1>4. PICK i : /\ i = CHOOSE m \in F : \A k \in F : m <= k
               /\ i \in F
  BY <1>3, LeastNat
<1>5. PICK d : d = [th[t].deferred EXCEPT ![i] = th[t].victim]
  OBVIOUS
<1>6. i \in 1..THREADS-1 /\ th[t].deferred[i] = Null
  BY <1>2, <1>3, <1>4 DEF FreeDeferred
<1>7. /\ d \in [1..THREADS-1 -> Nodes \cup {Null}]
      /\ \A k \in 1..THREADS-1 : d[k] = IF k = i THEN th[t].victim ELSE th[t].deferred[k]
  BY <1>0, <1>5 DEF Locals
<1>8. PICK l : l = [th[t] EXCEPT !.deferred = d]
  OBVIOUS
<1>9. th' = [th EXCEPT ![t] = ReclaimDone(l)]
  BY <1>2, <1>4, <1>5, <1>8 DEF ReclaimDefer
<1>10. (({th[t].victim} \ {Null}) \cup Deferred(th[t])) \cap allocated'
          \subseteq {d[k] : k \in 1..THREADS-1} \ {Null}
  BY <1>6, <1>7 DEF Deferred
<1>. QED
  BY <1>1, <1>7, <1>8, <1>9, <1>10, ReclaimReturns

-----------------------------------------------------------------------------
(***************************************************************************)
(* The initial states, and all steps together.                             *)
(***************************************************************************)

\* The states that init() put into queue k.
StartOf(k) == IF InitialState[k] = Null THEN <<>> ELSE <<InitialState[k]>>

\* The one seat of a queue with a start state is the first slot of its node.
LEMMA InitOrders == Init => OrderInv /\ \A k \in Queues : Contents(k) = StartOf(k)
<1>. SUFFICES ASSUME Init PROVE OrderInv /\ \A k \in Queues : Contents(k) = StartOf(k)
  OBVIOUS
<1>1. PICK Used : Used = {k \in Queues : InitialState[k] # Null}
  OBVIOUS
<1>2. PICK addr \in [Queues -> Nodes] :
         /\ \A k, l \in Queues : k # l => addr[k] # addr[l]
         /\ allocated = {addr[k] : k \in Used}
         /\ mem = [n \in Nodes |->
                     IF n \in allocated
                       THEN NewNode(InitialState[CHOOSE k \in Used : addr[k] = n])
                       ELSE EmptyNode]
         /\ ends = [k \in Queues |->
                      IF k \in Used
                        THEN [head |-> FirstHandle(addr[k]), tail |-> FirstHandle(addr[k])]
                        ELSE NoEnds]
         /\ th = [t \in Threads |-> StartLocals(t)]
  BY <1>1 DEF Init
<1>3. \A k \in Used : /\ k \in Queues /\ InitialState[k] \in States
                      /\ addr[k] \in Nodes /\ addr[k] \in allocated
  BY <1>1, <1>2, StateQueueAssumption
<1>4. ASSUME NEW k \in Used PROVE mem[addr[k]][1] = InitialState[k]
  <2>1. PICK q : q = CHOOSE j \in Used : addr[j] = addr[k]
    OBVIOUS
  <2>2. q \in Used /\ addr[q] = addr[k]
    BY <2>1
  <2>3. q = k
    BY <1>2, <1>3, <2>2
  <2>4. mem[addr[k]] = NewNode(InitialState[k])
    BY <1>2, <1>3, <2>1, <2>3
  <2>5. NewNode(InitialState[k])[1] = InitialState[k]
    BY <1>3, HandleOf DEF NewNode, EmptyNode
  <2>. QED
    BY <2>4, <2>5
<1>5. \A t \in Threads : th[t].pc = "idle" /\ ~Writing(th[t])
  BY <1>2 DEF StartLocals, Writing
<1>6. PICK w \in [Queues -> Seq(Seats)] :
         w = [k \in Queues |-> IF k \in Used THEN <<FirstHandle(addr[k])>> ELSE <<>>]
  <2>1. ASSUME NEW k \in Used PROVE <<FirstHandle(addr[k])>> \in Seq(Seats)
    <3>1. FirstHandle(addr[k]) \in Seats
      BY <1>3, HandleOf, SeatOf
    <3>. QED
      BY <3>1
  <2>2. <<>> \in Seq(Seats)
    OBVIOUS
  <2>3. [k \in Queues |-> IF k \in Used THEN <<FirstHandle(addr[k])>> ELSE <<>>]
           \in [Queues -> Seq(Seats)]
    BY <2>1, <2>2
  <2>. QED
    BY <2>3
<1>7. ASSUME NEW k \in Used
      PROVE  /\ Walk(mem, ends[k], w[k]) /\ Len(w[k]) = 1
             /\ w[k][1] = FirstHandle(addr[k]) /\ Firm(w[k][1])
             /\ Load(w[k][1]) = InitialState[k]
             /\ Span(k, w) = {addr[k]}
  <2>1. PICK h : h = FirstHandle(addr[k])
    OBVIOUS
  <2>2. h \in Handles /\ IsStateSlot(h) /\ Base(h) = addr[k] /\ h # Null
    BY <1>3, <2>1, HandleOf
  <2>3. ends[k] = [head |-> h, tail |-> h] /\ w[k] = <<h>>
    BY <1>2, <1>3, <1>6, <2>1
  <2>4. Len(w[k]) = 1 /\ w[k][1] = h /\ w[k] # <<>> /\ w[k] \in Seq(Seats)
    <3>1. w[k] \in Seq(Seats)
      BY <1>3
    <3>2. Len(<<h>>) = 1 /\ <<h>>[1] = h /\ <<h>> # <<>>
      OBVIOUS
    <3>. QED
      BY <2>3, <3>1, <3>2
  <2>5. Normal(mem, h) = h
    BY <2>2 DEF Normal
  <2>6. Walk(mem, ends[k], w[k])
    BY <2>2, <2>3, <2>4, <2>5 DEF Walk
  <2>7. Load(h) = InitialState[k]
    BY <1>4, <2>1 DEF Load, FirstHandle
  <2>8. Firm(h)
    BY <1>3, <1>5, <2>7 DEF Firm
  <2>9. Span(k, w) = {addr[k]}
    BY <2>2, <2>3, <2>4 DEF Span
  <2>. QED
    BY <2>1, <2>4, <2>6, <2>7, <2>8, <2>9
<1>8. ASSUME NEW k \in Queues \ Used
      PROVE  Walk(mem, ends[k], w[k]) /\ Len(w[k]) = 0
  <2>1. ends[k].head = Null /\ w[k] = <<>>
    BY <1>2, <1>6 DEF NoEnds
  <2>. QED
    BY <2>1 DEF Walk
<1>9. Walks(w)
  <2>1. ASSUME NEW k \in Queues
        PROVE  Walk(mem, ends[k], w[k]) /\ \A i \in 1..Len(w[k]) : Firm(w[k][i])
    <3>1. CASE k \in Used
      BY <1>7, <3>1
    <3>2. CASE k \notin Used
      BY <1>8, <3>2
    <3>. QED
      BY <3>1, <3>2
  <2>. QED
    BY <2>1 DEF Walks
<1>10. Loading /\ Filled
  BY <1>5 DEF Loading, Filled, At
<1>11. NoLeak(w)
  BY <1>2, <1>3, <1>7 DEF NoLeak
<1>12. ASSUME NEW k \in Queues PROVE Contents(k) = StartOf(k)
  <2>1. Contents(k) = [i \in 1..Len(w[k]) |-> Load(w[k][i])]
    BY <1>9, ContentsAre
  <2>2. CASE k \in Used
    <3>1. InitialState[k] # Null
      BY <1>1, <2>2
    <3>2. Contents(k) = [i \in 1..1 |-> InitialState[k]]
      BY <1>7, <2>1, <2>2
    <3>. QED
      BY <3>1, <3>2 DEF StartOf
  <2>3. CASE k \notin Used
    <3>1. InitialState[k] = Null
      BY <1>1, <2>3
    <3>2. Len(w[k]) = 0 /\ w[k] = <<>>
      BY <1>6, <1>8, <2>3
    <3>. QED
      BY <2>1, <3>1, <3>2 DEF StartOf
  <2>. QED
    BY <2>2, <2>3
<1>. QED
  BY <1>9, <1>10, <1>11, <1>12 DEF OrderInv, Order

\* init() puts each start state into one queue, and counts it.
LEMMA InitBooks == Init => BooksInv
<1>. SUFFICES ASSUME Init PROVE BooksInv
  OBVIOUS
<1>1. \A k \in Queues : Contents(k) = StartOf(k)
  BY InitOrders
<1>2. PICK Used : Used = {k \in Queues : InitialState[k] # Null}
  OBVIOUS
<1>3. /\ th = [t \in Threads |-> StartLocals(t)]
      /\ count = [k \in Queues |-> IF k \in Used THEN 1 ELSE 0]
      /\ fresh = States \ {InitialState[k] : k \in Queues} /\ explored = {}
  BY <1>2 DEF Init
<1>4. ASSUME NEW t \in Threads
      PROVE  /\ th[t].pc = "idle" /\ th[t].then = "idle" /\ th[t].attempts = 0
             /\ th[t].got = Null /\ th[t].victim = Null /\ th[t].queue \in Queues
  BY <1>3 DEF StartLocals, Threads, Queues
<1>5. ASSUME NEW t \in Threads
      PROVE  /\ CallAgrees(th[t]) /\ ~Offers(th[t]) /\ ~Adds(th[t]) /\ ~Takes(th[t])
             /\ ~Retrying(th[t]) /\ Taken(t) = Null /\ Visited(th[t]) = {}
  <2>1. /\ CallAgrees(th[t]) /\ ~Offers(th[t]) /\ ~Adds(th[t]) /\ ~Takes(th[t])
        /\ ~Retrying(th[t])
    BY <1>4, IdleAgrees
  <2>2. Visited(th[t]) = {}
    BY <1>4, <2>1, NoneVisited
  <2>. QED
    BY <1>4, <2>1, <2>2 DEF Taken, At
<1>6. /\ StatesAt(<<"fresh", 0>>) = fresh /\ StatesAt(<<"explored", 0>>) = {}
      /\ \A u \in Threads : StatesAt(<<"offered", u>>) = {} /\ StatesAt(<<"taken", u>>) = {}
  BY <1>3, <1>5, StatesAtPlaces
<1>7. ASSUME NEW k \in Queues
      PROVE  StatesAt(<<"queue", k>>) = {InitialState[k]} \ {Null}
  <2>1. StatesAt(<<"queue", k>>) = {Contents(k)[i] : i \in 1..Len(Contents(k))}
    BY StatesAtPlaces
  <2>2. CASE InitialState[k] = Null
    <3>1. Contents(k) = <<>> /\ Len(Contents(k)) = 0
      BY <1>1, <2>2 DEF StartOf
    <3>. QED
      BY <2>1, <2>2, <3>1
  <2>3. CASE InitialState[k] # Null
    <3>1. Contents(k) = <<InitialState[k]>>
      BY <1>1, <2>3 DEF StartOf
    <3>2. Len(Contents(k)) = 1 /\ Contents(k)[1] = InitialState[k]
      BY <3>1
    <3>. QED
      BY <2>1, <2>3, <3>2
  <2>. QED
    BY <2>2, <2>3
<1>8. Placed
  <2>1. PICK P : P = [p \in Places |-> StatesAt(p)]
    OBVIOUS
  <2>2. \A p \in Places : P[p] = StatesAt(p)
    BY <2>1
  <2>a. ASSUME NEW p \in Places
        PROVE  P[p] = {} \/ p = <<"fresh", 0>> \/ \E k \in Queues : p = <<"queue", k>>
    BY <1>6, <2>2, PlacesAre
  <2>3. ASSUME NEW p \in Places PROVE P[p] \subseteq States
    <3>1. StatesAt(<<"fresh", 0>>) \subseteq States
      BY <1>3, <1>6
    <3>2. \A k \in Queues : StatesAt(<<"queue", k>>) \subseteq States
      BY <1>7, StateQueueAssumption
    <3>. QED
      BY <2>2, <2>a, <3>1, <3>2
  <2>4. ASSUME NEW p \in Places, NEW q \in Places, p # q PROVE P[p] \cap P[q] = {}
    <3>1. \A k, l \in Queues : k # l => StatesAt(<<"queue", k>>) \cap StatesAt(<<"queue", l>>) = {}
      <4>1. \A k, l \in Queues :
               k # l /\ InitialState[k] # Null => InitialState[k] # InitialState[l]
        BY StateQueueAssumption
      <4>. QED
        BY <1>7, <4>1
    <3>2. \A k \in Queues : StatesAt(<<"queue", k>>) \cap fresh = {}
      BY <1>3, <1>7
    <3>3. P[p] = {} \/ p = <<"fresh", 0>> \/ \E k \in Queues : p = <<"queue", k>>
      BY <2>a
    <3>4. P[q] = {} \/ q = <<"fresh", 0>> \/ \E k \in Queues : q = <<"queue", k>>
      BY <2>a
    <3>5. CASE p = <<"fresh", 0>>
      BY <1>6, <2>2, <2>4, <3>2, <3>4, <3>5
    <3>6. CASE q = <<"fresh", 0>>
      BY <1>6, <2>2, <2>4, <3>2, <3>3, <3>6
    <3>7. CASE p # <<"fresh", 0>> /\ q # <<"fresh", 0>>
      BY <2>2, <2>4, <3>1, <3>3, <3>4, <3>7
    <3>. QED
      BY <3>5, <3>6, <3>7
  <2>5. ASSUME NEW s \in States PROVE \E p \in Places : s \in P[p]
    <3>1. CASE s \in fresh
      BY <1>6, <2>2, <3>1, PlacesAre
    <3>2. CASE s \notin fresh
      <4>1. PICK k \in Queues : s = InitialState[k]
        BY <1>3, <3>2
      <4>2. s \in StatesAt(<<"queue", k>>)
        BY <1>7, <4>1, StateQueueAssumption
      <4>. QED
        BY <2>2, <4>2, PlacesAre
    <3>. QED
      BY <3>1, <3>2
  <2>. QED
    BY <2>1, <2>3, <2>4, <2>5 DEF Placed, Partition
<1>9. ASSUME NEW k \in Queues
      PROVE  /\ Len(Contents(k)) = count[k] /\ Len(Contents(k)) \in {0, 1}
  <2>1. CASE InitialState[k] = Null
    BY <1>1, <1>2, <1>3, <2>1 DEF StartOf
  <2>2. CASE InitialState[k] # Null
    BY <1>1, <1>2, <1>3, <2>2 DEF StartOf
  <2>. QED
    BY <2>1, <2>2
<1>10. InjectiveQueues
  <2>. SUFFICES ASSUME NEW k \in Queues, NEW i \in 1..Len(Contents(k)),
                       NEW j \in 1..Len(Contents(k))
                PROVE  i = j
    BY DEF InjectiveQueues
  <2>1. PICK n \in {0, 1} : n = Len(Contents(k))
    BY <1>9
  <2>. QED
    BY <2>1
<1>11. StillAhead
  <2>1. 0 \in Threads
    BY StateQueueAssumption DEF Threads
  <2>. QED
    BY <1>5, <2>1 DEF StillAhead
<1>12. count \in [Queues -> Int]
  BY <1>3
<1>13. CountsAgree
  <2>. SUFFICES ASSUME NEW k \in Queues
                PROVE  count[k] + Cardinality(AddedTo(k)) =
                          Len(Contents(k)) + Cardinality(RemovedFrom(k))
    BY DEF CountsAgree
  <2>1. AddedTo(k) = {} /\ RemovedFrom(k) = {}
    BY <1>5 DEF AddedTo, RemovedFrom, Adds, Takes, At
  <2>2. Cardinality({}) = 0
    BY FS_EmptySet
  <2>. QED
    BY <1>9, <2>1, <2>2
<1>. QED
  BY <1>5, <1>8, <1>10, <1>11, <1>12, <1>13 DEF BooksInv

\* A step that changes nothing.
LEMMA NothingMoves ==
    ASSUME NEW w \in [Queues -> Seq(Seats)], Order(w), BooksInv, UNCHANGED vars
    PROVE  OrderInv' /\ BooksInv' /\ Stutters
<1>1. UNCHANGED <<mem, allocated, ends, count, th, fresh, explored>>
  BY DEF vars
<1>2. Order(w)'
  <2>1. Walks(w)'
    BY <1>1 DEF Order, Walks, Firm, Load
  <2>2. Loading'
    BY <1>1 DEF Order, Loading, Firm, Load, At
  <2>3. Filled'
    BY <1>1 DEF Order, Filled
  <2>4. NoLeak(w)'
    BY <1>1 DEF Order, NoLeak, Span
  <2>. QED
    BY <2>1, <2>2, <2>3, <2>4 DEF Order
<1>3. \A k \in Queues : Contents(k)' = Contents(k)
  BY <1>1 DEF Contents
<1>4. \A u \in Threads : Taken(u)' = Taken(u)
  BY <1>1 DEF Taken, At, Load
<1>5. Placed'
  <2>1. \A u \in Threads : /\ StatesAt(<<"offered", u>>)' = StatesAt(<<"offered", u>>)
                           /\ StatesAt(<<"taken", u>>)' = StatesAt(<<"taken", u>>)
    BY <1>1, <1>4, StatesAtPlaces, StatesAtPlacesNext
  <2>2. \A k \in Queues : StatesAt(<<"queue", k>>)' = StatesAt(<<"queue", k>>)
    BY <1>3, QueuePlaceSame
  <2>3. /\ StatesAt(<<"fresh", 0>>)' = StatesAt(<<"fresh", 0>>)
        /\ StatesAt(<<"explored", 0>>)' = StatesAt(<<"explored", 0>>)
    BY <1>1, StatesAtPlaces, StatesAtPlacesNext
  <2>4. ASSUME NEW p \in Places PROVE StatesAt(p)' = StatesAt(p)
    <3>1. CASE p = <<"fresh", 0>> \/ p = <<"explored", 0>>
      BY <2>3, <3>1
    <3>2. CASE \E u \in Threads : p = <<"offered", u>> \/ p = <<"taken", u>>
      BY <2>1, <3>2
    <3>3. CASE \E k \in Queues : p = <<"queue", k>>
      BY <2>2, <3>3
    <3>. QED
      BY <3>1, <3>2, <3>3, PlacesAre
  <2>. QED
    BY <2>4, PlacesSame DEF BooksInv
<1>6. InjectiveQueues'
  BY <1>3 DEF BooksInv, InjectiveQueues
<1>7. StillAhead'
  BY <1>1 DEF BooksInv, StillAhead
<1>8. CountsAgree'
  <2>1. ASSUME NEW k \in Queues PROVE AddedTo(k)' = AddedTo(k) /\ RemovedFrom(k)' = RemovedFrom(k)
    BY <1>1 DEF AddedTo, RemovedFrom, At
  <2>. QED
    BY <1>1, <1>3, <2>1 DEF BooksInv, CountsAgree
<1>. QED
  BY <1>1, <1>2, <1>3, <1>4, <1>5, <1>6, <1>7, <1>8 DEF OrderInv, BooksInv, Stutters

\* Every step keeps order and books, and is one of the moves.
LEMMA StepsMove ==
    ASSUME NodesInv, OrderInv, BooksInv, NodesInv', [Next]_vars
    PROVE  OrderInv' /\ BooksInv' /\ Moves
<1>1. PICK R \in [Queues -> SUBSET Nodes] : QueueInv(R)
  BY DEF NodesInv
<1>2. PICK w \in [Queues -> Seq(Seats)] : Order(w)
  BY DEF OrderInv
<1>3. CASE UNCHANGED vars
  BY <1>2, <1>3, NothingMoves DEF Moves
<1>4. ASSUME NEW t \in Threads, CallStep(t) PROVE OrderInv' /\ BooksInv' /\ Moves
  <2>1. CASE EnqueueRead(t)
    BY <1>1, <1>2, <2>1, EnqueueReadStep DEF Moves
  <2>2. CASE EnqueueFirst(t)
    BY <1>1, <1>2, <2>2, EnqueueFirstStep
  <2>3. CASE EnqueueHazard(t)
    BY <1>1, <1>2, <2>3, EnqueueHazardStep DEF Moves
  <2>4. CASE EnqueueCheck(t)
    BY <1>1, <1>2, <2>4, EnqueueCheckStep DEF Moves
  <2>5. CASE EnqueueWrite(t)
    BY <1>1, <1>2, <2>5, EnqueueWriteStep DEF Moves
  <2>6. CASE EnqueueCAS(t)
    BY <1>1, <1>2, <2>6, EnqueueCASStep
  <2>7. CASE EnqueueUndo(t)
    BY <1>1, <1>2, <2>7, EnqueueUndoStep DEF Moves
  <2>8. CASE EnqueueCount(t)
    BY <1>1, <1>2, <2>8, EnqueueCountStep DEF Moves
  <2>9. CASE DequeueRead(t)
    BY <1>1, <1>2, <2>9, DequeueReadStep DEF Moves
  <2>10. CASE DequeueHazard(t)
    BY <1>1, <1>2, <2>10, DequeueHazardStep DEF Moves
  <2>11. CASE DequeueCheck(t)
    BY <1>1, <1>2, <2>11, DequeueCheckStep DEF Moves
  <2>12. CASE DequeueNext(t)
    BY <1>1, <1>2, <2>12, DequeueNextStep DEF Moves
  <2>13. CASE DequeueSkip(t)
    BY <1>1, <1>2, <2>13, DequeueSkipStep DEF Moves
  <2>14. CASE DequeueCAS(t)
    BY <1>1, <1>2, <2>14, DequeueCASStep
  <2>15. CASE DequeueLoad(t)
    BY <1>1, <1>2, <2>15, DequeueLoadStep DEF Moves
  <2>16. CASE DequeueCount(t)
    BY <1>1, <1>2, <2>16, DequeueCountStep
  <2>17. CASE Unhazard(t)
    BY <1>1, <1>2, <2>17, UnhazardStep DEF Moves
  <2>18. CASE ReclaimDeferred(t)
    BY <1>1, <1>2, <2>18, ReclaimDeferredStep DEF Moves
  <2>19. CASE ReclaimNode(t)
    BY <1>1, <1>2, <2>19, ReclaimNodeStep DEF Moves
  <2>20. CASE ReclaimDefer(t)
    BY <1>1, <1>2, <2>20, ReclaimDeferStep DEF Moves
  <2>. QED
    BY <1>4, <2>1, <2>2, <2>3, <2>4, <2>5, <2>6, <2>7, <2>8, <2>9, <2>10, <2>11, <2>12,
       <2>13, <2>14, <2>15, <2>16, <2>17, <2>18, <2>19, <2>20 DEF CallStep
<1>5. ASSUME NEW t \in Threads, Dequeue(t) PROVE OrderInv' /\ BooksInv' /\ Moves
  BY <1>1, <1>2, <1>5, DequeueStep DEF Moves
<1>6. ASSUME NEW t \in Threads, NEW s \in States, NEW k \in Queues, Enqueue(t, s, k)
      PROVE  OrderInv' /\ BooksInv' /\ Moves
  BY <1>1, <1>2, <1>6, EnqueueStep DEF Moves
<1>. QED
  BY <1>3, <1>4, <1>5, <1>6 DEF Next, Step, Caller, Finished

\* The types follow.
LEMMA InvImpliesTypeOK == NodesInv /\ BooksInv => TypeOK
<1>. SUFFICES ASSUME NodesInv, BooksInv PROVE TypeOK
  OBVIOUS
<1>1. PICK R : QueueInv(R)
  BY DEF NodesInv
<1>2. /\ mem \in [Nodes -> [1..NodeSlots+1 -> Cells]] /\ allocated \subseteq Nodes
      /\ ends \in [Queues -> Ends] /\ hazarded \in [Threads -> Nodes \cup {Null}]
  BY <1>1 DEF QueueInv, QueuesTyped
<1>3. \A p \in Places : StatesAt(p) \subseteq States
  BY DEF BooksInv, Placed, Partition
<1>4. fresh \subseteq States /\ explored \subseteq States
  <2>1. <<"fresh", 0>> \in Places /\ <<"explored", 0>> \in Places
    BY PlacesAre
  <2>2. StatesAt(<<"fresh", 0>>) \subseteq States /\ StatesAt(<<"explored", 0>>) \subseteq States
    BY <1>3, <2>1
  <2>. QED
    BY <2>2, StatesAtPlaces
<1>5. ends \in [Queues -> EndsType]
  BY <1>2 DEF Ends
<1>6. \A k \in Queues : /\ ends[k].head = Null <=> ends[k].tail = Null
                        /\ ends[k].tail # Null => IsStateSlot(ends[k].tail)
  BY <1>2 DEF Ends
<1>. QED
  BY <1>2, <1>4, <1>5, <1>6 DEF TypeOK, Cells

\* When every thread has come home, every queue has been found empty by each.
LEMMA InvImpliesNothingLeftBehind == NodesInv /\ OrderInv /\ BooksInv => NothingLeftBehind
<1>. SUFFICES ASSUME NodesInv, OrderInv, BooksInv, \A t \in Threads : At(t, "done")
              PROVE  /\ \A k \in Queues : ends[k] = NoEnds
                     /\ explored = States \ fresh
                     /\ allocated = UNION {Condemned(t) : t \in Threads}
  BY DEF NothingLeftBehind
<1>1. PICK R : QueueInv(R)
  BY DEF NodesInv
<1>2. PICK w : Order(w)
  BY DEF OrderInv
<1>3. THREADS \in Nat \ {0, 1}
  BY StateQueueAssumption
<1>4. ASSUME NEW t \in Threads
      PROVE  /\ th[t].pc = "done" /\ th[t].queue \in Queues /\ th[t].attempts = THREADS
             /\ th[t].got = Null /\ ~Offers(th[t]) /\ Taken(t) = Null
  <2>1. th[t] \in Locals /\ CallAgrees(th[t]) /\ th[t].pc = "done"
    BY <1>1, VariablesAgree DEF At
  <2>2. ~Counting(th[t]) /\ ~Offers(th[t])
    BY <2>1 DEF Counting, Reclaiming, Offers, Goal, EnqueueGoals
  <2>3. th[t].queue \in Queues /\ th[t].attempts = THREADS /\ th[t].got = Null
    BY <2>1, <2>2 DEF CallAgrees, Locals
  <2>. QED
    BY <2>1, <2>2, <2>3 DEF Taken, At
<1>5. ASSUME NEW k \in Queues PROVE ends[k].head = Null
  <2>1. ASSUME NEW t \in Threads PROVE k \in Visited(th[t])
    <3>1. PICK q \in Queues : q = th[t].queue
      BY <1>4
    <3>2. k \in Nat /\ q \in Nat /\ k < THREADS /\ q < THREADS
      BY <1>3 DEF Queues
    <3>3. Before(k, q) <= THREADS
      BY <1>3, <3>2 DEF Before
    <3>. QED
      BY <1>4, <3>1, <3>3 DEF Visited
  <2>. QED
    BY <2>1 DEF BooksInv, StillAhead
<1>6. ASSUME NEW k \in Queues PROVE ends[k] = NoEnds
  <2>1. PICK e \in Ends : e = ends[k]
    BY <1>1 DEF QueueInv, QueuesTyped
  <2>2. e.head = Null /\ e.tail = Null
    BY <1>5, <2>1 DEF Ends
  <2>3. e = NoEnds
    BY <2>2 DEF Ends, EndsType, NoEnds
  <2>. QED
    BY <2>1, <2>3
<1>7. \A k \in Queues : StatesAt(<<"queue", k>>) = {}
  <2>1. ASSUME NEW k \in Queues PROVE Contents(k) = <<>>
    BY <1>5 DEF Contents, StatesOf
  <2>2. Len(<<>>) = 0
    OBVIOUS
  <2>3. ASSUME NEW k \in Queues, NEW C, C = Contents(k)
        PROVE  {C[i] : i \in 1..Len(C)} = {}
    BY <2>1, <2>2, <2>3
  <2>. QED
    BY <2>3, StatesAtPlaces
<1>8. explored = States \ fresh
  <2>1. \A p \in Places : StatesAt(p) # {} => p \in {<<"fresh", 0>>, <<"explored", 0>>}
    BY <1>4, <1>7, PlacesAre, StatesAtPlaces
  <2>2. \A s \in States : \E p \in Places : s \in StatesAt(p)
    BY DEF BooksInv, Placed, Partition
  <2>3. \A s \in States : s \in fresh \/ s \in explored
    BY <2>1, <2>2, StatesAtPlaces
  <2>4. <<"fresh", 0>> \in Places /\ <<"explored", 0>> \in Places
    BY PlacesAre
  <2>5. fresh \cap explored = {} /\ explored \subseteq States
    <3>1. <<"fresh", 0>> # <<"explored", 0>>
      OBVIOUS
    <3>2. StatesAt(<<"explored", 0>>) \cap StatesAt(<<"fresh", 0>>) = {}
          /\ StatesAt(<<"explored", 0>>) \subseteq States
      BY <2>4, <3>1, PlacesApart DEF BooksInv
    <3>. QED
      BY <3>2, StatesAtPlaces
  <2>. QED
    BY <2>3, <2>5
<1>9. allocated = UNION {Condemned(t) : t \in Threads}
  <2>1. \A t \in Threads : Condemned(t) \subseteq allocated
    BY InvImpliesNodesSafe DEF NodesSafe, FreedOnce
  <2>2. \A t \in Threads : Held(th[t]) \subseteq Condemned(t)
    BY <1>4 DEF Held, Pending, Doomed, Deferred, Removed, Condemned
  <2>3. \A k \in Queues : Span(k, w) = {}
    BY <1>5 DEF Span
  <2>4. \A n \in allocated : \E t \in Threads : n \in Condemned(t)
    BY <1>2, <2>2, <2>3 DEF Order, NoLeak
  <2>. QED
    BY <2>1, <2>4
<1>. QED
  BY <1>6, <1>8, <1>9

-----------------------------------------------------------------------------

AllInv == NodesInv /\ OrderInv /\ BooksInv

\* The three invariants hold together for ever.
LEMMA AllInvAlways == Spec => []AllInv
<1>1. Init => AllInv
  BY InitEstablishes, InitOrders, InitBooks DEF AllInv
<1>2. AllInv /\ [Next]_vars => AllInv'
  BY NextPreserves, StepsMove DEF AllInv
<1>. QED
  BY <1>1, <1>2, PTL DEF Spec

\* queue_enqueue, queue_dequeue and the counts of the queues: for every number of
\* threads, whatever the order of their steps, what was enqueued is in a queue until
\* it is dequeued; when every thread's queue_dequeue has returned NULL the queues are
\* empty, every state enqueued was explored, and the nodes still allocated are those
\* on the deferred lists; and a count is the length of its queue but for the calls
\* that have yet to update it.
THEOREM StateQueueAccounted == Spec => []QueuesAccounted
<1>1. AllInv => QueuesAccounted
  BY InvImpliesTypeOK, InvImpliesNothingLeftBehind DEF AllInv, BooksInv, QueuesAccounted
<1>. QED
  BY <1>1, AllInvAlways, PTL

-----------------------------------------------------------------------------
(***************************************************************************)
(* The abstract queues.                                                    *)
(***************************************************************************)

\* init() gives each abstract queue its start state.
LEMMA InitImplements == Init => Q!QueuesInit
<1>. SUFFICES ASSUME Init PROVE Q!QueuesInit
  OBVIOUS
<1>1. \A k \in Queues : Contents(k) = StartOf(k)
  BY InitOrders
<1>2. \A t \in Threads : th[t].pc = "idle" /\ th[t].got = Null
  BY DEF Init, StartLocals
<1>3. explored = {}
  BY DEF Init
<1>. QED
  BY <1>1, <1>2, <1>3 DEF Q!QueuesInit, StartOf, At

\* Its steps, in terms of Contents and Taken.
LEMMA AbstractSteps ==
    /\ Stutters => UNCHANGED Q!queuesVars
    /\ \A k \in Queues, s \in States : Adding(k, s) => Q!AppendItem(k, s)
    /\ \A t \in Threads, k \in Queues : Taking(t, k) => Q!TakeItem(t, k)
    /\ \A t \in Threads : Returning(t) => Q!ReturnItem(t)
BY DEF Stutters, Adding, Taking, Returning, Taken,
       Q!queuesVars, Q!AppendItem, Q!TakeItem, Q!ReturnItem

\* Each move is a step of the abstract queues, or changes nothing they see.
LEMMA NextImplements == AllInv /\ [Next]_vars => [Q!QueuesNext]_(Q!queuesVars)
<1>. SUFFICES ASSUME AllInv, [Next]_vars PROVE [Q!QueuesNext]_(Q!queuesVars)
  OBVIOUS
<1>1. Moves
  BY NextPreserves, StepsMove DEF AllInv
<1>2. Stutters => UNCHANGED Q!queuesVars
  BY AbstractSteps
<1>3. ASSUME NEW k \in Queues, NEW s \in States, Adding(k, s) PROVE Q!QueuesNext
  BY <1>3, AbstractSteps DEF Q!QueuesNext
<1>4. ASSUME NEW t \in Threads, NEW k \in Queues, Taking(t, k) PROVE Q!QueuesNext
  BY <1>4, AbstractSteps DEF Q!QueuesNext
<1>5. ASSUME NEW t \in Threads, Returning(t) PROVE Q!QueuesNext
  BY <1>5, AbstractSteps DEF Q!QueuesNext
<1>. QED
  BY <1>1, <1>2, <1>3, <1>4, <1>5 DEF Moves

\* For any number of threads, addresses and slots per node, queue_enqueue and
\* queue_dequeue are linearizable: every step of theirs adds a state at the end of one
\* first-in first-out queue, removes the state at its front for one thread, hands a
\* state to its caller that was never handed to another, or is no step of the abstract
\* queues at all.
THEOREM StateQueueImplementsQueues == Spec => ImplementsQueues
BY AllInvAlways, InitImplements, NextImplements, PTL
   DEF Spec, ImplementsQueues, Q!QueuesSpec
=============================================================================
