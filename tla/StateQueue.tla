----------------------------- MODULE StateQueue -----------------------------
(***************************************************************************)
(* The queues of pending states of the generated verifier ("State queue    *)
(* node", "Queue node handles", "Hazard pointers" and "State queue" in     *)
(* rumur/resources/header.c): one lock-free queue per thread, a linked     *)
(* list of nodes with several slots each, whose two ends are updated       *)
(* together by a double-word compare-and-swap and whose nodes are          *)
(* reclaimed with hazard pointers.                                         *)
(*                                                                         *)
(* Memory is a set of node addresses that are allocated, freed and reused. *)
(* A handle is <<node, k>>: slot k of the node, or its chained pointer     *)
(* when k = NodeSlots + 1.  Each step performs one access to shared memory *)
(* (sequentially consistent here); a node that is allocated and filled     *)
(* before the compare-and-swap that publishes it is allocated by that step.*)
(*                                                                         *)
(*    pc          thread is about to ...                                   *)
(*    "idle"      call queue_enqueue or queue_dequeue                      *)
(*    "eread"     read the ends          "efirst"  publish a first node    *)
(*    "ehazard"   protect the tail       "echeck"  read the ends again     *)
(*    "ewrite"    fill the next slot     "ecas"    move the tail           *)
(*    "eundo"     empty that slot again  "ecount"  raise the queue's count *)
(*    "dread"     read the ends          "dhazard" protect the head        *)
(*    "dcheck"    read the ends again    "dnext"   load the next node      *)
(*    "dskip"     move the head to it    "dcas"    remove the head         *)
(*    "dload"     load the removed state "dcount"  lower the queue's count *)
(*    "unhazard"  drop its protection                                      *)
(*    "rold"      look for a user of a deferred node                       *)
(*    "rnew"      look for a user of the node to reclaim                   *)
(*    "rdefer"    put the node on the deferred list                        *)
(*    "done"      nothing: queue_dequeue returned NULL                     *)
(***************************************************************************)
EXTENDS Naturals, Sequences, FiniteSets

CONSTANTS
    THREADS,        \* number of threads, and of queues
    Nodes,          \* addresses a queue node can have
    NodeSlots,      \* states per node
    States,         \* states that may be enqueued, each once
    Null,           \* the null pointer
    InitialState,   \* InitialState[k]: the start state init() put into queue k
    MayEnqueue      \* MayEnqueue[t]: the queues thread t enqueues to

Threads == 0..THREADS-1
Queues == 0..THREADS-1
Handles == Nodes \X (1..NodeSlots+1)

ASSUME StateQueueAssumption ==
    /\ THREADS \in Nat \ {0, 1}
    /\ NodeSlots \in Nat \ {0}
    /\ Null \notin States \cup Nodes \cup Handles
    /\ IsFiniteSet(Nodes)
    /\ InitialState \in [Queues -> States \cup {Null}]
    /\ \A k, l \in Queues :
          k # l /\ InitialState[k] # Null => InitialState[k] # InitialState[l]
    /\ MayEnqueue \in [Threads -> SUBSET Queues]

VARIABLES
    mem,         \* mem[n][k]: what slot k of node n holds
    allocated,   \* nodes in use
    ends,        \* q[k].ends: [head, tail]
    count,       \* q[k].count
    hazarded,    \* hazarded[t]: the node thread t protects, or Null
    th,          \* the threads' local variables
    fresh,       \* states nobody has enqueued yet
    explored     \* states queue_dequeue has returned

vars == <<mem, allocated, ends, count, hazarded, th, fresh, explored>>
shared == <<mem, allocated, ends, count, hazarded>>

-----------------------------------------------------------------------------

\* queue_handle_base, _is_state_pptr, _next, _from_node_ptr.
Base(h) == h[1]
IsStateSlot(h) == h[2] <= NodeSlots
NextHandle(h) == <<h[1], h[2] + 1>>
FirstHandle(n) == <<n, 1>>

NoEnds == [head |-> Null, tail |-> Null]

EmptyNode == [k \in 1..NodeSlots+1 |-> Null]

\* queue_node_new, with the state in the first slot.
NewNode(s) == [EmptyNode EXCEPT ![1] = s]

Load(h) == mem[h[1]][h[2]]
Store(h, v) == [mem EXCEPT ![h[1]][h[2]] = v]

\* A thread's local variables: queue_id of the call, s and the ends it works
\* with, the value a failed compare-and-swap returned, the node it is about to
\* install or has installed, the number of queues tried, the state dequeued,
\* the node to reclaim, the deferred list and the two loop counters of
\* reclaim, and where to go after unhazard and after reclaim.
StartLocals(t) ==
    [pc |-> "idle", queue |-> t, s |-> Null, ends |-> NoEnds, old |-> NoEnds,
     node |-> Null, attempts |-> 0, got |-> Null, victim |-> Null,
     deferred |-> [i \in 1..THREADS-1 |-> Null], i |-> 0, j |-> 0,
     then |-> "idle", after |-> "idle"]

\* init() put at most one start state into each queue.
Init ==
    \E addr \in [Queues -> Nodes] :
        /\ \A k, l \in Queues : k # l => addr[k] # addr[l]
        /\ LET Used == {k \in Queues : InitialState[k] # Null}
           IN  /\ allocated = {addr[k] : k \in Used}
               /\ mem = [n \in Nodes |->
                           IF n \in allocated
                             THEN NewNode(InitialState[CHOOSE k \in Used : addr[k] = n])
                             ELSE EmptyNode]
               /\ ends = [k \in Queues |->
                            IF k \in Used
                              THEN [head |-> FirstHandle(addr[k]),
                                    tail |-> FirstHandle(addr[k])]
                              ELSE NoEnds]
               /\ count = [k \in Queues |-> IF k \in Used THEN 1 ELSE 0]
        /\ hazarded = [t \in Threads |-> Null]
        /\ th = [t \in Threads |-> StartLocals(t)]
        /\ fresh = States \ {InitialState[k] : k \in Queues}
        /\ explored = {}

At(t, label) == th[t].pc = label

\* The operators named Bug... are mistakes the properties below must catch.

\* The second read of the ends, after hazard() (the mistake: it is left out).
BugEndsUnchanged(t) == TRUE
EndsUnchanged(t) == ends[th[t].queue] = th[t].ends

-----------------------------------------------------------------------------
(***************************************************************************)
(* queue_enqueue                                                           *)
(***************************************************************************)

\* The branch after "retry:", on the ends the thread has read.
EnqueueRetry(e) == IF e.tail = Null THEN "efirst" ELSE "ehazard"

Enqueue(t, s, k) ==
    /\ At(t, "idle")
    /\ s \in fresh
    /\ k \in MayEnqueue[t]
    /\ fresh' = fresh \ {s}
    /\ th' = [th EXCEPT ![t].pc = "eread", ![t].s = s, ![t].queue = k]
    /\ UNCHANGED <<shared, explored>>

EnqueueRead(t) ==
    /\ At(t, "eread")
    /\ LET e == ends[th[t].queue]
       IN  th' = [th EXCEPT ![t].ends = e, ![t].pc = EnqueueRetry(e)]
    /\ UNCHANGED <<shared, fresh, explored>>

\* The queue is empty: install a first node.
EnqueueFirst(t) ==
    /\ At(t, "efirst")
    /\ LET k == th[t].queue IN
       \/ /\ ends[k] = th[t].ends
          /\ \E n \in Nodes \ allocated :
                /\ allocated' = allocated \cup {n}
                /\ mem' = [mem EXCEPT ![n] = NewNode(th[t].s)]
                /\ ends' = [ends EXCEPT ![k] = [head |-> FirstHandle(n),
                                                tail |-> FirstHandle(n)]]
          /\ th' = [th EXCEPT ![t].pc = "ecount"]
       \/ /\ ends[k] # th[t].ends
          /\ th' = [th EXCEPT ![t].ends = ends[k], ![t].pc = EnqueueRetry(ends[k])]
          /\ UNCHANGED <<mem, allocated, ends>>
    /\ UNCHANGED <<count, hazarded, fresh, explored>>

EnqueueHazard(t) ==
    /\ At(t, "ehazard")
    /\ hazarded' = [hazarded EXCEPT ![t] = Base(th[t].ends.tail)]
    /\ th' = [th EXCEPT ![t].pc = "echeck"]
    /\ UNCHANGED <<mem, allocated, ends, count, fresh, explored>>

EnqueueCheck(t) ==
    /\ At(t, "echeck")
    /\ LET e == ends[th[t].queue]
       IN  th' = IF EndsUnchanged(t)
                   THEN [th EXCEPT ![t].pc = "ewrite"]
                   ELSE [th EXCEPT ![t].ends = e, ![t].pc = "unhazard",
                                   ![t].then = EnqueueRetry(e)]
    /\ UNCHANGED <<shared, fresh, explored>>

\* The compare-and-swap finds the slot free (the mistake: a plain store).
BugSlotFree(slot) == TRUE
SlotFree(slot) == Load(slot) = Null

\* Claim the slot after the tail, or chain a new node.
EnqueueWrite(t) ==
    /\ At(t, "ewrite")
    /\ LET slot == NextHandle(th[t].ends.tail) IN
       \/ /\ SlotFree(slot) /\ IsStateSlot(slot)
          /\ mem' = Store(slot, th[t].s)
          /\ th' = [th EXCEPT ![t].pc = "ecas"]
          /\ UNCHANGED allocated
       \/ /\ SlotFree(slot) /\ ~IsStateSlot(slot)
          /\ \E n \in Nodes \ allocated :
                /\ allocated' = allocated \cup {n}
                /\ mem' = [Store(slot, n) EXCEPT ![n] = NewNode(th[t].s)]
                /\ th' = [th EXCEPT ![t].node = n, ![t].pc = "ecas"]
       \/ /\ ~SlotFree(slot)
          /\ th' = [th EXCEPT ![t].pc = "unhazard",
                              ![t].then = EnqueueRetry(th[t].ends)]
          /\ UNCHANGED <<mem, allocated>>
    /\ UNCHANGED <<ends, count, hazarded, fresh, explored>>

\* The tail that refers to the new state (the mistake: a chained node does not
\* matter).
BugNewTail(l) == NextHandle(l.ends.tail)
NewTail(l) == IF l.node = Null THEN NextHandle(l.ends.tail) ELSE FirstHandle(l.node)

EnqueueCAS(t) ==
    /\ At(t, "ecas")
    /\ LET k == th[t].queue
           e == th[t].ends
       IN  \/ /\ ends[k] = e
              /\ ends' = [ends EXCEPT ![k].tail = NewTail(th[t])]
              /\ th' = [th EXCEPT ![t].pc = "unhazard", ![t].then = "ecount",
                                  ![t].node = Null]
           \/ /\ ends[k] # e
              /\ th' = [th EXCEPT ![t].old = ends[k], ![t].pc = "eundo"]
              /\ UNCHANGED ends
    /\ UNCHANGED <<mem, allocated, count, hazarded, fresh, explored>>

\* What the undo leaves in the slot (the mistake: it leaves it alone).
BugUndone(t) == Load(NextHandle(th[t].ends.tail))
Undone(t) == Null

EnqueueUndo(t) ==
    /\ At(t, "eundo")
    /\ mem' = Store(NextHandle(th[t].ends.tail), Undone(t))
    /\ allocated' = allocated \ {th[t].node}
    /\ th' = [th EXCEPT ![t].pc = "unhazard", ![t].node = Null,
                        ![t].ends = th[t].old, ![t].old = NoEnds,
                        ![t].then = EnqueueRetry(th[t].old)]
    /\ UNCHANGED <<ends, count, hazarded, fresh, explored>>

EnqueueCount(t) ==
    /\ At(t, "ecount")
    /\ count' = [count EXCEPT ![th[t].queue] = @ + 1]
    /\ th' = [th EXCEPT ![t] = [StartLocals(t) EXCEPT !.deferred = th[t].deferred]]
    /\ UNCHANGED <<mem, allocated, ends, hazarded, fresh, explored>>

-----------------------------------------------------------------------------
(***************************************************************************)
(* queue_dequeue                                                           *)
(***************************************************************************)

Dequeue(t) ==
    /\ At(t, "idle")
    /\ th' = [th EXCEPT ![t].pc = "dread"]
    /\ UNCHANGED <<shared, fresh, explored>>

\* The branch after "retry:" on ends e, for a thread with local variables l: an
\* empty queue sends it to the next one, or home when all have been tried.
DequeueRetry(l, e) ==
    IF e.head # Null
      THEN [l EXCEPT !.ends = e, !.pc = "dhazard"]
      ELSE [l EXCEPT !.ends = NoEnds, !.attempts = @ + 1,
                     !.queue = (@ + 1) % THREADS,
                     !.pc = IF l.attempts + 1 = THREADS THEN "done" ELSE "dread"]

DequeueRead(t) ==
    /\ At(t, "dread")
    /\ th' = [th EXCEPT ![t] = DequeueRetry(@, ends[th[t].queue])]
    /\ UNCHANGED <<shared, fresh, explored>>

\* The queue holds one state (the mistake: the ends are in one node).
BugLastOne(e) == Base(e.head) = Base(e.tail)
LastOne(e) == e.head = e.tail

DequeueHazard(t) ==
    /\ At(t, "dhazard")
    /\ hazarded' = [hazarded EXCEPT ![t] = Base(th[t].ends.head)]
    /\ th' = [th EXCEPT ![t].pc = "dcheck"]
    /\ UNCHANGED <<mem, allocated, ends, count, fresh, explored>>

DequeueCheck(t) ==
    /\ At(t, "dcheck")
    /\ LET e == ends[th[t].queue]
       IN  th' = IF EndsUnchanged(t)
                   THEN [th EXCEPT ![t].pc =
                           IF LastOne(th[t].ends) \/ IsStateSlot(th[t].ends.head)
                             THEN "dcas" ELSE "dnext"]
                   ELSE [th EXCEPT ![t].old = e, ![t].pc = "unhazard",
                                   ![t].then = "dretry"]
    /\ UNCHANGED <<shared, fresh, explored>>

\* The head is at the chained pointer of its node.
DequeueNext(t) ==
    /\ At(t, "dnext")
    /\ th' = [th EXCEPT ![t].node = Load(th[t].ends.head), ![t].pc = "dskip"]
    /\ UNCHANGED <<shared, fresh, explored>>

DequeueSkip(t) ==
    /\ At(t, "dskip")
    /\ LET k == th[t].queue
           new == [ends[k] EXCEPT !.head = FirstHandle(th[t].node)]
       IN  \/ /\ ends[k] = th[t].ends
              /\ ends' = [ends EXCEPT ![k] = new]
              /\ th' = [th EXCEPT ![t].pc = "unhazard", ![t].then = "reclaim",
                                  ![t].victim = Base(th[t].ends.head),
                                  ![t].after = "dretry", ![t].old = new,
                                  ![t].node = Null]
           \/ /\ ends[k] # th[t].ends
              /\ th' = [th EXCEPT ![t].pc = "unhazard", ![t].then = "dretry",
                                  ![t].old = ends[k], ![t].node = Null]
              /\ UNCHANGED ends
    /\ UNCHANGED <<mem, allocated, count, hazarded, fresh, explored>>

DequeueCAS(t) ==
    /\ At(t, "dcas")
    /\ LET k == th[t].queue
           e == th[t].ends
       IN  \/ /\ ends[k] = e
              /\ ends' = [ends EXCEPT ![k] =
                            IF LastOne(e) THEN NoEnds
                              ELSE [head |-> NextHandle(e.head), tail |-> e.tail]]
              /\ th' = [th EXCEPT ![t].pc = "dload"]
           \/ /\ ends[k] # e
              /\ th' = [th EXCEPT ![t].pc = "unhazard", ![t].then = "dretry",
                                  ![t].old = ends[k]]
              /\ UNCHANGED ends
    /\ UNCHANGED <<mem, allocated, count, hazarded, fresh, explored>>

\* The last state of the queue takes its node with it.
DequeueLoad(t) ==
    /\ At(t, "dload")
    /\ LET e == th[t].ends
       IN  th' = [th EXCEPT ![t].got = Load(e.head), ![t].pc = "unhazard",
                            ![t].then = IF LastOne(e) THEN "reclaim" ELSE "dcount",
                            ![t].victim = IF LastOne(e) THEN Base(e.head) ELSE Null,
                            ![t].after = "dcount"]
    /\ UNCHANGED <<shared, fresh, explored>>

\* The queue the state was in (the mistake: the thread's own).
BugCountedQueue(t) == t
CountedQueue(t) == th[t].queue

DequeueCount(t) ==
    /\ At(t, "dcount")
    /\ count' = [count EXCEPT ![CountedQueue(t)] = @ - 1]
    /\ explored' = explored \cup {th[t].got}
    /\ th' = [th EXCEPT ![t] = [StartLocals(t) EXCEPT !.deferred = th[t].deferred,
                                                      !.queue = th[t].queue]]
    /\ UNCHANGED <<mem, allocated, ends, hazarded, fresh>>

-----------------------------------------------------------------------------
(***************************************************************************)
(* unhazard and reclaim                                                    *)
(***************************************************************************)

\* The thread's local variables after it has resumed its caller at a label.
Resume(l, label) ==
    CASE label = "dretry"  -> DequeueRetry([l EXCEPT !.old = NoEnds], l.old)
      [] label = "reclaim" -> [l EXCEPT !.pc = "rold", !.i = 1, !.j = 0]
      [] OTHER             -> [l EXCEPT !.pc = label]

Unhazard(t) ==
    /\ At(t, "unhazard")
    /\ hazarded' = [hazarded EXCEPT ![t] = Null]
    /\ th' = [th EXCEPT ![t] = Resume([@ EXCEPT !.then = "idle"], th[t].then)]
    /\ UNCHANGED <<mem, allocated, ends, count, fresh, explored>>

\* The deferred list has been scanned: go on with the node itself.
NextDeferred(l) ==
    IF l.i < THREADS - 1 THEN [l EXCEPT !.i = @ + 1, !.j = 0]
                         ELSE [l EXCEPT !.i = 0, !.j = 0, !.pc = "rnew"]

\* A freed node leaves the deferred list (the mistake: it stays).
BugForget(l) == l
Forget(l) == [l EXCEPT !.deferred[l.i] = Null]

\* One turn of the loops over deferred[i] and hazarded[j].
ReclaimDeferred(t) ==
    /\ At(t, "rold")
    /\ LET l == th[t]
           d == l.deferred[l.i]
       IN  \/ /\ d = Null \/ (l.j < THREADS /\ l.j # t /\ hazarded[l.j] = d)
              /\ th' = [th EXCEPT ![t] = NextDeferred(l)]
              /\ UNCHANGED allocated
           \/ /\ d # Null /\ l.j < THREADS
              /\ l.j = t \/ hazarded[l.j] # d
              /\ th' = [th EXCEPT ![t].j = @ + 1]
              /\ UNCHANGED allocated
           \/ /\ d # Null /\ l.j = THREADS
              /\ allocated' = allocated \ {d}
              /\ th' = [th EXCEPT ![t] = NextDeferred(Forget(l))]
    /\ UNCHANGED <<mem, ends, count, hazarded, fresh, explored>>

\* reclaim returns.
ReclaimDone(l) == Resume([l EXCEPT !.victim = Null, !.j = 0, !.after = "idle"], l.after)

\* One turn of the loop over hazarded[j] for the node itself.
ReclaimNode(t) ==
    /\ At(t, "rnew")
    /\ LET l == th[t]
       IN  \/ /\ l.j < THREADS /\ l.j # t /\ hazarded[l.j] = l.victim
              /\ th' = [th EXCEPT ![t].pc = "rdefer"]
              /\ UNCHANGED allocated
           \/ /\ l.j < THREADS
              /\ l.j = t \/ hazarded[l.j] # l.victim
              /\ th' = [th EXCEPT ![t].j = @ + 1]
              /\ UNCHANGED allocated
           \/ /\ l.j = THREADS
              /\ allocated' = allocated \ {l.victim}
              /\ th' = [th EXCEPT ![t] = ReclaimDone(l)]
    /\ UNCHANGED <<mem, ends, count, hazarded, fresh, explored>>

FreeDeferred(t) == {i \in 1..THREADS-1 : th[t].deferred[i] = Null}

\* The first free entry takes the node.
ReclaimDefer(t) ==
    /\ At(t, "rdefer")
    /\ FreeDeferred(t) # {}
    /\ LET i == CHOOSE i \in FreeDeferred(t) : \A k \in FreeDeferred(t) : i <= k
       IN  th' = [th EXCEPT ![t] = ReclaimDone([@ EXCEPT !.deferred[i] = th[t].victim])]
    /\ UNCHANGED <<shared, fresh, explored>>

\* "deferred more than `THREADS - 1` reclamations": the assertion stops the
\* program.
AssertionFailed == \E t \in Threads : At(t, "rdefer") /\ FreeDeferred(t) = {}

-----------------------------------------------------------------------------

CallStep(t) ==
    \/ EnqueueRead(t)
    \/ EnqueueFirst(t)
    \/ EnqueueHazard(t)
    \/ EnqueueCheck(t)
    \/ EnqueueWrite(t)
    \/ EnqueueCAS(t)
    \/ EnqueueUndo(t)
    \/ EnqueueCount(t)
    \/ DequeueRead(t)
    \/ DequeueHazard(t)
    \/ DequeueCheck(t)
    \/ DequeueNext(t)
    \/ DequeueSkip(t)
    \/ DequeueCAS(t)
    \/ DequeueLoad(t)
    \/ DequeueCount(t)
    \/ Unhazard(t)
    \/ ReclaimDeferred(t)
    \/ ReclaimNode(t)
    \/ ReclaimDefer(t)

Step(t) == ~AssertionFailed /\ CallStep(t)

\* explore() enqueues successors and asks for the next state.
Caller(t) ==
    /\ ~AssertionFailed
    /\ Dequeue(t) \/ \E s \in States, k \in Queues : Enqueue(t, s, k)

Finished ==
    /\ AssertionFailed \/ \A t \in Threads : At(t, "done")
    /\ UNCHANGED vars

Next == Finished \/ \E t \in Threads : Step(t) \/ Caller(t)

\* The scheduler lets every thread inside a queue operation go on.
Fairness == \A t \in Threads : WF_vars(Step(t))

Spec == Init /\ [][Next]_vars
FairSpec == Spec /\ Fairness

-----------------------------------------------------------------------------
(***************************************************************************)
(* Properties                                                              *)
(***************************************************************************)

EndsType == [head : Handles \cup {Null}, tail : Handles \cup {Null}]

\* Memory cells, ends and protections hold values of their types; a queue's tail
\* is never at a chained pointer ("non-state pointer was previously stored to
\* queue tail") and both ends are null together.
TypeOK ==
    /\ mem \in [Nodes -> [1..NodeSlots+1 -> States \cup Nodes \cup {Null}]]
    /\ allocated \subseteq Nodes
    /\ ends \in [Queues -> EndsType]
    /\ \A k \in Queues : /\ ends[k].head = Null <=> ends[k].tail = Null
                         /\ ends[k].tail # Null => IsStateSlot(ends[k].tail)
    /\ hazarded \in [Threads -> Nodes \cup {Null}]
    /\ fresh \subseteq States
    /\ explored \subseteq States

\* Nodes a thread is about to read or write.
Touches(t) ==
    CASE th[t].pc \in {"ewrite", "eundo"} -> {Base(th[t].ends.tail)}
      [] th[t].pc \in {"dnext", "dload"}  -> {Base(th[t].ends.head)}
      [] OTHER                            -> {}

\* "We've now notified other threads that we're going to be accessing the tail,
\* so we can safely dereference its pointer": no thread ever touches a node that
\* has been freed, or freed and allocated again, and the queues never reach one.
NoUseAfterFree ==
    /\ \A t \in Threads : Touches(t) \subseteq allocated
    /\ \A k \in Queues : ends[k].head # Null =>
          {Base(ends[k].head), Base(ends[k].tail)} \subseteq allocated

\* A node is freed by one thread, once: nothing waiting to be freed is free
\* already, is wanted twice or is still part of a queue.
Condemned(t) ==
    ({th[t].victim} \cup {th[t].deferred[i] : i \in 1..THREADS-1}) \ {Null}
FreedOnce ==
    /\ \A t \in Threads : Condemned(t) \subseteq allocated
    /\ \A t, u \in Threads : t # u => Condemned(t) \cap Condemned(u) = {}
    /\ \A t \in Threads, k \in Queues :
          ends[k].head # Null =>
              {Base(ends[k].head), Base(ends[k].tail)} \cap Condemned(t) = {}

\* "undo of queue tail write raced with another store": what the undo erases is
\* what this thread wrote.
UndoesOwnWrite ==
    \A t \in Threads : At(t, "eundo") =>
        Load(NextHandle(th[t].ends.tail)) =
            IF th[t].node # Null THEN th[t].node ELSE th[t].s

\* reclaim's comment: "This still will not exceed our count of `THREADS - 1`".
DeferredListSuffices == ~AssertionFailed

\* The states of a queue with ends e in memory m, from its head to its tail: the
\* slots that head steps through until it comes to tail.
Cell(m, h) == m[h[1]][h[2]]
Normal(m, h) == IF IsStateSlot(h) THEN h ELSE FirstHandle(Cell(m, h))
PathLimit == Cardinality(Nodes) * NodeSlots
Path(m, e) ==
    LET path[n \in 0..PathLimit] ==
            IF n = 0 THEN Normal(m, e.head)
            ELSE IF path[n-1] = e.tail THEN path[n-1]
            ELSE Normal(m, NextHandle(path[n-1]))
    IN  path
StatesOf(m, e) ==
    IF e.head = Null THEN <<>>
    ELSE LET path == Path(m, e)
             last == CHOOSE n \in 0..PathLimit :
                        path[n] = e.tail /\ \A i \in 0..n-1 : path[i] # e.tail
         IN  [n \in 1..last+1 |-> Cell(m, path[n-1])]

\* The states in queue k.
Contents(k) == StatesOf(mem, ends[k])

\* Nobody waits for a queue for ever: a call comes back, with other threads
\* enqueueing, dequeueing and undoing at the same time.
CallsReturn ==
    \A t \in Threads :
        (At(t, "eread") \/ At(t, "dread"))
            ~> (At(t, "idle") \/ At(t, "done") \/ AssertionFailed)

\* explore() ends a thread when queue_dequeue returns NULL: when all have ended,
\* no state is left in a queue and every state enqueued was explored.
NothingLeftBehind ==
    (\A t \in Threads : At(t, "done")) =>
        /\ \A k \in Queues : ends[k] = NoEnds
        /\ explored = States \ fresh
        /\ allocated = UNION {Condemned(t) : t \in Threads}

\* hazard, reclaim: a node is freed by one thread, and touched by none after that.
NodesSafe == NoUseAfterFree /\ FreedOnce

\* Threads that have added a state to queue k, or removed one, without having
\* updated the queue's count.
AddedTo(k) ==
    {t \in Threads : th[t].queue = k /\ "ecount" \in {th[t].pc, th[t].then}}
RemovedFrom(k) ==
    {t \in Threads : th[t].queue = k /\ (At(t, "dload") \/ th[t].got # Null)}

\* q[k].count, which progress reports and the decision to start the other
\* threads go by, is the queue's length but for the operations between their
\* compare-and-swap and their update of it; it is never lost track of.
CountsAgree ==
    \A k \in Queues :
        count[k] + Cardinality(AddedTo(k)) =
            Len(Contents(k)) + Cardinality(RemovedFrom(k))

\* What was enqueued is in a queue until it is dequeued, and counted in the end.
QueuesAccounted == TypeOK /\ NothingLeftBehind /\ CountsAgree

\* The queues are linearizable: enqueue takes effect at the compare-and-swap of
\* the ends, dequeue likewise, and the state loaded afterwards is the one that
\* was removed.
Q == INSTANCE AbstractQueues
        WITH Workers <- Threads, Items <- States, NoItem <- Null,
             InitialItem <- InitialState,
             queue <- [k \in Queues |-> Contents(k)],
             taken <- [t \in Threads |-> IF At(t, "dload") THEN Load(th[t].ends.head)
                                                           ELSE th[t].got],
             returned <- explored

ImplementsQueues == Q!QueuesSpec
=============================================================================
