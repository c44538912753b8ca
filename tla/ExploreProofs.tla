---------------------------- MODULE ExploreProofs ----------------------------
(***************************************************************************)
(* Proofs about the exploration: nothing is lost, the errors counted are   *)
(* those the model has, and states are marked live that should be.         *)
(***************************************************************************)
EXTENDS Explore, TLAPS, FiniteSetTheorems, WellFoundedInduction

Labels == {"unborn", "init", "top", "dequeue", "rule", "mark", "raise", "enqueue",
           "exit", "join", "learn", "exited"}
\* In possession of a new state, of a state whose rules are run, of nothing more.
New == {"raise", "mark", "enqueue"}
Active == New \cup {"rule"}
Over == {"exit", "join", "learn", "exited"}

SomeState == States \cup {NoState}
Locals == [pc : Labels, s : SomeState, rule_taken : Nat \ {0}, queue_id : Threads,
           attempts : Nat, possible_deadlock : BOOLEAN, fired : Nat, n : SomeState,
           todo : SUBSET Liveness, at : SomeState, status : {0, 1}]
Structs == [previous : SomeState, rule_taken : Nat \ {0}, bound : 0..BOUND,
            liveness : SUBSET Liveness]

Typed ==
    /\ model \in Models
    /\ seen \subseteq States
    /\ node \in [seen -> Structs]
    /\ queue \in [Threads -> Seq(States)]
    /\ error_count \in Nat
    /\ covered \subseteq Covers
    /\ phase \in {"warmup", "run"}
    /\ th \in [Threads -> Locals]
    /\ rules_fired \in [Threads -> Nat]

-----------------------------------------------------------------------------
(***************************************************************************)
(* What the local variables l of thread t say.                             *)
(***************************************************************************)

\* In init(), which only the initial thread runs, before there are others.
Starting(l) == l.pc = "init" \/ (l.pc \in New /\ l.s = NoState)
Expands(l) == l.pc \in Active /\ l.s # NoState

Shaped(t, l) ==
    /\ l.n # NoState <=> l.pc \in New
    /\ l.pc = "rule" => l.s # NoState
    /\ l.pc = "init" => l.s = NoState
    /\ Expands(l) => l.s # l.n
    /\ Starting(l) => t = 0 /\ phase = "warmup"
    /\ l.pc \in {"join", "learn"} => t = 0
    /\ l.pc = "unborn" <=> t # 0 /\ phase = "warmup"
    /\ l.pc = "raise" => l.n \in model.raising
    /\ l.pc \in {"mark", "enqueue"} => l.n \notin model.raising
    /\ l.pc = "mark" => l.at # NoState /\ l.todo # {}
    /\ l.pc = "dequeue" => l.attempts < THREADS
    /\ l.status = 1 => l.pc \in Over

Known(l) ==
    /\ {l.s, l.n, l.at} \subseteq seen \cup {NoState}
    /\ Expands(l) => l.s \notin model.raising /\ BelowBound(l.s)
    /\ Starting(l) /\ l.n # NoState => node[l.n].bound = 0

\* What a rule or start state yields has been dealt with.
Settled(outcome) ==
    /\ IsGood(outcome) => outcome \in seen
    /\ Violation(outcome) => error_count > 0

\* It has run start state or rule i.
Ran(l, i) == i < l.rule_taken \/ (i = l.rule_taken /\ l.pc \in New)
Progress(l) ==
    /\ Expands(l) =>
          /\ \A r \in 1..Rules : Ran(l, r) => Settled(model.rule[l.s][r])
          /\ l.possible_deadlock <=> \A r \in Moving(l.s) : ~Ran(l, r)
    /\ Starting(l) =>
          \A i \in 1..Len(model.starts) : Ran(l, i) => Settled(model.starts[i])

\* Errors have ended the exploration.
Stopped == reports # {} /\ error_count >= MAX_ERRORS

\* The queues looked into since the thread was at the top of its loop.
Tried(l) ==
    {k \in Threads : IF k < l.queue_id THEN l.queue_id - k <= l.attempts
                                       ELSE l.queue_id + THREADS - k <= l.attempts}
\* Nobody else puts states into these queues.
Kept(t, k) == k = t \/ phase = "warmup"
Exits(t, l) ==
    /\ l.pc = "dequeue" => \A k \in Tried(l) : Kept(t, k) => queue[k] = <<>>
    /\ l.pc \in Over => Stopped \/ \A k \in Threads : Kept(t, k) => queue[k] = <<>>
    /\ l.status = 1 => error_count > 0
    /\ l.status = 1 /\ l.pc = "exit" => Stopped

ThreadOK(t, l) == Shaped(t, l) /\ Known(l) /\ Progress(l) /\ Exits(t, l)
ThreadsOK == \A t \in Threads : ThreadOK(t, th[t])

-----------------------------------------------------------------------------
(***************************************************************************)
(* Where the seen states are.                                              *)
(***************************************************************************)

InHand(l) == ({l.n} \cup {x \in {l.s} : l.pc \in Active}) \ {NoState}
Elements(q) == {q[i] : i \in 1..Len(q)}
Apart(q) == \A i, j \in 1..Len(q) : q[i] = q[j] => i = j

QueuesApart ==
    /\ \A k \in Threads : Apart(queue[k])
    /\ \A j, k \in Threads : j # k => Elements(queue[j]) \cap Elements(queue[k]) = {}
HandsApart ==
    /\ \A t, u \in Threads : t # u => InHand(th[t]) \cap InHand(th[u]) = {}
    /\ \A t, k \in Threads : InHand(th[t]) \cap Elements(queue[k]) = {}
QueuedExpandable ==
    \A k \in Threads : \A s \in Elements(queue[k]) :
        s \in seen /\ s \notin model.raising /\ BelowBound(s)

\* All rules have been run on s.
Explored(s) ==
    /\ \A r \in 1..Rules : Settled(model.rule[s][r])
    /\ IsDeadlock(s) => error_count > 0
Released(s) ==
    \/ Stopped
    \/ s \in model.raising /\ error_count > 0
    \/ s \notin model.raising /\ (~BelowBound(s) \/ Explored(s))
Held(s) ==
    \/ \E t \in Threads : s \in InHand(th[t])
    \/ \E k \in Threads : s \in Elements(queue[k])
AllAccounted == \A s \in seen : Held(s) \/ Released(s)

StartsSettled ==
    Starting(th[0]) \/ Stopped \/ \A i \in 1..Len(model.starts) : Settled(model.starts[i])

\* Where the seen states come from.
Origin(s) ==
    \/ node[s].previous = NoState /\ s \in StartStates
    \/ /\ node[s].previous \in seen \ model.raising
       /\ s \in Successors(node[s].previous)
FoundRight ==
    /\ \A s \in seen : Origin(s)
    /\ seen \subseteq Reach(StartStates)

\* The initial thread has joined the others.
Joined == th[0].pc \in {"learn", "exited"}
Ending ==
    /\ error_count = 0 => reports = {}
    /\ error_count > 0 => reports # {} \/ th[0].pc = "exited"
    /\ th[0].pc = "learn" => error_count = 0
    /\ Joined /\ phase = "run" => \A u \in Threads \ {0} : At(u, "exited")
    /\ result.done <=> th[0].pc = "exited"

SearchInv ==
    /\ Typed /\ ThreadsOK
    /\ QueuesApart /\ HandsApart /\ QueuedExpandable /\ AllAccounted
    /\ StartsSettled /\ FoundRight /\ Ending

-----------------------------------------------------------------------------
(***************************************************************************)
(* The model and its options do not change.                                *)
(***************************************************************************)

LEMMA ModelFields ==
    ASSUME model \in Models
    PROVE  /\ THREADS \in Nat \ {0} /\ MAX_ERRORS \in Nat \ {0} /\ BOUND \in Nat
           /\ 0 \in Threads /\ Rules \in Nat /\ NoState \notin States
           /\ model.starts \in Seq(States \cup NotStates)
           /\ \A i \in 1..Len(model.starts) : model.starts[i] \in States \cup NotStates
           /\ \A s \in States, r \in 1..Rules : model.rule[s][r] \in States \cup NotStates
           /\ model.assumptions \subseteq States /\ model.invariants \subseteq States
           /\ model.raising \subseteq States
           /\ \A i \in Covers : model.covers[i] \subseteq States
           /\ \A p \in Liveness : model.liveness[p] \subseteq States
BY ExploreAssumption
DEF THREADS, MAX_ERRORS, BOUND, Threads, Covers, Liveness

LEMMA ModelKept ==
    ASSUME model' = model
    PROVE  /\ THREADS' = THREADS /\ MAX_ERRORS' = MAX_ERRORS /\ BOUND' = BOUND
           /\ DEADLOCK_DETECTION' = DEADLOCK_DETECTION
           /\ Threads' = Threads /\ Covers' = Covers /\ Liveness' = Liveness
           /\ Locals' = Locals /\ Structs' = Structs
           /\ StartStates' = StartStates
           /\ \A s : IsGood(s)' <=> IsGood(s)
           /\ \A s : Successors(s)' = Successors(s)
           /\ \A s : Violation(s)' <=> Violation(s)
           /\ \A s : Moving(s)' = Moving(s)
           /\ \A s : IsDeadlock(s)' <=> IsDeadlock(s)
           /\ \A S : Wider(S)' = Wider(S)
           /\ \A S : Reach(S)' = Reach(S)
<1>1. /\ THREADS' = THREADS /\ MAX_ERRORS' = MAX_ERRORS /\ BOUND' = BOUND
      /\ DEADLOCK_DETECTION' = DEADLOCK_DETECTION
      /\ Threads' = Threads /\ Covers' = Covers /\ Liveness' = Liveness
  BY DEF THREADS, MAX_ERRORS, BOUND, DEADLOCK_DETECTION, Threads, Covers, Liveness
<1>2. Locals' = Locals /\ Structs' = Structs
  BY <1>1 DEF Locals, Structs
<1>3. \A s : IsGood(s)' <=> IsGood(s)
  BY DEF IsGood
<1>4. StartStates' = StartStates
  BY DEF StartStates, IsGood
<1>5. \A s : Successors(s)' = Successors(s)
  BY DEF Successors, Outcomes, IsGood
<1>6. \A s : Violation(s)' <=> Violation(s)
  BY DEF Violation
<1>7. \A s : Moving(s)' = Moving(s)
  BY <1>1 DEF Moving, Firing
<1>8. \A s : IsDeadlock(s)' <=> IsDeadlock(s)
  BY <1>1, <1>7 DEF IsDeadlock
<1>9. \A S : Wider(S)' = Wider(S)
  BY <1>5 DEF Wider
<1>10. \A S : Reach(S)' = Reach(S)
  BY <1>9 DEF Reach
<1>. QED
  BY <1>1, <1>2, <1>3, <1>4, <1>5, <1>6, <1>7, <1>8, <1>9, <1>10

\* What every step does to what the threads share.
Grows ==
    /\ model' = model
    /\ seen \subseteq seen'
    /\ \A s \in seen : /\ node'[s].previous = node[s].previous
                       /\ node'[s].bound = node[s].bound
    /\ error_count' \in Nat /\ error_count <= error_count'
    /\ reports \subseteq reports'

LEMMA StoppedKept ==
    ASSUME Typed, Grows, Stopped
    PROVE  Stopped'
BY ModelKept, ModelFields DEF Typed, Grows, Stopped

LEMMA SettledKept ==
    ASSUME Typed, Grows, NEW o, Settled(o)
    PROVE  Settled(o)'
BY ModelKept DEF Typed, Grows, Settled

LEMMA BelowBoundKept ==
    ASSUME Grows, NEW s \in seen
    PROVE  BelowBound(s)' <=> BelowBound(s)
BY ModelKept DEF Grows, BelowBound

LEMMA OriginKept ==
    ASSUME Grows, NEW s \in seen, Origin(s)
    PROVE  Origin(s)'
BY ModelKept DEF Grows, Origin

LEMMA ReleasedKept ==
    ASSUME Typed, Grows, NEW s \in seen, Released(s)
    PROVE  Released(s)'
<1>1. Stopped => Stopped'
  BY StoppedKept
<1>2. BelowBound(s)' <=> BelowBound(s)
  BY BelowBoundKept
<1>3. error_count > 0 => error_count' > 0
  BY DEF Typed, Grows
<1>4. Explored(s) => Explored(s)'
  BY <1>3, SettledKept, ModelKept DEF Grows, Explored
<1>. QED
  BY <1>1, <1>2, <1>3, <1>4 DEF Released, Grows

LEMMA ThreadKept ==
    ASSUME Typed, Grows, phase' = phase, NEW t \in Threads, NEW l \in Locals,
           ThreadOK(t, l),
           l.pc \in Over \cup {"dequeue"} =>
              \A k \in Threads : Kept(t, k) /\ queue[k] = <<>> => queue'[k] = <<>>
    PROVE  ThreadOK(t, l)'
<1>1. Shaped(t, l)'
  BY ModelKept DEF Grows, ThreadOK, Shaped
<1>2. Known(l)'
  <2>1. {l.s, l.n, l.at} \subseteq seen \cup {NoState} /\ seen \subseteq seen'
    BY DEF ThreadOK, Known, Grows
  <2>2. ASSUME Expands(l) PROVE l.s \notin model'.raising /\ BelowBound(l.s)'
    BY <2>1, <2>2, BelowBoundKept DEF Grows, ThreadOK, Known, Expands
  <2>3. ASSUME Starting(l), l.n # NoState PROVE node'[l.n].bound = 0
    BY <2>1, <2>3 DEF Grows, ThreadOK, Known
  <2>. QED
    BY <2>1, <2>2, <2>3 DEF Known, Grows
<1>3. Progress(l)'
  BY ModelKept, SettledKept DEF Grows, ThreadOK, Progress
<1>4. Exits(t, l)'
  <2>1. Tried(l)' = Tried(l) /\ Threads' = Threads /\ \A k : Kept(t, k)' <=> Kept(t, k)
    BY ModelKept DEF Grows, Tried, Kept
  <2>. QED
    BY <2>1, StoppedKept DEF Grows, Typed, ThreadOK, Exits, Tried
<1>. QED
  BY <1>1, <1>2, <1>3, <1>4 DEF ThreadOK

-----------------------------------------------------------------------------
(***************************************************************************)
(* The kinds of steps.                                                     *)
(***************************************************************************)

Places == QueuesApart /\ HandsApart /\ QueuedExpandable /\ AllAccounted

\* Thread t goes on with local variables x; what it leaves behind and what it takes
\* is for the following to say.
Moves(t, x) ==
    /\ x \in Locals
    /\ th' = [th EXCEPT ![t] = x]
    /\ Grows
    /\ phase' = phase
    /\ ThreadOK(t, x)'
    /\ Starting(th[t]) => \/ Starting(x) \/ Stopped'
                          \/ \A i \in 1..Len(model.starts) : Settled(model.starts[i])'

\* Queues that a thread has found empty, or left, stay empty.
EmptyStays(u) ==
    th[u].pc \in Over \cup {"dequeue"} =>
        \A k \in Threads : Kept(u, k) /\ queue[k] = <<>> => queue'[k] = <<>>

LEMMA StartsKept ==
    ASSUME Typed, Grows, \A i \in 1..Len(model.starts) : Settled(model.starts[i])
    PROVE  \A i \in 1..Len(model.starts) : Settled(model.starts[i])'
BY SettledKept DEF Grows

LEMMA ThreadsKept ==
    ASSUME SearchInv, NEW t \in Threads, NEW x, Moves(t, x),
           \A u \in Threads \ {t} : EmptyStays(u)
    PROVE  ThreadsOK' /\ StartsSettled'
<1>. USE DEF SearchInv, Moves
<1>1. th \in [Threads -> Locals] /\ th' \in [Threads -> Locals] /\ th'[t] = x
      /\ \A u \in Threads \ {t} : th'[u] = th[u]
  BY DEF Typed
<1>2. Threads' = Threads /\ 0 \in Threads /\ model' = model
  BY ModelKept, ModelFields DEF Grows, Typed
<1>3. ASSUME NEW u \in Threads PROVE ThreadOK(u, th[u])'
  <2>1. CASE u = t
    BY <1>1, <2>1
  <2>2. CASE u # t
    <3>1. ThreadOK(u, th[u]) /\ th[u] \in Locals /\ EmptyStays(u)
      BY <1>1, <2>2 DEF ThreadsOK
    <3>2. PICK l \in Locals : l = th[u]
      BY <3>1
    <3>3. ThreadOK(u, l)'
      BY <3>1, <3>2, ThreadKept DEF EmptyStays
    <3>. QED
      BY <1>1, <2>2, <3>2, <3>3
  <2>. QED
    BY <2>1, <2>2
<1>4. StartsSettled'
  <2>1. CASE Starting(th[0])
    <3>1. CASE t = 0
      BY <1>1, <1>2, <2>1, <3>1 DEF StartsSettled, Starting
    <3>2. CASE t # 0
      BY <1>1, <1>2, <2>1, <3>2 DEF StartsSettled, Starting
    <3>. QED
      BY <3>1, <3>2
  <2>2. CASE ~Starting(th[0])
    BY <1>2, <2>2, StartsKept, StoppedKept DEF StartsSettled
  <2>. QED
    BY <2>1, <2>2
<1>. QED
  BY <1>2, <1>3, <1>4 DEF ThreadsOK

LEMMA ElementsAppended ==
    ASSUME NEW S, NEW q \in Seq(S), NEW n \in S
    PROVE  /\ Elements(Append(q, n)) = Elements(q) \cup {n}
           /\ Apart(q) /\ n \notin Elements(q) => Apart(Append(q, n))
<1>1. /\ Len(Append(q, n)) = Len(q) + 1 /\ Len(q) \in Nat
      /\ \A i \in 1..Len(q) : Append(q, n)[i] = q[i]
      /\ Append(q, n)[Len(q)+1] = n
  OBVIOUS
<1>2. \A i \in 1..Len(q)+1 : i \in 1..Len(q) \/ i = Len(q)+1
  BY <1>1
<1>. QED
  BY <1>1, <1>2 DEF Elements, Apart

LEMMA ElementsRemoved ==
    ASSUME NEW S, NEW q \in Seq(S), q # <<>>
    PROVE  /\ Head(q) \in S /\ Tail(q) \in Seq(S)
           /\ Elements(q) = Elements(Tail(q)) \cup {Head(q)}
           /\ Apart(q) => Apart(Tail(q)) /\ Head(q) \notin Elements(Tail(q))
<1>1. /\ Len(q) \in Nat \ {0} /\ Len(Tail(q)) = Len(q) - 1 /\ Head(q) = q[1]
      /\ \A i \in 1..Len(q)-1 : Tail(q)[i] = q[i+1]
      /\ Head(q) \in S /\ Tail(q) \in Seq(S)
  OBVIOUS
<1>2. \A i \in 1..Len(q) : i = 1 \/ (i - 1 \in 1..Len(q)-1 /\ i = (i - 1) + 1)
  BY <1>1
<1>3. Elements(q) = Elements(Tail(q)) \cup {Head(q)}
  <2>1. ASSUME NEW x \in Elements(q) PROVE x \in Elements(Tail(q)) \cup {Head(q)}
    <3>1. PICK i \in 1..Len(q) : x = q[i]
      BY <2>1 DEF Elements
    <3>2. CASE i = 1
      BY <1>1, <3>1, <3>2
    <3>3. CASE i # 1
      <4>1. i - 1 \in 1..Len(Tail(q)) /\ x = Tail(q)[i-1]
        BY <1>1, <1>2, <3>1, <3>3
      <4>. QED
        BY <4>1 DEF Elements
    <3>. QED
      BY <3>2, <3>3
  <2>2. ASSUME NEW x \in Elements(Tail(q)) PROVE x \in Elements(q)
    <3>1. PICK i \in 1..Len(q)-1 : x = q[i+1]
      BY <1>1, <2>2 DEF Elements
    <3>. QED
      BY <1>1, <3>1 DEF Elements
  <2>3. Head(q) \in Elements(q)
    BY <1>1 DEF Elements
  <2>. QED
    BY <2>1, <2>2, <2>3
<1>4. ASSUME Apart(q) PROVE Apart(Tail(q)) /\ Head(q) \notin Elements(Tail(q))
  <2>1. \A i, j \in 1..Len(q)-1 : q[i+1] = q[j+1] => i = j
    BY <1>1, <1>4 DEF Apart
  <2>2. \A i \in 1..Len(q)-1 : q[i+1] # q[1]
    BY <1>1, <1>4 DEF Apart
  <2>. QED
    BY <1>1, <2>1, <2>2 DEF Apart, Elements
<1>. QED
  BY <1>1, <1>3, <1>4

\* The thread that moves puts states it holds down, or takes new ones.
LEMMA HandMoves ==
    ASSUME SearchInv, NEW t \in Threads, NEW x, Grows, queue' = queue, th'[t] = x,
           \A u \in Threads \ {t} : InHand(th'[u]) = InHand(th[u]),
           seen' \subseteq seen \cup InHand(x), InHand(x) \cap seen \subseteq InHand(th[t]),
           \A s \in InHand(th[t]) \ InHand(x) : Released(s)'
    PROVE  Places'
<1>. USE DEF SearchInv
<1>1. Threads' = Threads /\ model' = model /\ seen \subseteq seen'
  BY ModelKept DEF Grows
<1>2. \A u \in Threads : InHand(th[u]) \subseteq seen
  BY DEF ThreadsOK, ThreadOK, Known, InHand
<1>3. \A k \in Threads : Elements(queue[k]) \subseteq seen
  BY DEF QueuedExpandable
<1>4. QueuesApart'
  BY <1>1 DEF QueuesApart
<1>5. HandsApart'
  BY <1>1, <1>2, <1>3 DEF HandsApart
<1>6. QueuedExpandable'
  BY <1>1, BelowBoundKept DEF QueuedExpandable
<1>7. ASSUME NEW s \in seen' PROVE Held(s)' \/ Released(s)'
  <2>1. CASE s \notin seen
    BY <1>1, <1>7, <2>1 DEF Held
  <2>2. CASE s \in seen /\ Held(s)
    BY <1>1, <2>2 DEF Held
  <2>3. CASE s \in seen /\ ~Held(s)
    BY <2>3, ReleasedKept DEF AllAccounted
  <2>. QED
    BY <2>1, <2>2, <2>3
<1>. QED
  BY <1>4, <1>5, <1>6, <1>7 DEF Places, AllAccounted

\* A state goes from a hand to the end of a queue.
LEMMA HandToQueue ==
    ASSUME SearchInv, NEW t \in Threads, NEW x, Grows, seen' = seen, th'[t] = x,
           \A u \in Threads \ {t} : InHand(th'[u]) = InHand(th[u]),
           NEW k \in Threads, NEW n \in InHand(th[t]),
           queue' = [queue EXCEPT ![k] = Append(queue[k], n)],
           n \notin model.raising, BelowBound(n),
           InHand(x) = InHand(th[t]) \ {n}
    PROVE  Places'
<1>. USE DEF SearchInv
<1>0. InHand(th'[t]) = InHand(th[t]) \ {n}
  OBVIOUS
<1>1. Threads' = Threads /\ model' = model
  BY ModelKept DEF Grows
<1>2. \A u \in Threads : InHand(th[u]) \subseteq seen
  BY DEF ThreadsOK, ThreadOK, Known, InHand
<1>3. n \in States /\ n \in seen /\ queue \in [Threads -> Seq(States)]
  BY <1>2 DEF Typed
<1>4. /\ Elements(queue'[k]) = Elements(queue[k]) \cup {n} /\ Apart(queue'[k])
      /\ \A j \in Threads \ {k} : queue'[j] = queue[j]
  BY <1>3, ElementsAppended DEF QueuesApart, HandsApart
<1>5. QueuesApart'
  <2>1. \A j \in Threads : Apart(queue'[j])
    BY <1>4 DEF QueuesApart
  <2>2. ASSUME NEW i \in Threads, NEW j \in Threads, i # j
        PROVE  Elements(queue'[i]) \cap Elements(queue'[j]) = {}
    <3>1. /\ Elements(queue[i]) \cap Elements(queue[j]) = {}
          /\ n \notin Elements(queue[i]) /\ n \notin Elements(queue[j])
      BY <2>2 DEF QueuesApart, HandsApart
    <3>2. CASE i = k
      BY <1>4, <2>2, <3>1, <3>2
    <3>3. CASE i # k
      BY <1>4, <2>2, <3>1, <3>3
    <3>. QED
      BY <3>2, <3>3
  <2>. QED
    BY <1>1, <2>1, <2>2 DEF QueuesApart
<1>6. HandsApart'
  <2>1. \A u \in Threads : InHand(th'[u]) \subseteq InHand(th[u])
    BY <1>0
  <2>2. \A u, v \in Threads : u # v => InHand(th'[u]) \cap InHand(th'[v]) = {}
    BY <2>1 DEF HandsApart
  <2>3. \A u, j \in Threads : InHand(th'[u]) \cap Elements(queue'[j]) = {}
    BY SMTT(30), <1>0, <1>4, <2>1 DEF HandsApart
  <2>. QED
    BY <1>1, <2>2, <2>3 DEF HandsApart
<1>7. QueuedExpandable'
  BY <1>1, <1>3, <1>4, BelowBoundKept DEF QueuedExpandable
<1>8. ASSUME NEW s \in seen PROVE Held(s)' \/ Released(s)'
  <2>1. CASE Held(s)
    BY <1>1, <1>4, <2>1 DEF Held
  <2>2. CASE ~Held(s)
    BY <2>2, ReleasedKept DEF AllAccounted
  <2>. QED
    BY <2>1, <2>2
<1>. QED
  BY <1>5, <1>6, <1>7, <1>8 DEF Places, AllAccounted

\* A state goes from the head of a queue to a hand that was empty.
LEMMA QueueToHand ==
    ASSUME SearchInv, NEW t \in Threads, NEW x, Grows, seen' = seen, th'[t] = x,
           \A u \in Threads \ {t} : th'[u] = th[u],
           NEW k \in Threads, queue[k] # <<>>,
           queue' = [queue EXCEPT ![k] = Tail(queue[k])],
           InHand(th[t]) = {}, InHand(x) = {Head(queue[k])}
    PROVE  Places'
<1>. USE DEF SearchInv
<1>1. Threads' = Threads /\ model' = model
  BY ModelKept DEF Grows
<1>2. queue \in [Threads -> Seq(States)] /\ queue[k] \in Seq(States) /\ Apart(queue[k])
  BY DEF Typed, QueuesApart
<1>3. /\ Elements(queue[k]) = Elements(queue'[k]) \cup {Head(queue[k])}
      /\ Apart(queue'[k]) /\ Head(queue[k]) \notin Elements(queue'[k])
      /\ \A j \in Threads \ {k} : queue'[j] = queue[j]
  BY <1>2, ElementsRemoved
<1>4. QueuesApart'
  <2>1. \A j \in Threads : Apart(queue'[j])
    BY <1>3 DEF QueuesApart
  <2>2. \A i, j \in Threads : i # j => Elements(queue'[i]) \cap Elements(queue'[j]) = {}
    BY <1>3 DEF QueuesApart
  <2>. QED
    BY <1>1, <2>1, <2>2 DEF QueuesApart
<1>5. HandsApart'
  <2>1. InHand(th'[t]) = {Head(queue[k])} /\ \A u \in Threads \ {t} : InHand(th'[u]) = InHand(th[u])
    OBVIOUS
  <2>2. \A u, v \in Threads : u # v => InHand(th'[u]) \cap InHand(th'[v]) = {}
    BY <1>3, <2>1 DEF HandsApart
  <2>3. ASSUME NEW u \in Threads, NEW j \in Threads
        PROVE  InHand(th'[u]) \cap Elements(queue'[j]) = {}
    <3>1. Head(queue[k]) \notin Elements(queue'[j])
      BY <1>3 DEF QueuesApart
    <3>2. Elements(queue'[j]) \subseteq Elements(queue[j])
      BY <1>3
    <3>. QED
      BY SMTT(30), <2>1, <3>1, <3>2 DEF HandsApart
  <2>. QED
    BY <1>1, <2>2, <2>3 DEF HandsApart
<1>6. QueuedExpandable'
  BY <1>1, <1>3, BelowBoundKept DEF QueuedExpandable
<1>7. ASSUME NEW s \in seen PROVE Held(s)' \/ Released(s)'
  <2>1. CASE Held(s)
    BY <1>1, <1>3, <2>1 DEF Held
  <2>2. CASE ~Held(s)
    BY <2>2, ReleasedKept DEF AllAccounted
  <2>. QED
    BY <2>1, <2>2
<1>. QED
  BY <1>4, <1>5, <1>6, <1>7 DEF Places, AllAccounted

LEMMA FoundKept ==
    ASSUME SearchInv, Grows, seen' = seen
    PROVE  FoundRight'
BY OriginKept, ModelKept DEF SearchInv, FoundRight, Grows

-----------------------------------------------------------------------------
(***************************************************************************)
(* A thread goes on with the next rule or start state.                     *)
(***************************************************************************)

\* The outcome of its rule, if it was to run one, has been dealt with.
Follows(l, x) ==
    /\ x \in Locals
    /\ x.pc = IF l.s = NoState THEN "init" ELSE "rule"
    /\ x.s = l.s /\ x.rule_taken = l.rule_taken + 1 /\ x.n = NoState
    /\ x.at \in {l.at, NoState}
    /\ x.status = l.status
    /\ IF l.pc = "rule"
         THEN x.possible_deadlock <=> l.possible_deadlock /\ l.rule_taken \notin Moving(l.s)
         ELSE x.possible_deadlock <=> l.possible_deadlock

LEMMA NextRuleFields ==
    ASSUME NEW l \in Locals, NEW x, x = NextRule(l), model \in Models
    PROVE  /\ x \in Locals
           /\ x.pc = IF l.s = NoState THEN "init" ELSE "rule"
           /\ x.s = l.s /\ x.rule_taken = l.rule_taken + 1 /\ x.n = NoState /\ x.at = l.at
           /\ x.status = l.status /\ x.possible_deadlock = l.possible_deadlock
<1>1. x = [l EXCEPT !.pc = IF l.s = NoState THEN "init" ELSE "rule",
                    !.rule_taken = l.rule_taken + 1, !.n = NoState]
  BY DEF NextRule
<1>2. PICK g \in {"init", "rule"} : g = IF l.s = NoState THEN "init" ELSE "rule"
  OBVIOUS
<1>3. x = [l EXCEPT !.pc = g, !.rule_taken = l.rule_taken + 1, !.n = NoState]
  BY <1>1, <1>2
<1>4. /\ x.pc = g /\ x.s = l.s /\ x.rule_taken = l.rule_taken + 1 /\ x.n = NoState
      /\ x.at = l.at /\ x.status = l.status /\ x.possible_deadlock = l.possible_deadlock
  BY <1>3 DEF Locals
<1>5. l.rule_taken + 1 \in Nat \ {0}
  BY DEF Locals
<1>6. x \in Locals
  BY <1>3, <1>5 DEF Locals, Labels, SomeState
<1>. QED
  BY <1>2, <1>4, <1>6

LEMMA OutcomeIs ==
    ASSUME SearchInv, NEW t \in Threads, InInit(t) \/ InRules(t)
    PROVE  /\ th[t] \in Locals /\ th[t].pc \in {"init", "rule"}
           /\ th[t].pc = "init" => /\ th[t].rule_taken \in 1..Len(model.starts)
                                   /\ Outcome(t) = model.starts[th[t].rule_taken]
           /\ th[t].pc = "rule" => /\ th[t].rule_taken \in 1..Rules /\ th[t].s \in States
                                   /\ th[t].s \in seen
                                   /\ Outcome(t) = model.rule[th[t].s][th[t].rule_taken]
           /\ Outcome(t) \in States \cup NotStates
<1>. USE DEF SearchInv
<1>1. th[t] \in Locals /\ model \in Models
  BY DEF Typed
<1>2. th[t].rule_taken \in Nat \ {0} /\ th[t].s \in States \cup {NoState}
  BY <1>1 DEF Locals, SomeState
<1>3. CASE InInit(t)
  <2>1. Len(model.starts) \in Nat
    BY <1>1, ModelFields
  <2>. QED
    BY <1>1, <1>2, <1>3, <2>1, ModelFields DEF InInit, At, Outcome
<1>4. CASE InRules(t)
  <2>1. th[t].pc = "rule" /\ th[t].s # NoState /\ th[t].s \in seen
    BY <1>4 DEF InRules, At, ThreadsOK, ThreadOK, Shaped, Known
  <2>. QED
    BY <1>1, <1>2, <1>4, <2>1, ModelFields DEF InRules, At, Outcome
<1>. QED
  BY <1>3, <1>4

\* What possible_deadlock says about the rules of s that count as progress.
LEMMA StuttersOrMoves ==
    ASSUME NEW s, NEW r \in 1..Rules
    PROVE  /\ model.rule[s][r] \in States => (Stutters(s, r) <=> r \notin Moving(s))
           /\ model.rule[s][r] \notin States => r \notin Moving(s)
BY DEF Stutters, Moving, Firing

LEMMA AfterRuleFields ==
    ASSUME SearchInv, NEW t \in Threads, InInit(t) \/ InRules(t), NEW l, l = th[t],
           Outcome(t) \in States, NEW y, y = AfterRule(t)
    PROVE  /\ y \in Locals /\ y.pc = l.pc /\ y.s = l.s /\ y.rule_taken = l.rule_taken
           /\ y.n = l.n /\ y.at = l.at /\ y.status = l.status
           /\ y.queue_id = l.queue_id
           /\ IF l.pc = "rule"
                THEN y.possible_deadlock <=> l.possible_deadlock /\ l.rule_taken \notin Moving(l.s)
                ELSE y.possible_deadlock <=> l.possible_deadlock
<1>1. l \in Locals /\ l.pc \in {"init", "rule"}
  BY OutcomeIs
<1>2. CASE l.pc = "init"
  BY <1>1, <1>2 DEF AfterRule, At
<1>3. CASE l.pc = "rule"
  <2>1. Stutters(l.s, l.rule_taken) <=> l.rule_taken \notin Moving(l.s)
    BY <1>3, OutcomeIs, StuttersOrMoves
  <2>2. PICK b \in BOOLEAN : b = (l.possible_deadlock /\ Stutters(l.s, l.rule_taken))
    OBVIOUS
  <2>3. y = [l EXCEPT !.fired = l.fired + 1, !.possible_deadlock = b]
    BY <1>3, <2>2 DEF AfterRule, At
  <2>4. l.fired + 1 \in Nat
    BY <1>1 DEF Locals
  <2>5. y \in Locals
    BY <1>1, <2>2, <2>3, <2>4 DEF Locals
  <2>6. /\ y.pc = l.pc /\ y.s = l.s /\ y.rule_taken = l.rule_taken
        /\ y.n = l.n /\ y.at = l.at /\ y.status = l.status /\ y.possible_deadlock = b
        /\ y.queue_id = l.queue_id
    BY <1>1, <2>3 DEF Locals
  <2>. QED
    BY <1>3, <2>1, <2>2, <2>5, <2>6
<1>. QED
  BY <1>1, <1>2, <1>3

LEMMA FollowsNothing ==
    ASSUME SearchInv, NEW t \in Threads, InInit(t) \/ InRules(t), Outcome(t) \notin States
    PROVE  Follows(th[t], NextRule(th[t]))
<1>1. th[t] \in Locals /\ model \in Models
  BY DEF SearchInv, Typed
<1>2. th[t].pc = "rule" => th[t].rule_taken \notin Moving(th[t].s)
  BY OutcomeIs, StuttersOrMoves
<1>3. PICK x : x = NextRule(th[t])
  OBVIOUS
<1>. QED
  BY <1>1, <1>2, <1>3, NextRuleFields DEF Follows

LEMMA FollowsRule ==
    ASSUME SearchInv, NEW t \in Threads, InInit(t) \/ InRules(t), Outcome(t) \in States
    PROVE  Follows(th[t], NextRule(AfterRule(t)))
<1>1. PICK y : y = AfterRule(t)
  OBVIOUS
<1>2. PICK x : x = NextRule(y)
  OBVIOUS
<1>3. y \in Locals /\ model \in Models
  BY <1>1, AfterRuleFields DEF SearchInv, Typed
<1>4. /\ x \in Locals
      /\ x.pc = IF y.s = NoState THEN "init" ELSE "rule"
      /\ x.s = y.s /\ x.rule_taken = y.rule_taken + 1 /\ x.n = NoState /\ x.at = y.at
      /\ x.status = y.status /\ x.possible_deadlock = y.possible_deadlock
  BY <1>2, <1>3, NextRuleFields
<1>. QED
  BY <1>1, <1>2, <1>4, AfterRuleFields DEF Follows

LEMMA FollowsInsertion ==
    ASSUME SearchInv, NEW t \in Threads, th[t].pc \in New
    PROVE  Follows(th[t], NextRule(th[t]))
<1>1. th[t] \in Locals /\ model \in Models
  BY DEF SearchInv, Typed
<1>2. PICK x : x = NextRule(th[t])
  OBVIOUS
<1>. QED
  BY <1>1, <1>2, NextRuleFields DEF Follows, New

LEMMA RanBefore ==
    ASSUME NEW l \in Locals, NEW x \in Locals, x.rule_taken = l.rule_taken + 1,
           x.pc \notin New, l.pc \in New \cup {"init", "rule"}
    PROVE  /\ \A i \in Nat : Ran(x, i) <=> Ran(l, i) \/ i = l.rule_taken
           /\ l.pc \in New => Ran(l, l.rule_taken)
           /\ l.pc \notin New => \A i \in Nat : Ran(l, i) => i # l.rule_taken
BY DEF Ran, Locals

LEMMA FollowsThreadOK ==
    ASSUME SearchInv, NEW t \in Threads, NEW l, l = th[t], NEW x, Follows(l, x),
           l.pc \in New \cup {"init", "rule"}, NEW o,
           l.pc \notin New => /\ InInit(t) \/ InRules(t)
                              /\ o = Outcome(t) /\ Settled(o)',
           Grows, phase' = phase \/ (t = 0 /\ l.s # NoState)
    PROVE  /\ ThreadOK(t, x)' /\ x \in Locals
           /\ Starting(x) <=> Starting(l)
           /\ InHand(x) = InHand(l) \ {l.n}
           /\ x.pc \notin Over
<1>. USE DEF SearchInv
<1>1. l \in Locals /\ ThreadOK(t, l) /\ x \in Locals /\ model \in Models
  BY DEF Typed, ThreadsOK, Follows
<1>2. /\ x.pc = IF l.s = NoState THEN "init" ELSE "rule"
      /\ x.s = l.s /\ x.rule_taken = l.rule_taken + 1 /\ x.n = NoState
      /\ x.at \in {l.at, NoState}
      /\ x.status = l.status
  BY DEF Follows
<1>3. /\ Starting(x) <=> Starting(l)
      /\ Expands(x) <=> Expands(l)
      /\ x.pc = "rule" <=> Expands(l)
  BY <1>1, <1>2 DEF Starting, Expands, New, Active, ThreadOK, Shaped
<1>4. Shaped(t, x)'
  BY <1>1, <1>2, <1>3, ModelKept
  DEF ThreadOK, Shaped, New, Active, Over, Grows, Expands, Starting
<1>5. Known(x)'
  <2>1. {x.s, x.n, x.at} \subseteq seen \cup {NoState} /\ seen \subseteq seen'
    BY <1>1, <1>2 DEF ThreadOK, Known, Grows
  <2>2. ASSUME Expands(x) PROVE x.s \notin model'.raising /\ BelowBound(x.s)'
    <3>1. x.s # NoState /\ x.s \notin model.raising /\ BelowBound(x.s)
      BY <1>1, <1>2, <1>3, <2>2 DEF ThreadOK, Known, Expands
    <3>. QED
      BY <2>1, <3>1, BelowBoundKept DEF Grows
  <2>. QED
    BY <1>2, <2>1, <2>2 DEF Known
<1>6. /\ \A i \in Nat : Ran(x, i) <=> Ran(l, i) \/ i = l.rule_taken
      /\ l.pc \in New => Ran(l, l.rule_taken)
      /\ l.pc \notin New => \A i \in Nat : Ran(l, i) => i # l.rule_taken
  <2>1. x.pc \notin New
    BY <1>2 DEF New
  <2>. QED
    BY <1>1, <1>2, <2>1, RanBefore
<1>7. Progress(x)'
  <2>1. ASSUME Expands(x), NEW r \in 1..Rules, Ran(x, r)
        PROVE  Settled(model.rule[x.s][r])'
    <3>1. CASE Ran(l, r)
      <4>1. Settled(model.rule[l.s][r])
        BY <1>1, <1>3, <2>1, <3>1 DEF ThreadOK, Progress
      <4>. QED
        BY <1>2, <4>1, SettledKept DEF Grows
    <3>2. CASE ~Ran(l, r)
      <4>1. r = l.rule_taken /\ l.pc \notin New
        BY <1>1, <1>6, <2>1, <3>2, ModelFields
      <4>2. l.pc = "rule" /\ o = model.rule[l.s][r] /\ Settled(o)'
        BY <1>1, <1>3, <2>1, <4>1, OutcomeIs DEF ThreadOK, Shaped, Expands, Active
      <4>. QED
        BY <1>2, <4>2 DEF Grows
    <3>. QED
      BY <3>1, <3>2
  <2>2. ASSUME Starting(x), NEW i \in 1..Len(model.starts), Ran(x, i)
        PROVE  Settled(model.starts[i])'
    <3>1. CASE Ran(l, i)
      <4>1. Settled(model.starts[i])
        BY <1>1, <1>3, <2>2, <3>1 DEF ThreadOK, Progress
      <4>. QED
        BY <4>1, SettledKept DEF Grows
    <3>2. CASE ~Ran(l, i)
      <4>1. i = l.rule_taken /\ l.pc \notin New
        BY <1>1, <1>6, <2>2, <3>2, ModelFields
      <4>2. l.pc = "init" /\ o = model.starts[i] /\ Settled(o)'
        BY <1>1, <1>3, <2>2, <4>1, OutcomeIs DEF ThreadOK, Shaped, Starting
      <4>. QED
        BY <4>2 DEF Grows
    <3>. QED
      BY <3>1, <3>2
  <2>3. ASSUME Expands(x)
        PROVE  x.possible_deadlock <=> \A r \in Moving(x.s) : ~Ran(x, r)
    <3>1. l.possible_deadlock <=> \A r \in Moving(l.s) : ~Ran(l, r)
      BY <1>1, <1>3, <2>3 DEF ThreadOK, Progress
    <3>2. \A r \in Moving(l.s) : r \in Nat
      BY <1>1, ModelFields DEF Moving, Firing
    <3>3. CASE l.pc = "rule"
      <4>1. x.possible_deadlock <=> l.possible_deadlock /\ l.rule_taken \notin Moving(l.s)
        BY <3>3 DEF Follows
      <4>2. l.rule_taken \in Nat
        BY <1>1 DEF Locals
      <4>. QED
        BY <1>2, <1>6, <3>1, <3>2, <4>1, <4>2
    <3>4. CASE l.pc # "rule"
      <4>1. x.possible_deadlock <=> l.possible_deadlock
        BY <3>4 DEF Follows
      <4>2. l.pc \in New
        BY <1>3, <2>3, <3>4 DEF Expands, Active
      <4>. QED
        BY <1>2, <1>6, <3>1, <3>2, <4>1, <4>2
    <3>. QED
      BY <3>3, <3>4
  <2>. QED
    BY <2>1, <2>2, <2>3, ModelKept DEF Progress, Grows
<1>8. Exits(t, x)'
  <2>1. x.status # 1
    BY <1>1, <1>2 DEF ThreadOK, Shaped, Over, New
  <2>. QED
    BY <1>2, <2>1 DEF Exits, Over
<1>9. InHand(x) = InHand(l) \ {l.n}
  BY <1>1, <1>2, <1>3 DEF InHand, ThreadOK, Shaped, Expands, Active, New
<1>. QED
  BY <1>1, <1>2, <1>3, <1>4, <1>5, <1>7, <1>8, <1>9 DEF ThreadOK, Over

LEMMA FollowsOK ==
    ASSUME SearchInv, NEW t \in Threads, NEW l, l = th[t], NEW x, Follows(l, x),
           l.pc \in New \cup {"init", "rule"}, NEW o,
           l.pc \notin New => /\ InInit(t) \/ InRules(t)
                              /\ o = Outcome(t) /\ Settled(o)',
           Grows, phase' = phase, th' = [th EXCEPT ![t] = x]
    PROVE  /\ Moves(t, x)
           /\ InHand(x) = InHand(l) \ {l.n}
           /\ x.pc \notin Over
BY FollowsThreadOK DEF Moves

\* Errors have ended the exploration, and the thread calls exit_with.
LEMMA ExitOK ==
    ASSUME SearchInv, NEW t \in Threads, NEW l, l = th[t], NEW x \in Locals,
           l.pc # "unborn", x.pc = "exit", x.n = NoState,
           {x.s, x.at} \subseteq seen \cup {NoState},
           Grows, Stopped', phase' = phase, th' = [th EXCEPT ![t] = x]
    PROVE  /\ Moves(t, x)
           /\ InHand(x) = {}
<1>. USE DEF SearchInv
<1>1. ThreadOK(t, l) /\ model \in Models
  BY DEF Typed, ThreadsOK
<1>2. Shaped(t, x)'
  BY <1>1, ModelKept DEF ThreadOK, Shaped, New, Active, Over, Grows, Expands, Starting
<1>3. Known(x)'
  BY DEF Known, Grows, Expands, Starting, Active, New
<1>4. Progress(x)'
  BY DEF Progress, Expands, Starting, Active, New
<1>5. Exits(t, x)'
  <2>1. error_count' > 0
    BY <1>1, ModelKept, ModelFields DEF Stopped, Grows
  <2>. QED
    BY <2>1 DEF Exits, Over
<1>6. InHand(x) = {}
  BY DEF InHand, Active, New
<1>. QED
  BY <1>2, <1>3, <1>4, <1>5, <1>6 DEF Moves, ThreadOK

-----------------------------------------------------------------------------
(***************************************************************************)
(* Steps that put no state into the set or a queue, and take none out.     *)
(***************************************************************************)

LEMMA NotJoined ==
    ASSUME SearchInv, NEW t \in Threads, th[t].pc \notin {"unborn", "learn", "exited"}
    PROVE  ~Joined /\ (error_count > 0 <=> reports # {})
<1>. USE DEF SearchInv
<1>1. ThreadOK(t, th[t]) /\ phase \in {"warmup", "run"} /\ error_count \in Nat
  BY DEF ThreadsOK, Typed
<1>2. CASE t = 0
  BY <1>1, <1>2 DEF Joined, Over, Ending
<1>3. CASE t # 0
  <2>1. phase = "run"
    BY <1>1, <1>3 DEF ThreadOK, Shaped
  <2>. QED
    BY <1>1, <1>3, <2>1 DEF Joined, Over, Ending, At
<1>. QED
  BY <1>2, <1>3

LEMMA EndingKept ==
    ASSUME SearchInv, NEW t \in Threads, NEW x, Moves(t, x),
           ~Joined, t = 0 => x.pc \notin {"learn", "exited"}, result' = result,
           error_count' \in Nat, error_count' > 0 <=> reports' # {}
    PROVE  Ending'
<1>1. th \in [Threads -> Locals] /\ 0 \in Threads
  BY ModelFields DEF SearchInv, Typed
<1>2. th'[0].pc \notin {"learn", "exited"}
  BY <1>1 DEF Moves, Joined
<1>. QED
  BY <1>2 DEF SearchInv, Ending, Joined

LEMMA TypedKept ==
    ASSUME SearchInv, NEW t \in Threads, NEW x, Moves(t, x),
           UNCHANGED <<node, queue, covered, rules_fired>>
    PROVE  Typed'
<1>1. Grows /\ x \in Locals /\ th' = [th EXCEPT ![t] = x] /\ seen' = seen /\ phase' = phase
  BY DEF Moves, seen
<1>. QED
  BY <1>1, ModelKept DEF SearchInv, Typed, Grows

LEMMA RelabelKeeps ==
    ASSUME SearchInv, NEW t \in Threads, NEW x, Moves(t, x), Typed', Ending',
           seen' = seen, queue' = queue,
           InHand(x) \subseteq InHand(th[t]),
           \A s \in InHand(th[t]) \ InHand(x) : Released(s)'
    PROVE  SearchInv'
<1>1. ThreadsOK' /\ StartsSettled'
  <2>1. \A u \in Threads \ {t} : EmptyStays(u)
    BY DEF EmptyStays
  <2>. QED
    BY <2>1, ThreadsKept
<1>2. Grows
  BY DEF Moves
<1>3. FoundRight'
  BY <1>2, FoundKept
<1>4. th'[t] = x /\ \A u \in Threads \ {t} : InHand(th'[u]) = InHand(th[u])
  BY DEF Moves, SearchInv, Typed
<1>5. Places'
  BY <1>2, <1>4, HandMoves
<1>. QED
  BY <1>1, <1>3, <1>5 DEF SearchInv, Places

LEMMA PlainKeeps ==
    ASSUME SearchInv, NEW t \in Threads, NEW x, Moves(t, x), Typed', Ending',
           UNCHANGED <<node, queue>>,
           InHand(x) \subseteq InHand(th[t]),
           \A s \in InHand(th[t]) \ InHand(x) : Released(s)'
    PROVE  SearchInv'
<1>1. seen' = seen /\ queue' = queue
  BY DEF seen
<1>. QED
  BY <1>1, RelabelKeeps

\* Nothing is counted and nothing that is shared changes.
LEMMA QuietGrows ==
    ASSUME SearchInv, UNCHANGED <<model, node, error_count, reports>>
    PROVE  Grows /\ error_count' \in Nat
BY DEF SearchInv, Typed, Grows, seen

\* error() lets the thread go on with y, or it leaves.
Leaves(y, z) == z \in Locals /\ z.pc = "exit" /\ z.n = y.n /\ z.s = y.s /\ z.at = y.at
Counted(t, y) ==
    /\ Grows /\ error_count' = error_count + 1 /\ reports' # {}
    /\ error_count' \in Nat /\ error_count' > 0
    /\ UNCHANGED <<model, node, queue, covered, phase, rules_fired, result>>
    /\ \E z : /\ th' = [th EXCEPT ![t] = z]
              /\ z = y \/ (Stopped' /\ Leaves(y, z))

LEMMA ErrorGrows ==
    ASSUME SearchInv, NEW t \in Threads, th[t].pc \notin Over \cup {"unborn"},
           NEW kind, NEW trace, NEW y \in Locals, Error(t, kind, trace, y)
    PROVE  Counted(t, y)
<1>1. error_count \in Nat /\ MAX_ERRORS \in Nat \ {0} /\ (error_count > 0 <=> reports # {})
  BY NotJoined, ModelFields DEF SearchInv, Typed, Over
<1>2. /\ error_count' = error_count + 1
      /\ reports' = IF error_count < MAX_ERRORS
                      THEN reports \cup {[kind |-> kind, trace |-> trace]} ELSE reports
      /\ th' = [th EXCEPT ![t] = IF error_count + 1 < MAX_ERRORS THEN y
                                   ELSE [y EXCEPT !.pc = "exit", !.status = 1]]
      /\ UNCHANGED <<model, node, queue, covered, phase, rules_fired, result>>
  BY DEF Error, Prints, Continues
<1>3. reports' # {} /\ reports \subseteq reports'
  <2>1. CASE error_count < MAX_ERRORS
    BY <1>2, <2>1
  <2>2. CASE ~(error_count < MAX_ERRORS)
    BY <1>1, <1>2, <2>2
  <2>. QED
    BY <2>1, <2>2
<1>4. Grows
  BY <1>1, <1>2, <1>3 DEF Grows, seen
<1>7. error_count' \in Nat /\ error_count' > 0
  BY <1>1, <1>2
<1>. DEFINE Result(z) == th' = [th EXCEPT ![t] = z] /\ (z = y \/ (Stopped' /\ Leaves(y, z)))
<1>5. CASE error_count + 1 < MAX_ERRORS
  <2>1. Result(y)
    BY <1>2, <1>5
  <2>. HIDE DEF Result
  <2>2. \E z : Result(z)
    BY <2>1
  <2>. QED
    BY <1>2, <1>3, <1>4, <1>7, <2>2 DEF Counted, Result
<1>6. CASE ~(error_count + 1 < MAX_ERRORS)
  <2>1. Stopped'
    BY <1>1, <1>2, <1>3, <1>6, ModelKept DEF Stopped
  <2>2. PICK z : z = [y EXCEPT !.pc = "exit", !.status = 1]
    OBVIOUS
  <2>3. Leaves(y, z)
    BY <2>2 DEF Leaves, Locals, Labels
  <2>4. th' = [th EXCEPT ![t] = z]
    BY <1>2, <1>6, <2>2
  <2>5. Result(z)
    BY <2>1, <2>3, <2>4
  <2>. HIDE DEF Result
  <2>6. \E w : Result(w)
    BY <2>5
  <2>. QED
    BY <1>2, <1>3, <1>4, <1>7, <2>6 DEF Counted, Result
<1>. QED
  BY <1>5, <1>6

\* A rule or start state is done with, and nothing but a count of errors changed.
LEMMA RuleKeeps ==
    ASSUME SearchInv, NEW t \in Threads, InInit(t) \/ InRules(t),
           NEW x, Follows(th[t], x), NEW o, o = Outcome(t), Settled(o)',
           Grows, UNCHANGED <<node, queue, covered, phase, rules_fired, result>>,
           th' = [th EXCEPT ![t] = x], error_count' > 0 <=> reports' # {}
    PROVE  SearchInv'
<1>1. th[t].pc \in {"init", "rule"} /\ error_count' \in Nat
  BY OutcomeIs DEF Grows
<1>2. PICK l : l = th[t]
  OBVIOUS
<1>3. Moves(t, x) /\ InHand(x) = InHand(th[t]) \ {l.n} /\ x.pc \notin Over
  <2>1. Follows(l, x) /\ l.pc \in New \cup {"init", "rule"}
    BY <1>1, <1>2
  <2>. QED
    BY <1>2, <2>1, FollowsOK
<1>4. InHand(x) = InHand(th[t])
  <2>1. l.n = NoState
    BY <1>1, <1>2 DEF SearchInv, ThreadsOK, ThreadOK, Shaped, New
  <2>. QED
    BY <1>3, <2>1 DEF InHand
<1>5. Ending'
  <2>1. ~Joined
    BY <1>1, NotJoined DEF Over
  <2>. QED
    BY <1>1, <1>3, <2>1, EndingKept DEF Over
<1>. QED
  BY <1>3, <1>4, <1>5, TypedKept, PlainKeeps

\* The thread leaves because of its error.
LEMMA ExitKeeps ==
    ASSUME SearchInv, NEW t \in Threads, th[t].pc \notin Over \cup {"unborn"},
           NEW x \in Locals, x.pc = "exit", x.n = NoState,
           {x.s, x.at} \subseteq seen \cup {NoState}, Grows, Stopped',
           UNCHANGED <<node, queue, covered, phase, rules_fired, result>>,
           th' = [th EXCEPT ![t] = x]
    PROVE  SearchInv'
<1>1. Moves(t, x) /\ InHand(x) = {}
  <2>1. PICK l : l = th[t] /\ l.pc # "unborn"
    OBVIOUS
  <2>. QED
    BY <2>1, ExitOK
<1>2. error_count' \in Nat /\ (error_count' > 0 <=> reports' # {})
  BY ModelKept, ModelFields DEF SearchInv, Typed, Stopped, Grows
<1>3. Ending'
  BY <1>1, <1>2, NotJoined, EndingKept DEF Over
<1>4. \A s : Released(s)'
  BY DEF Released
<1>. QED
  BY <1>1, <1>3, <1>4, TypedKept, PlainKeeps

LEMMA OutcomeFacts ==
    ASSUME model \in Models, NEW o \in States \cup NotStates
    PROVE  /\ o \in {Disabled, Assumed} => o \notin States /\ ~IsGood(o) /\ ~Violation(o)
           /\ o \in {GuardError, RuleError} => o \notin States /\ ~IsGood(o)
           /\ o \in States /\ ~MeetsAssumptions(o) => ~IsGood(o) /\ ~Violation(o)
           /\ MeetsAssumptions(o) /\ ~MeetsInvariants(o) => o \in States /\ ~IsGood(o)
           /\ MeetsAssumptions(o) /\ MeetsInvariants(o) =>
                 o \in States /\ IsGood(o) /\ ~Violation(o)
<1>1. States \cap NotStates = {}
  BY ExploreAssumption
<1>. QED
  BY <1>1, ModelFields
  DEF NotStates, Disabled, Assumed, GuardError, RuleError, IsGood, Violation,
      MeetsAssumptions, MeetsInvariants

LEMMA DiscardStateKeeps ==
    ASSUME SearchInv, NEW t \in Threads, DiscardState(t)
    PROVE  SearchInv'
<1>1. InInit(t) \/ InRules(t)
  BY DEF DiscardState
<1>2. /\ UNCHANGED <<model, node, queue, error_count, covered, phase, rules_fired,
                     reports, result>>
      /\ \/ /\ Outcome(t) \in {Disabled, Assumed}
            /\ th' = [th EXCEPT ![t] = NextRule(th[t])]
         \/ /\ Outcome(t) \in States /\ ~MeetsAssumptions(Outcome(t))
            /\ th' = [th EXCEPT ![t] = NextRule(AfterRule(t))]
  BY DEF DiscardState
<1>3. /\ th[t].pc \in {"init", "rule"} /\ Outcome(t) \in States \cup NotStates
      /\ model \in Models /\ Grows
  BY <1>1, <1>2, OutcomeIs, QuietGrows DEF SearchInv, Typed
<1>4. PICK o \in States \cup NotStates : o = Outcome(t)
  BY <1>3
<1>5. ~IsGood(o) /\ ~Violation(o)
  BY <1>2, <1>3, <1>4, OutcomeFacts
<1>6. Settled(o)'
  BY <1>2, <1>5, ModelKept DEF Settled
<1>7. error_count' > 0 <=> reports' # {}
  BY <1>2, <1>3, NotJoined DEF Over
<1>8. CASE th' = [th EXCEPT ![t] = NextRule(th[t])] /\ Outcome(t) \in {Disabled, Assumed}
  <2>1. PICK x : x = NextRule(th[t])
    OBVIOUS
  <2>2. Follows(th[t], x)
    BY <1>1, <1>3, <1>8, <2>1, OutcomeFacts, FollowsNothing
  <2>. QED
    BY <1>1, <1>2, <1>3, <1>4, <1>6, <1>7, <1>8, <2>1, <2>2, RuleKeeps
<1>9. CASE th' = [th EXCEPT ![t] = NextRule(AfterRule(t))] /\ Outcome(t) \in States
  <2>1. PICK x : x = NextRule(AfterRule(t))
    OBVIOUS
  <2>2. Follows(th[t], x)
    BY <1>1, <1>9, <2>1, FollowsRule
  <2>. QED
    BY <1>1, <1>2, <1>3, <1>4, <1>6, <1>7, <1>9, <2>1, <2>2, RuleKeeps
<1>. QED
  BY <1>2, <1>8, <1>9

LEMMA InsertDuplicateKeeps ==
    ASSUME SearchInv, NEW t \in Threads, InsertDuplicate(t)
    PROVE  SearchInv'
<1>1. /\ InInit(t) \/ InRules(t)
      /\ MeetsAssumptions(Outcome(t)) /\ MeetsInvariants(Outcome(t))
      /\ Outcome(t) \in seen
      /\ th' = [th EXCEPT ![t] = NextRule(AfterRule(t))]
      /\ UNCHANGED <<model, node, queue, error_count, covered, phase, rules_fired,
                     reports, result>>
  BY DEF InsertDuplicate, Good
<1>2. /\ th[t].pc \in {"init", "rule"} /\ Outcome(t) \in States \cup NotStates
      /\ model \in Models /\ Grows
  BY <1>1, OutcomeIs, QuietGrows DEF SearchInv, Typed
<1>3. PICK o \in States \cup NotStates : o = Outcome(t)
  BY <1>2
<1>4. o \in States /\ ~Violation(o) /\ o \in seen
  BY <1>1, <1>2, <1>3, OutcomeFacts
<1>5. Settled(o)'
  BY <1>1, <1>4, ModelKept DEF Settled, seen
<1>6. error_count' > 0 <=> reports' # {}
  BY <1>1, <1>2, NotJoined DEF Over
<1>7. PICK x : x = NextRule(AfterRule(t))
  OBVIOUS
<1>8. Follows(th[t], x)
  BY <1>1, <1>3, <1>4, <1>7, FollowsRule
<1>. QED
  BY <1>1, <1>2, <1>3, <1>5, <1>6, <1>7, <1>8, RuleKeeps

LEMMA FailRuleKeeps ==
    ASSUME SearchInv, NEW t \in Threads, FailRule(t)
    PROVE  SearchInv'
<1>1. InInit(t) \/ InRules(t)
  BY DEF FailRule
<1>2. /\ th[t] \in Locals /\ th[t].pc \in {"init", "rule"}
      /\ Outcome(t) \in States \cup NotStates /\ model \in Models
  BY <1>1, OutcomeIs DEF SearchInv, Typed
<1>3. PICK o \in States \cup NotStates : o = Outcome(t)
  BY <1>2
<1>4. PICK kind, trace, x : Error(t, kind, trace, x) /\ Follows(th[t], x) /\ ~IsGood(o)
  <2>1. CASE /\ o \in {GuardError, RuleError}
             /\ Error(t, o, NewTrace(t, NoState), NextRule(th[t]))
    BY <1>1, <1>2, <1>3, <2>1, OutcomeFacts, FollowsNothing
  <2>2. CASE /\ MeetsAssumptions(o) /\ ~MeetsInvariants(o)
             /\ Error(t, "invariant", NewTrace(t, o), NextRule(AfterRule(t)))
    BY <1>1, <1>2, <1>3, <2>2, OutcomeFacts, FollowsRule
  <2>. QED
    BY <1>3, <2>1, <2>2 DEF FailRule
<1>5. x \in Locals /\ x.n = NoState /\ x.s = th[t].s /\ x.at \in {th[t].at, NoState}
  BY <1>4 DEF Follows
<1>6. Counted(t, x)
  <2>1. th[t].pc \notin Over \cup {"unborn"}
    BY <1>2 DEF Over
  <2>. QED
    BY <1>4, <1>5, <2>1, ErrorGrows
<1>7. PICK z : /\ th' = [th EXCEPT ![t] = z]
               /\ z = x \/ (Stopped' /\ Leaves(x, z))
  BY <1>6 DEF Counted
<1>8. CASE z = x
  <2>1. Settled(o)'
    BY <1>4, <1>6, ModelKept DEF Settled, Counted
  <2>. QED
    BY <1>1, <1>3, <1>4, <1>6, <1>7, <1>8, <2>1, RuleKeeps DEF Counted
<1>9. CASE Stopped' /\ Leaves(x, z)
  <2>1. z \in Locals /\ z.pc = "exit" /\ z.n = NoState
    BY <1>5, <1>9 DEF Leaves
  <2>2. {z.s, z.at} \subseteq seen \cup {NoState}
    BY <1>5, <1>9 DEF Leaves, SearchInv, ThreadsOK, ThreadOK, Known
  <2>. QED
    BY <1>2, <1>6, <1>7, <1>9, <2>1, <2>2, ExitKeeps DEF Over, Counted
<1>. QED
  BY <1>7, <1>8, <1>9

LEMMA FailPropertyKeeps ==
    ASSUME SearchInv, NEW t \in Threads, FailProperty(t)
    PROVE  SearchInv'
<1>1. /\ th[t].pc = "raise" /\ th[t] \in Locals /\ ThreadOK(t, th[t])
      /\ Error(t, "property", Trace(th[t].n), NextRule(th[t]))
  BY DEF FailProperty, At, SearchInv, Typed, ThreadsOK
<1>2. PICK l, x : l = th[t] /\ x = NextRule(l)
  OBVIOUS
<1>3. Follows(l, x) /\ l.pc \in New
  BY <1>1, <1>2, FollowsInsertion DEF New
<1>4. x \in Locals /\ x.n = NoState /\ x.s = l.s /\ x.at \in {l.at, NoState}
  BY <1>3 DEF Follows
<1>5. Counted(t, x)
  <2>1. th[t].pc \notin Over \cup {"unborn"}
    BY <1>1 DEF Over
  <2>. QED
    BY <1>1, <1>2, <1>4, <2>1, ErrorGrows
<1>6. PICK z : /\ th' = [th EXCEPT ![t] = z]
               /\ z = x \/ (Stopped' /\ Leaves(x, z))
  BY <1>5 DEF Counted
<1>7. CASE z = x
  <2>1. Moves(t, x) /\ InHand(x) = InHand(l) \ {l.n} /\ x.pc \notin Over
    <3>1. Grows /\ phase' = phase /\ th' = [th EXCEPT ![t] = x]
      BY <1>5, <1>6, <1>7 DEF Counted
    <3>. QED
      BY <1>2, <1>3, <3>1, FollowsOK
  <2>2. Released(l.n)'
    <3>1. l.n \in model.raising
      BY <1>1, <1>2 DEF ThreadOK, Shaped
    <3>. QED
      BY <1>5, <3>1 DEF Released, Counted, Grows
  <2>3. \A s \in InHand(l) \ InHand(x) : Released(s)'
    BY <2>1, <2>2
  <2>4. Ending'
    BY <1>1, <1>5, <2>1, NotJoined, EndingKept DEF Over, Counted
  <2>. QED
    BY <1>2, <1>5, <2>1, <2>3, <2>4, TypedKept, PlainKeeps DEF Counted
<1>8. CASE Stopped' /\ Leaves(x, z)
  <2>1. z \in Locals /\ z.pc = "exit" /\ z.n = NoState
    BY <1>4, <1>8 DEF Leaves
  <2>2. {z.s, z.at} \subseteq seen \cup {NoState}
    BY <1>1, <1>2, <1>4, <1>8 DEF Leaves, ThreadOK, Known
  <2>. QED
    BY <1>1, <1>5, <1>6, <1>8, <2>1, <2>2, ExitKeeps DEF Over, Counted
<1>. QED
  BY <1>6, <1>7, <1>8

\* A thread without states in its hands goes back to the top of the loop, or to a
\* queue.
LEMMA IdleKeeps ==
    ASSUME SearchInv, NEW t \in Threads, NEW x \in Locals,
           th[t].pc \notin {"unborn", "learn", "exited"},
           x.pc \in {"top", "dequeue", "exit"}, x.n = NoState, x.status = 0,
           {x.s, x.at} \subseteq seen \cup {NoState},
           x.pc = "dequeue" => x.attempts < THREADS, Exits(t, x)',
           th' = [th EXCEPT ![t] = x],
           UNCHANGED <<node, queue, covered, phase, rules_fired, result>>,
           Grows, error_count' > 0 <=> reports' # {},
           Starting(th[t]) => \A i \in 1..Len(model.starts) : Settled(model.starts[i])',
           \A s \in InHand(th[t]) : Released(s)'
    PROVE  SearchInv'
<1>. USE DEF SearchInv
<1>1. ThreadOK(t, th[t]) /\ x.pc \notin Active
  BY DEF ThreadsOK, Active, New
<1>2. ~Expands(x) /\ ~Starting(x)
  BY <1>1 DEF Expands, Starting, Active
<1>3. Shaped(t, x)'
  BY <1>1, <1>2, ModelKept DEF ThreadOK, Shaped, Grows, New, Active
<1>4. Known(x)'
  BY <1>2 DEF Known, Grows
<1>5. Progress(x)'
  BY <1>2 DEF Progress
<1>6. Moves(t, x)
  BY <1>3, <1>4, <1>5 DEF Moves, ThreadOK
<1>7. InHand(x) = {}
  BY <1>1 DEF InHand
<1>8. Ending'
  BY <1>6, NotJoined, EndingKept DEF Grows
<1>. QED
  BY <1>6, <1>7, <1>8, TypedKept, PlainKeeps

LEMMA EndRulesKeeps ==
    ASSUME SearchInv, NEW t \in Threads, EndRules(t)
    PROVE  SearchInv'
<1>. USE DEF SearchInv
<1>1. /\ th[t].pc = "rule" /\ th[t] \in Locals /\ ThreadOK(t, th[t])
      /\ th[t].rule_taken > Rules /\ model \in Models
  BY DEF EndRules, At, Typed, ThreadsOK
<1>2. PICK l, x : l = th[t] /\ x = [l EXCEPT !.pc = "top"]
  OBVIOUS
<1>3. /\ x \in Locals /\ x.pc = "top" /\ x.n = NoState /\ x.s = l.s /\ x.at = l.at
      /\ x.status = 0
  <2>1. l.n = NoState /\ l.status = 0
    BY <1>1, <1>2 DEF ThreadOK, Shaped, New, Over, Locals
  <2>. QED
    BY <1>1, <1>2, <2>1 DEF Locals, Labels
<1>4. /\ Expands(l) /\ l.s \notin model.raising
      /\ \A r \in 1..Rules : Ran(l, r) /\ Settled(model.rule[l.s][r])
  <2>1. Expands(l)
    BY <1>1, <1>2 DEF ThreadOK, Shaped, Expands, Active
  <2>2. \A r \in 1..Rules : Ran(l, r)
    BY <1>1, <1>2, ModelFields DEF Ran, Locals
  <2>. QED
    BY <1>1, <1>2, <2>1, <2>2 DEF ThreadOK, Known, Progress
<1>5. l.possible_deadlock <=> Moving(l.s) = {}
  <2>1. Moving(l.s) \subseteq 1..Rules
    BY DEF Moving, Firing
  <2>. QED
    BY <1>1, <1>2, <1>4, <2>1 DEF ThreadOK, Progress
<1>6. InHand(l) = {l.s} /\ l.s \in seen
  BY <1>1, <1>2, <1>3, <1>4 DEF InHand, Expands, ThreadOK, Shaped, Known, New
<1>7. ASSUME Grows, error_count' > 0 \/ ~IsDeadlock(l.s)
      PROVE  Released(l.s)'
  <2>1. Explored(l.s)'
    BY <1>4, <1>7, SettledKept, ModelKept DEF Explored, Grows
  <2>. QED
    BY <1>4, <1>7, <2>1 DEF Released, Grows
<1>8. ~Starting(l) /\ ~Joined /\ (error_count > 0 <=> reports # {})
  BY <1>1, <1>2, <1>4, NotJoined DEF Starting, Expands
<1>9. Exits(t, x)'
  BY <1>3 DEF Exits, Over
<1>10. {x.s, x.at} \subseteq seen \cup {NoState}
  BY <1>1, <1>2, <1>3 DEF ThreadOK, Known
<1>11. CASE DEADLOCK_DETECTION # "off" /\ th[t].possible_deadlock
  <2>1. Counted(t, x)
    <3>1. Error(t, "deadlock", Trace(th[t].s), x) /\ th[t].pc \notin Over \cup {"unborn"}
      BY <1>1, <1>2, <1>11 DEF EndRules, Over
    <3>. QED
      BY <1>3, <3>1, ErrorGrows
  <2>2. PICK z : /\ th' = [th EXCEPT ![t] = z]
                 /\ z = x \/ (Stopped' /\ Leaves(x, z))
    BY <2>1 DEF Counted
  <2>3. CASE z = x
    <3>1. Released(l.s)' /\ error_count' > 0 /\ reports' # {}
      BY <1>7, <2>1 DEF Counted
    <3>. QED
      BY <1>1, <1>2, <1>3, <1>6, <1>8, <1>9, <1>10, <2>1, <2>2, <2>3, <3>1, IdleKeeps
      DEF Counted
  <2>4. CASE Stopped' /\ Leaves(x, z)
    <3>1. z \in Locals /\ z.pc = "exit" /\ z.n = NoState
      BY <1>3, <2>4 DEF Leaves
    <3>2. {z.s, z.at} \subseteq seen \cup {NoState}
      BY <1>3, <1>10, <2>4 DEF Leaves
    <3>. QED
      BY <1>1, <2>1, <2>2, <2>4, <3>1, <3>2, ExitKeeps DEF Over, Counted
  <2>. QED
    BY <2>2, <2>3, <2>4
<1>12. CASE ~(DEADLOCK_DETECTION # "off" /\ th[t].possible_deadlock)
  <2>1. /\ th' = [th EXCEPT ![t] = x]
        /\ UNCHANGED <<model, node, queue, error_count, covered, phase, rules_fired,
                       reports, result>>
    BY <1>2, <1>12 DEF EndRules
  <2>2. Grows /\ ~IsDeadlock(l.s)
    BY <1>2, <1>5, <1>12, <2>1, QuietGrows DEF IsDeadlock
  <2>3. Released(l.s)'
    BY <1>7, <2>2
  <2>4. \A s \in InHand(th[t]) : Released(s)'
    BY <1>2, <1>6, <2>3
  <2>5. error_count' > 0 <=> reports' # {}
    BY <1>8, <2>1
  <2>. QED
    BY <1>1, <1>2, <1>3, <1>8, <1>9, <1>10, <2>1, <2>2, <2>4, <2>5, IdleKeeps
<1>. QED
  BY <1>11, <1>12

LEMMA EndInitKeeps ==
    ASSUME SearchInv, NEW t \in Threads, EndInit(t)
    PROVE  SearchInv'
<1>. USE DEF SearchInv
<1>1. /\ th[t].pc = "init" /\ th[t] \in Locals /\ ThreadOK(t, th[t])
      /\ th[t].rule_taken > Len(model.starts) /\ model \in Models
      /\ th' = [th EXCEPT ![t] = StartLocals(t, "top")]
      /\ UNCHANGED <<model, node, queue, error_count, covered, phase, rules_fired,
                     reports, result>>
  BY DEF EndInit, At, Typed, ThreadsOK
<1>2. PICK x : x = StartLocals(t, "top")
  OBVIOUS
<1>3. /\ x \in Locals /\ x.pc = "top" /\ x.n = NoState /\ x.s = NoState /\ x.at = NoState
      /\ x.status = 0
  BY <1>2 DEF StartLocals, Locals, Labels, SomeState
<1>4. Starting(th[t]) /\ InHand(th[t]) = {}
  BY <1>1 DEF Starting, InHand, ThreadOK, Shaped, New, Active
<1>5. \A i \in 1..Len(model.starts) : Ran(th[t], i)
  BY <1>1, ModelFields DEF Ran, Locals
<1>6. Grows /\ (error_count' > 0 <=> reports' # {})
  BY <1>1, NotJoined, QuietGrows
<1>7. \A i \in 1..Len(model.starts) : Settled(model.starts[i])'
  BY <1>1, <1>4, <1>5, <1>6, StartsKept DEF ThreadOK, Progress
<1>8. Exits(t, x)'
  BY <1>3 DEF Exits, Over
<1>. QED
  BY <1>1, <1>2, <1>3, <1>4, <1>6, <1>7, <1>8, IdleKeeps

-----------------------------------------------------------------------------
(***************************************************************************)
(* Leaving: all queues have been tried, or errors were found.              *)
(***************************************************************************)

LEMMA NextQueueIs ==
    ASSUME NEW q \in Threads, THREADS \in Nat \ {0}
    PROVE  /\ NextQueue(q) = IF q + 1 = THREADS THEN 0 ELSE q + 1
           /\ NextQueue(q) \in Threads
<1>. DEFINE T == THREADS
<1>1. q \in 0..T-1 /\ T \in Nat \ {0}
  BY DEF Threads
<1>. HIDE DEF T
<1>2. ASSUME NEW a \in 0..T PROVE a % T = IF a = T THEN 0 ELSE a
  BY <1>1
<1>3. (q + 1) % T = IF q + 1 = T THEN 0 ELSE q + 1
  BY <1>1, <1>2
<1>. QED
  BY <1>1, <1>3 DEF NextQueue, Threads, T

LEMMA TriedGrows ==
    ASSUME NEW l \in Locals, NEW x \in Locals, THREADS \in Nat \ {0},
           x.queue_id = NextQueue(l.queue_id), x.attempts = l.attempts + 1,
           l.attempts < THREADS
    PROVE  /\ Tried(x) \subseteq Tried(l) \cup {l.queue_id}
           /\ x.attempts = THREADS => Tried(x) = Threads
           /\ x.attempts # THREADS => x.attempts < THREADS
<1>. DEFINE T == THREADS
<1>1. /\ l.queue_id \in 0..T-1 /\ l.attempts \in Nat /\ l.attempts < T
      /\ x.attempts = l.attempts + 1 /\ T \in Nat \ {0}
  BY DEF Locals, Threads
<1>2. x.queue_id = IF l.queue_id + 1 = T THEN 0 ELSE l.queue_id + 1
  <2>1. l.queue_id \in Threads
    BY DEF Locals
  <2>. QED
    BY <2>1, NextQueueIs
<1>3. ASSUME NEW k \in Threads
      PROVE  /\ k \in Tried(x) <=> IF k < x.queue_id THEN x.queue_id - k <= x.attempts
                                                     ELSE x.queue_id + T - k <= x.attempts
             /\ k \in Tried(l) <=> IF k < l.queue_id THEN l.queue_id - k <= l.attempts
                                                     ELSE l.queue_id + T - k <= l.attempts
             /\ k \in 0..T-1
  BY DEF Tried, Threads
<1>. HIDE DEF T
<1>4. ASSUME NEW k \in Threads, k \in Tried(x), k # l.queue_id PROVE k \in Tried(l)
  BY <1>1, <1>2, <1>3, <1>4
<1>5. ASSUME x.attempts = T, NEW k \in Threads PROVE k \in Tried(x)
  BY <1>1, <1>2, <1>3, <1>5
<1>6. Tried(x) \subseteq Threads
  BY DEF Tried
<1>7. x.attempts # T => x.attempts < T
  BY <1>1
<1>8. Tried(x) \subseteq Tried(l) \cup {l.queue_id}
  BY <1>4, <1>6
<1>9. x.attempts = T => Tried(x) = Threads
  BY <1>5, <1>6
<1>. QED
  BY <1>7, <1>8, <1>9 DEF T

LEMMA LoopTopKeeps ==
    ASSUME SearchInv, NEW t \in Threads, LoopTop(t)
    PROVE  SearchInv'
<1>. USE DEF SearchInv
<1>1. /\ th[t].pc = "top" /\ th[t] \in Locals /\ ThreadOK(t, th[t]) /\ model \in Models
      /\ UNCHANGED <<model, node, queue, error_count, covered, phase, rules_fired,
                     reports, result>>
  BY DEF LoopTop, At, Typed, ThreadsOK
<1>2. PICK l, g : /\ l = th[t]
                  /\ g = IF THREADS > 1 /\ error_count >= MAX_ERRORS THEN "exit" ELSE "dequeue"
  OBVIOUS
<1>3. PICK x : x = [l EXCEPT !.attempts = 0, !.pc = g]
  OBVIOUS
<1>4. th' = [th EXCEPT ![t] = x]
  BY <1>2, <1>3 DEF LoopTop
<1>5. g \in {"exit", "dequeue"} /\ l.n = NoState /\ l.status = 0
  BY <1>1, <1>2 DEF ThreadOK, Shaped, New, Over, Locals
<1>6. /\ x \in Locals /\ x.pc = g /\ x.n = NoState /\ x.s = l.s /\ x.at = l.at
      /\ x.status = 0 /\ x.attempts = 0 /\ x.queue_id \in Threads
  <2>1. l \in Locals /\ g \in Labels
    BY <1>1, <1>2, <1>5 DEF Labels
  <2>. QED
    BY <1>3, <1>5, <2>1 DEF Locals
<1>7. /\ Grows /\ (error_count > 0 <=> reports # {}) /\ ~Starting(l) /\ InHand(l) = {}
      /\ {x.s, x.at} \subseteq seen \cup {NoState}
  BY <1>1, <1>2, <1>5, <1>6, NotJoined, QuietGrows
  DEF Starting, InHand, New, Active, ThreadOK, Known
<1>8. Exits(t, x)'
  <2>1. CASE g = "exit"
    <3>1. Stopped'
      BY <1>1, <1>2, <1>7, <2>1, ModelKept, ModelFields DEF Stopped, Typed
    <3>. QED
      BY <1>6, <2>1, <3>1 DEF Exits
  <2>2. CASE g = "dequeue"
    <3>1. Tried(x) = {}
      BY <1>1, <1>6, ModelFields DEF Tried, Threads
    <3>2. Tried(x)' = {}
      BY <1>1, <3>1, ModelKept DEF Tried
    <3>. QED
      BY <1>6, <2>2, <3>2 DEF Exits, Over
  <2>. QED
    BY <1>5, <2>1, <2>2
<1>9. x.attempts < THREADS
  BY <1>1, <1>6, ModelFields
<1>. QED
  BY <1>1, <1>2, <1>4, <1>5, <1>6, <1>7, <1>8, <1>9, IdleKeeps

LEMMA DequeueNothingKeeps ==
    ASSUME SearchInv, NEW t \in Threads, DequeueNothing(t)
    PROVE  SearchInv'
<1>. USE DEF SearchInv
<1>1. /\ th[t].pc = "dequeue" /\ th[t] \in Locals /\ ThreadOK(t, th[t]) /\ model \in Models
      /\ queue[th[t].queue_id] = <<>>
      /\ UNCHANGED <<model, node, queue, error_count, covered, phase, rules_fired,
                     reports, result>>
  BY DEF DequeueNothing, At, Typed, ThreadsOK
<1>2. PICK l, g : l = th[t] /\ g = IF AllTried(t) THEN "exit" ELSE "dequeue"
  OBVIOUS
<1>3. PICK x : x = [l EXCEPT !.attempts = l.attempts + 1, !.queue_id = NextQueue(l.queue_id),
                             !.pc = g]
  OBVIOUS
<1>4. th' = [th EXCEPT ![t] = x]
  BY <1>2, <1>3 DEF DequeueNothing, NextAttempt
<1>5. /\ g \in {"exit", "dequeue"} /\ l.n = NoState /\ l.status = 0
      /\ l.attempts + 1 \in Nat /\ l.queue_id \in Threads /\ l.attempts < THREADS
  BY <1>1, <1>2 DEF ThreadOK, Shaped, New, Over, Locals
<1>6. NextQueue(l.queue_id) \in Threads
  BY <1>1, <1>5, ModelFields, NextQueueIs
<1>7. /\ x \in Locals /\ x.pc = g /\ x.n = NoState /\ x.s = l.s /\ x.at = l.at
      /\ x.status = 0 /\ x.attempts = l.attempts + 1 /\ x.queue_id = NextQueue(l.queue_id)
  <2>1. l \in Locals /\ g \in Labels
    BY <1>1, <1>2, <1>5 DEF Labels
  <2>2. PICK a, q : a = l.attempts + 1 /\ q = NextQueue(l.queue_id)
    OBVIOUS
  <2>3. x = [l EXCEPT !.attempts = a, !.queue_id = q, !.pc = g] /\ a \in Nat /\ q \in Threads
    BY <1>3, <1>5, <1>6, <2>2
  <2>4. x \in Locals
    BY <2>1, <2>3 DEF Locals
  <2>5. /\ x.pc = g /\ x.n = l.n /\ x.s = l.s /\ x.at = l.at
        /\ x.status = l.status /\ x.attempts = a /\ x.queue_id = q
    BY <2>1, <2>3 DEF Locals
  <2>. QED
    BY <1>5, <2>2, <2>4, <2>5
<1>8. /\ Tried(x) \subseteq Tried(l) \cup {l.queue_id}
      /\ x.attempts = THREADS => Tried(x) = Threads
      /\ x.attempts # THREADS => x.attempts < THREADS
  BY <1>1, <1>2, <1>5, <1>7, ModelFields, TriedGrows
<1>9. /\ Grows /\ (error_count > 0 <=> reports # {}) /\ ~Starting(l) /\ InHand(l) = {}
      /\ {x.s, x.at} \subseteq seen \cup {NoState}
  BY <1>1, <1>2, <1>5, <1>7, NotJoined, QuietGrows
  DEF Starting, InHand, New, Active, ThreadOK, Known
<1>10. g = "exit" <=> x.attempts = THREADS
  BY <1>2, <1>7 DEF AllTried, NextAttempt
<1>11. \A k \in Tried(x) : Kept(t, k) => queue[k] = <<>>
  BY <1>1, <1>2, <1>8 DEF ThreadOK, Exits
<1>12. Exits(t, x)'
  <2>1. /\ Tried(x)' = Tried(x) /\ Threads' = Threads /\ \A k : Kept(t, k)' <=> Kept(t, k)
        /\ \A k \in Tried(x) : Kept(t, k) => queue'[k] = <<>>
    BY <1>1, <1>11, ModelKept DEF Tried, Kept
  <2>2. CASE g = "exit"
    BY <1>7, <1>8, <1>10, <2>1, <2>2 DEF Exits
  <2>3. CASE g = "dequeue"
    BY <1>7, <2>1, <2>3 DEF Exits, Over
  <2>. QED
    BY <1>5, <2>2, <2>3
<1>. QED
  BY <1>1, <1>2, <1>4, <1>5, <1>7, <1>8, <1>9, <1>10, <1>12, IdleKeeps

\* A thread that has left explore() goes on in exit_with.
LEMMA OverKeeps ==
    ASSUME SearchInv, NEW t \in Threads, NEW x \in Locals, th[t].pc \in Over,
           x.pc \in Over \ {"exit"}, x.n = th[t].n, x.s = th[t].s, x.at = th[t].at,
           x.pc \in {"join", "learn"} => t = 0, x.status = 1 => error_count' > 0,
           th' = [th EXCEPT ![t] = x], rules_fired' \in [Threads -> Nat],
           UNCHANGED <<node, queue, covered, phase>>, Grows, Ending'
    PROVE  SearchInv'
<1>. USE DEF SearchInv
<1>1. /\ ThreadOK(t, th[t]) /\ th[t].pc \notin Active \cup {"init", "unborn"}
      /\ x.pc \notin Active \cup {"init", "unborn", "dequeue"} /\ x.n = NoState
  BY DEF ThreadsOK, ThreadOK, Shaped, Active, New, Over
<1>2. ~Expands(x) /\ ~Starting(x) /\ ~Starting(th[t])
  BY <1>1 DEF Expands, Starting, Active
<1>3. Shaped(t, x)'
  BY <1>1, <1>2, ModelKept DEF ThreadOK, Shaped, Grows, Active, Over
<1>4. Known(x)'
  BY <1>1, <1>2 DEF ThreadOK, Known, Grows
<1>5. Progress(x)'
  BY <1>2 DEF Progress
<1>6. Exits(t, x)'
  BY <1>1, StoppedKept, ModelKept DEF Exits, ThreadOK, Grows, Kept
<1>7. Moves(t, x)
  BY <1>2, <1>3, <1>4, <1>5, <1>6 DEF Moves, ThreadOK
<1>8. InHand(x) = {} /\ InHand(th[t]) = {}
  BY <1>1 DEF InHand, ThreadOK, Shaped, Active
<1>9. Typed'
  BY ModelKept DEF Typed, Grows, seen
<1>. QED
  BY <1>7, <1>8, <1>9, PlainKeeps

LEMMA ExitActionKeeps ==
    ASSUME SearchInv, NEW t \in Threads, Exit(t)
    PROVE  SearchInv'
<1>. USE DEF SearchInv
<1>1. /\ th[t].pc = "exit" /\ th[t] \in Locals /\ ThreadOK(t, th[t]) /\ model \in Models
      /\ UNCHANGED <<model, node, queue, error_count, covered, phase, reports, result>>
      /\ rules_fired' = [rules_fired EXCEPT ![t] = th[t].fired]
  BY DEF Exit, At, Typed, ThreadsOK
<1>2. PICK l, g : l = th[t] /\ g = IF t = 0 THEN "join" ELSE "exited"
  OBVIOUS
<1>3. PICK x : x = [l EXCEPT !.pc = g]
  OBVIOUS
<1>4. th' = [th EXCEPT ![t] = x]
  BY <1>2, <1>3 DEF Exit
<1>5. /\ x \in Locals /\ x.pc = g /\ x.n = l.n /\ x.s = l.s /\ x.at = l.at
      /\ x.status = l.status
  <2>1. g \in Labels
    BY <1>2 DEF Labels
  <2>. QED
    BY <1>1, <1>2, <1>3, <2>1 DEF Locals
<1>6. rules_fired' \in [Threads -> Nat]
  BY <1>1 DEF Typed, Locals
<1>7. Grows
  BY <1>1, QuietGrows
<1>8. x.status = 1 => error_count' > 0
  BY <1>1, <1>2, <1>5 DEF ThreadOK, Exits
<1>9. Ending'
  <2>1. ~Joined
    BY <1>1, NotJoined
  <2>2. th'[0].pc \notin {"learn", "exited"}
    BY <1>2, <1>4, <1>5, <2>1, <1>1, ModelFields DEF Joined, Typed
  <2>. QED
    BY <1>1, <2>1, <2>2 DEF Ending, Joined
<1>. QED
  BY <1>1, <1>2, <1>4, <1>5, <1>6, <1>7, <1>8, <1>9, OverKeeps DEF Over

LEMMA CoversFinite ==
    ASSUME model \in Models, NEW S, S \subseteq Covers \/ S \subseteq Liveness
    PROVE  IsFiniteSet(S) /\ Cardinality(S) \in Nat /\ (Cardinality(S) = 0 <=> S = {})
<1>1. Len(model.covers) \in Int /\ Len(model.liveness) \in Int /\ 1 \in Int
  BY ExploreAssumption
<1>2. IsFiniteSet(Covers) /\ IsFiniteSet(Liveness)
  <2>1. \A a, b \in Int : IsFiniteSet(a..b)
    BY FS_Interval
  <2>. QED
    BY <1>1, <2>1 DEF Covers, Liveness
<1>3. IsFiniteSet(S)
  BY <1>2, FS_Subset
<1>. QED
  BY <1>3, FS_CardinalityType, FS_EmptySet

LEMMA JoinKeeps ==
    ASSUME SearchInv, NEW t \in Threads, Join(t)
    PROVE  SearchInv'
<1>. USE DEF SearchInv
<1>1. /\ th[t].pc = "join" /\ th[t] \in Locals /\ ThreadOK(t, th[t]) /\ model \in Models
      /\ t = 0
      /\ UNCHANGED <<model, node, queue, covered, phase, rules_fired, reports>>
      /\ error_count' = IF error_count = 0 THEN Cardinality(NotHit) ELSE error_count
      /\ phase = "run" => \A u \in Threads \ {t} : At(u, "exited")
  BY DEF Join, At, Typed, ThreadsOK, ThreadOK, Shaped
<1>2. PICK l, g, v : /\ l = th[t]
                     /\ g = IF error_count' = 0 /\ Liveness # {} THEN "learn" ELSE "exited"
                     /\ v = IF Failed \/ error_count' # error_count THEN 1 ELSE 0
  OBVIOUS
<1>3. PICK x : x = [l EXCEPT !.status = v, !.pc = g]
  OBVIOUS
<1>4. /\ th' = [th EXCEPT ![t] = x] /\ th'[t] = x
      /\ result' = IF x.pc = "exited"
                     THEN [done |-> TRUE, status |-> x.status, missed |-> {}] ELSE result
  <2>1. th' = [th EXCEPT ![t] = x]
    BY <1>2, <1>3 DEF Join
  <2>2. th'[t] = x
    BY <2>1 DEF Typed
  <2>. QED
    BY <2>1, <2>2 DEF Join
<1>5. g \in {"learn", "exited"} /\ v \in {0, 1}
  BY <1>2
<1>6. /\ x \in Locals /\ x.pc = g /\ x.n = l.n /\ x.s = l.s /\ x.at = l.at /\ x.status = v
  <2>1. g \in Labels
    BY <1>5 DEF Labels
  <2>. QED
    BY <1>1, <1>2, <1>3, <1>5, <2>1 DEF Locals
<1>7. error_count \in Nat /\ error_count' \in Nat /\ error_count <= error_count'
  <2>1. Cardinality(NotHit) \in Nat
    BY <1>1, CoversFinite DEF NotHit
  <2>. QED
    BY <1>1, <2>1 DEF Typed
<1>8. Grows
  BY <1>1, <1>7 DEF Grows, seen
<1>9. x.status = 1 => error_count' > 0
  <2>1. Failed => error_count > 0
    BY DEF Failed, ThreadsOK, ThreadOK, Exits
  <2>. QED
    BY <1>2, <1>6, <1>7, <2>1
<1>10. Ending'
  <2>1. ~Joined /\ (error_count > 0 <=> reports # {})
    BY <1>1, NotJoined
  <2>2. th'[0].pc = g /\ Threads' = Threads /\ \A u \in Threads \ {0} : th'[u] = th[u]
    BY <1>1, <1>4, <1>6, ModelKept DEF Typed
  <2>3. result'.done <=> g = "exited"
    BY <1>1, <1>4, <1>6, <2>1 DEF Ending, Joined
  <2>4. error_count' > 0 => g = "exited"
    BY <1>2
  <2>5. g = "learn" => error_count' = 0
    BY <1>2
  <2>. QED
    BY <1>1, <1>7, <2>1, <2>2, <2>3, <2>4, <2>5 DEF Ending, Joined, At
<1>. QED
  BY <1>1, <1>2, <1>4, <1>5, <1>6, <1>8, <1>9, <1>10, OverKeeps DEF Over, Typed

LEMMA SummariseKeeps ==
    ASSUME SearchInv, NEW t \in Threads, Summarise(t)
    PROVE  SearchInv'
<1>. USE DEF SearchInv
<1>1. /\ th[t].pc = "learn" /\ th[t] \in Locals /\ ThreadOK(t, th[t]) /\ model \in Models
      /\ t = 0 /\ error_count = 0
      /\ UNCHANGED <<model, node, queue, covered, phase, rules_fired, reports>>
      /\ error_count' = error_count + Cardinality(Missed)
      /\ result'.done
  BY DEF Summarise, At, Typed, ThreadsOK, ThreadOK, Shaped, Ending
<1>2. PICK l, v : l = th[t] /\ v = IF Missed # {} THEN 1 ELSE l.status
  OBVIOUS
<1>3. PICK x : x = [l EXCEPT !.status = v, !.pc = "exited"]
  OBVIOUS
<1>4. th' = [th EXCEPT ![t] = x]
  BY <1>2, <1>3 DEF Summarise
<1>5. v \in {0, 1} /\ l.status # 1
  BY <1>1, <1>2 DEF Locals, ThreadOK, Exits
<1>6. /\ x \in Locals /\ x.pc = "exited" /\ x.n = l.n /\ x.s = l.s /\ x.at = l.at
      /\ x.status = v
  BY <1>1, <1>2, <1>3, <1>5 DEF Locals, Labels
<1>7. Cardinality(Missed) \in Nat /\ (Cardinality(Missed) = 0 <=> Missed = {})
  BY <1>1, CoversFinite DEF Missed
<1>8. Grows
  BY <1>1, <1>7 DEF Grows, seen, Typed
<1>9. x.status = 1 => error_count' > 0
  BY <1>1, <1>2, <1>5, <1>6, <1>7
<1>10. Ending'
  <2>1. th'[0].pc = "exited" /\ Threads' = Threads /\ \A u \in Threads \ {0} : th'[u] = th[u]
    BY <1>1, <1>4, <1>6, ModelKept DEF Typed
  <2>. QED
    BY <1>1, <1>7, <2>1 DEF Ending, Joined, At
<1>. QED
  BY <1>1, <1>2, <1>4, <1>6, <1>8, <1>9, <1>10, OverKeeps DEF Over, Typed

-----------------------------------------------------------------------------
(***************************************************************************)
(* Marking states live.                                                    *)
(***************************************************************************)

LEMMA NextMarkIs ==
    ASSUME model \in Models, NEW l \in Locals, l.todo # {}
    PROVE  /\ NextMark(l) \in l.todo /\ NextMark(l) \in Liveness
           /\ \A p \in l.todo : NextMark(l) <= p
<1>1. l.todo \subseteq Liveness /\ Liveness \subseteq Nat
  BY ExploreAssumption DEF Locals, Liveness
<1>2. PICK p \in l.todo : \A q \in l.todo : ~(<<q, p>> \in OpToRel(<, Nat))
  BY <1>1, NatLessThanWellFounded, WFMin
<1>3. \A q \in l.todo : p <= q
  <2>1. l.todo \subseteq Nat /\ p \in Nat
    BY <1>1
  <2>2. \A q \in l.todo : ~(q < p)
    BY <1>2, <2>1, Zenon DEF OpToRel
  <2>. QED
    BY <2>1, <2>2
<1>4. \A q \in l.todo : NextMark(l) <= q
  BY <1>3 DEF NextMark
<1>5. NextMark(l) \in l.todo
  BY <1>3 DEF NextMark
<1>. QED
  BY <1>1, <1>4, <1>5

\* Only liveness bits of the seen states change.
LEMMA MarksGrow ==
    ASSUME SearchInv, UNCHANGED <<model, error_count, reports>>,
           NEW marked \in [seen -> SUBSET Liveness],
           node' = [x \in seen |-> [node[x] EXCEPT !.liveness = marked[x]]]
    PROVE  /\ Grows /\ seen' = seen /\ node' \in [seen -> Structs]
           /\ \A x \in seen : node'[x].liveness = marked[x]
<1>1. node \in [seen -> Structs] /\ error_count \in Nat
  BY DEF SearchInv, Typed
<1>2. seen' = seen
  BY DEF seen
<1>3. ASSUME NEW x \in seen
      PROVE  /\ node'[x] \in Structs /\ node'[x].liveness = marked[x]
             /\ node'[x].previous = node[x].previous /\ node'[x].bound = node[x].bound
  BY <1>1 DEF Structs
<1>. QED
  BY <1>1, <1>2, <1>3 DEF Grows

LEMMA MarkLivenessKeeps ==
    ASSUME SearchInv, NEW t \in Threads, MarkLiveness(t)
    PROVE  SearchInv'
<1>. USE DEF SearchInv
<1>1. /\ th[t].pc = "mark" /\ th[t] \in Locals /\ ThreadOK(t, th[t]) /\ model \in Models
      /\ node \in [seen -> Structs]
      /\ UNCHANGED <<model, queue, error_count, covered, phase, rules_fired,
                     reports, result>>
  BY DEF MarkLiveness, At, Typed, ThreadsOK
<1>2. PICK l, p : l = th[t] /\ p = NextMark(l)
  OBVIOUS
<1>3. /\ l \in Locals /\ l.pc = "mark" /\ l.at \in seen /\ l.todo # {} /\ l.n \in seen
      /\ l.s # l.n \/ l.s = NoState
  BY <1>1, <1>2 DEF ThreadOK, Shaped, Known, New, Expands, Active
<1>4. p \in l.todo /\ p \in Liveness
  BY <1>1, <1>2, <1>3, NextMarkIs
<1>5. /\ node' = [node EXCEPT ![l.at].liveness = node[l.at].liveness \cup {p}]
      /\ th' = [th EXCEPT ![t] =
                 IF MarksOn(l.at, p) THEN [l EXCEPT !.at = node[l.at].previous]
                 ELSE [l EXCEPT !.todo = l.todo \ {p}, !.at = l.n,
                                !.pc = IF l.todo = {p} THEN "enqueue" ELSE "mark"]]
  BY <1>2 DEF MarkLiveness
<1>6. Grows /\ seen' = seen /\ node' \in [seen -> Structs]
  <2>. DEFINE marked == [x \in seen |-> IF x = l.at THEN node[x].liveness \cup {p}
                                                     ELSE node[x].liveness]
  <2>1. marked \in [seen -> SUBSET Liveness]
    BY <1>1, <1>4 DEF Structs
  <2>2. node' = [x \in seen |-> [node[x] EXCEPT !.liveness = marked[x]]]
    BY <1>1, <1>3, <1>5 DEF Structs
  <2>. HIDE DEF marked
  <2>. QED
    BY <1>1, <2>1, <2>2, MarksGrow
<1>7. PICK g : g = IF l.todo = {p} THEN "enqueue" ELSE "mark"
  OBVIOUS
<1>8. g \in {"enqueue", "mark"} /\ (g = "mark" => l.todo \ {p} # {})
  BY <1>4, <1>7
<1>9. PICK x : /\ th' = [th EXCEPT ![t] = x]
               /\ \/ MarksOn(l.at, p) /\ x = [l EXCEPT !.at = node[l.at].previous]
                  \/ x = [l EXCEPT !.todo = l.todo \ {p}, !.at = l.n, !.pc = g]
  BY <1>5, <1>7
<1>10. /\ x \in Locals /\ x.pc \in {"mark", "enqueue"} /\ x.s = l.s /\ x.n = l.n
       /\ x.rule_taken = l.rule_taken /\ x.possible_deadlock = l.possible_deadlock
       /\ x.status = l.status /\ x.at \in seen /\ (x.pc = "mark" => x.todo # {})
  <2>1. CASE MarksOn(l.at, p) /\ x = [l EXCEPT !.at = node[l.at].previous]
    <3>1. node[l.at].previous \in seen /\ node[l.at].previous \in SomeState
      BY <1>1, <1>3, <2>1 DEF MarksOn, FoundRight, Origin, Structs
    <3>. QED
      BY <1>3, <2>1, <3>1 DEF Locals
  <2>2. CASE x = [l EXCEPT !.todo = l.todo \ {p}, !.at = l.n, !.pc = g]
    <3>1. g \in Labels /\ l.todo \ {p} \in SUBSET Liveness /\ l.n \in SomeState
      BY <1>3, <1>8 DEF Locals, Labels
    <3>. QED
      BY <1>3, <1>8, <2>2, <3>1 DEF Locals
  <2>. QED
    BY <1>9, <2>1, <2>2
<1>11. /\ Starting(x) <=> Starting(l)
       /\ Expands(x) <=> Expands(l)
       /\ \A i : Ran(x, i) <=> Ran(l, i)
       /\ InHand(x) = InHand(l)
  BY <1>3, <1>10 DEF Starting, Expands, Ran, InHand, Active, New
<1>12. Shaped(t, x)'
  <2>1. /\ l.n # NoState /\ l.n \notin model.raising /\ l.status # 1 /\ phase' = phase
        /\ (Expands(l) => l.s # l.n) /\ (Starting(l) => t = 0 /\ phase = "warmup")
        /\ ~(t # 0 /\ phase = "warmup")
    BY <1>1, <1>2, <1>3 DEF Shaped, ThreadOK, New, Over
  <2>2. x.n \notin model'.raising
    BY <1>1, <1>10, <2>1
  <2>3. x.at # NoState
    BY <1>1, <1>10, ModelFields DEF Typed
  <2>. QED
    BY <1>10, <1>11, <2>1, <2>2, <2>3 DEF Shaped, New
<1>13. Known(x)'
  <2>1. {x.s, x.n, x.at} \subseteq seen' \cup {NoState}
    BY <1>1, <1>2, <1>3, <1>6, <1>10 DEF ThreadOK, Known
  <2>2. ASSUME Expands(x) PROVE x.s \notin model'.raising /\ BelowBound(x.s)'
    <3>1. l.s \in seen /\ l.s \notin model.raising /\ BelowBound(l.s)
      BY <1>1, <1>2, <1>11, <2>2 DEF ThreadOK, Known, Expands
    <3>. QED
      BY <1>1, <1>6, <1>10, <3>1, BelowBoundKept
  <2>3. ASSUME Starting(x), x.n # NoState PROVE node'[x.n].bound = 0
    BY <1>1, <1>2, <1>3, <1>6, <1>10, <1>11, <2>3 DEF ThreadOK, Known, Grows
  <2>. QED
    BY <2>1, <2>2, <2>3 DEF Known
<1>14. Progress(x)'
  BY <1>1, <1>2, <1>6, <1>10, <1>11, SettledKept, ModelKept DEF ThreadOK, Progress, Grows
<1>15. Exits(t, x)'
  <2>1. x.status # 1
    BY <1>1, <1>2, <1>3, <1>10 DEF ThreadOK, Shaped, Over
  <2>. QED
    BY <1>10, <2>1 DEF Exits, Over
<1>16. Moves(t, x)
  BY <1>1, <1>2, <1>6, <1>9, <1>10, <1>11, <1>12, <1>13, <1>14, <1>15 DEF Moves, ThreadOK
<1>17. Ending'
  BY <1>1, <1>6, <1>10, <1>16, NotJoined, EndingKept DEF Grows
<1>18. Typed'
  BY <1>1, <1>6, <1>9, <1>10, ModelKept DEF Typed
<1>. QED
  BY <1>1, <1>2, <1>6, <1>11, <1>16, <1>17, <1>18, RelabelKeeps

LEMMA LearnKeeps ==
    ASSUME SearchInv, NEW t \in Threads, Learn(t)
    PROVE  SearchInv'
<1>. USE DEF SearchInv
<1>1. /\ th[t].pc = "learn" /\ th[t] \in Locals /\ ThreadOK(t, th[t]) /\ model \in Models
      /\ node \in [seen -> Structs]
      /\ UNCHANGED <<model, queue, error_count, covered, phase, th, rules_fired,
                     reports, result>>
  BY DEF Learn, At, Typed, ThreadsOK
<1>2. PICK s \in seen, n \in States :
        node' = [x \in seen |->
                   [node[x] EXCEPT !.liveness =
                      node[x].liveness \cup {p \in Learns(s, n) : x \in Reached(s, p)}]]
        /\ Learnable(s, n)
  BY DEF Learn
<1>3. Grows /\ seen' = seen /\ node' \in [seen -> Structs]
  <2>. DEFINE marked == [x \in seen |->
                node[x].liveness \cup {p \in Learns(s, n) : x \in Reached(s, p)}]
  <2>1. n \in seen
    BY <1>2 DEF Learnable, SetFind
  <2>2. Learns(s, n) \subseteq Liveness
    BY <1>1, <2>1 DEF Learns, Structs
  <2>3. marked \in [seen -> SUBSET Liveness]
    BY <1>1, <2>2 DEF Structs
  <2>4. node' = [x \in seen |-> [node[x] EXCEPT !.liveness = marked[x]]]
    BY <1>2
  <2>. HIDE DEF marked
  <2>. QED
    BY <1>1, <2>3, <2>4, MarksGrow
<1>4. PICK x : x = th[t]
  OBVIOUS
<1>5. th' = [th EXCEPT ![t] = x] /\ x \in Locals
  BY <1>1, <1>4 DEF Typed
<1>6. ThreadOK(t, x)'
  BY <1>1, <1>3, <1>4, <1>5, ThreadKept
<1>7. ~Starting(th[t])
  BY <1>1 DEF Starting, New
<1>8. Moves(t, x)
  BY <1>1, <1>3, <1>5, <1>6, <1>7 DEF Moves
<1>9. Ending'
  BY <1>1, ModelKept DEF Ending, Joined, At
<1>10. Typed'
  BY <1>1, <1>3, ModelKept DEF Typed
<1>. QED
  BY <1>1, <1>3, <1>4, <1>8, <1>9, <1>10, RelabelKeeps

-----------------------------------------------------------------------------
(***************************************************************************)
(* States go in and out of the queues.                                     *)
(***************************************************************************)

LEMMA DequeueKeeps ==
    ASSUME SearchInv, NEW t \in Threads, Dequeue(t)
    PROVE  SearchInv'
<1>. USE DEF SearchInv
<1>1. /\ th[t].pc = "dequeue" /\ th[t] \in Locals /\ ThreadOK(t, th[t]) /\ model \in Models
      /\ queue \in [Threads -> Seq(States)]
      /\ UNCHANGED <<model, node, error_count, covered, phase, rules_fired, reports, result>>
  BY DEF Dequeue, At, Typed, ThreadsOK
<1>2. PICK l, k : l = th[t] /\ k = th[t].queue_id
  OBVIOUS
<1>3. /\ k \in Threads /\ queue[k] # <<>> /\ queue[k] \in Seq(States)
      /\ queue' = [queue EXCEPT ![k] = Tail(queue[k])]
      /\ th' = [th EXCEPT ![t] = [l EXCEPT !.s = Head(queue[k]), !.pc = "rule",
                                           !.possible_deadlock = TRUE, !.rule_taken = 1]]
  BY <1>1, <1>2 DEF Dequeue, Remaining, Dequeued, Locals
<1>4. PICK n : n = Head(queue[k])
  OBVIOUS
<1>5. /\ n \in States /\ n \in Elements(queue[k]) /\ Tail(queue[k]) \in Seq(States)
      /\ n \in seen /\ n \notin model.raising /\ BelowBound(n) /\ n # NoState
  BY <1>1, <1>3, <1>4, ElementsRemoved, ModelFields DEF QueuedExpandable
<1>6. PICK x : x = [l EXCEPT !.s = n, !.pc = "rule", !.possible_deadlock = TRUE,
                             !.rule_taken = 1]
  OBVIOUS
<1>7. /\ x \in Locals /\ x.pc = "rule" /\ x.s = n /\ x.n = NoState /\ x.at = l.at
      /\ x.possible_deadlock /\ x.rule_taken = 1 /\ x.status = 0
  <2>1. l.n = NoState /\ l.status = 0
    BY <1>1, <1>2 DEF ThreadOK, Shaped, New, Over, Locals
  <2>2. n \in SomeState /\ "rule" \in Labels /\ 1 \in Nat \ {0} /\ l \in Locals
    BY <1>1, <1>2, <1>5 DEF Labels, SomeState
  <2>3. x \in Locals
    BY <1>6, <2>2 DEF Locals
  <2>4. /\ x.pc = "rule" /\ x.s = n /\ x.n = l.n /\ x.at = l.at
        /\ x.possible_deadlock /\ x.rule_taken = 1 /\ x.status = l.status
    BY <1>6, <2>2 DEF Locals
  <2>. QED
    BY <2>1, <2>3, <2>4
<1>8. th' = [th EXCEPT ![t] = x] /\ th'[t] = x /\ \A u \in Threads \ {t} : th'[u] = th[u]
  <2>1. th' = [th EXCEPT ![t] = x]
    BY <1>3, <1>4, <1>6
  <2>. QED
    BY <2>1 DEF Typed
<1>9. Grows /\ seen' = seen
  BY <1>1, QuietGrows DEF seen
<1>10. Expands(x) /\ ~Starting(x) /\ ~Starting(l)
  BY <1>1, <1>2, <1>5, <1>7 DEF Expands, Starting, Active, New
<1>11. ThreadOK(t, x)'
  <2>1. Shaped(t, x)'
    <3>1. x.s # x.n /\ ~(t # 0 /\ phase = "warmup")
      BY <1>1, <1>2, <1>5, <1>7 DEF ThreadOK, Shaped
    <3>. QED
      BY <1>1, <1>5, <1>7, <1>10, <3>1 DEF Shaped, New
  <2>2. Known(x)'
    <3>1. l.at \in seen \cup {NoState}
      BY <1>1, <1>2 DEF ThreadOK, Known
    <3>. QED
      BY <1>1, <1>5, <1>7, <1>9, <1>10, <3>1, BelowBoundKept DEF Known
  <2>3. Progress(x)'
    <3>1. \A r \in 1..Rules : ~Ran(x, r)
      BY <1>1, <1>7, ModelFields DEF Ran, New
    <3>2. \A r \in Moving(x.s)' : r \in 1..Rules
      BY DEF Moving, Firing
    <3>. QED
      BY <1>7, <1>10, <3>1, <3>2 DEF Progress
  <2>4. Exits(t, x)'
    BY <1>7 DEF Exits, Over
  <2>. QED
    BY <2>1, <2>2, <2>3, <2>4 DEF ThreadOK
<1>12. Moves(t, x)
  BY <1>1, <1>2, <1>7, <1>8, <1>9, <1>10, <1>11 DEF Moves
<1>13. \A u \in Threads \ {t} : EmptyStays(u)
  BY <1>1, <1>3 DEF EmptyStays
<1>14. ThreadsOK' /\ StartsSettled'
  BY <1>12, <1>13, ThreadsKept
<1>15. Places'
  <2>1. InHand(l) = {} /\ InHand(x) = {n}
    BY <1>1, <1>2, <1>5, <1>7 DEF InHand, Active, New, ThreadOK, Shaped
  <2>. QED
    BY <1>2, <1>3, <1>4, <1>8, <1>9, <2>1, QueueToHand
<1>16. FoundRight'
  BY <1>9, FoundKept
<1>17. Ending'
  BY <1>1, <1>7, <1>9, <1>12, NotJoined, EndingKept DEF Grows
<1>18. Typed'
  <2>1. queue' \in [Threads -> Seq(States)]
    BY <1>1, <1>3, <1>5
  <2>. QED
    BY <1>1, <1>7, <1>8, <1>9, <2>1, ModelKept DEF Typed
<1>. QED
  BY <1>14, <1>15, <1>16, <1>17, <1>18 DEF Places

LEMMA FollowsEnqueue ==
    ASSUME SearchInv, NEW t \in Threads, NEW l, l = th[t], l.pc = "enqueue",
           NEW q \in Threads, NEW x,
           \/ x = [NextRule(l) EXCEPT !.at = NoState]
           \/ x = [NextRule(l) EXCEPT !.queue_id = q, !.at = NoState]
    PROVE  Follows(l, x)
<1>1. l \in Locals /\ model \in Models /\ l.pc \in New
  BY DEF SearchInv, Typed, New
<1>2. PICK y : y = NextRule(l)
  OBVIOUS
<1>3. Follows(l, y) /\ y \in Locals
  BY <1>1, <1>2, FollowsInsertion DEF Follows
<1>4. NoState \in SomeState
  BY DEF SomeState
<1>5. CASE x = [y EXCEPT !.at = NoState]
  <2>1. /\ x.pc = y.pc /\ x.s = y.s /\ x.rule_taken = y.rule_taken /\ x.n = y.n
        /\ x.at = NoState /\ x.status = y.status
        /\ x.possible_deadlock = y.possible_deadlock
    BY <1>3, <1>5 DEF Locals
  <2>2. x \in Locals
    BY <1>3, <1>4, <1>5 DEF Locals
  <2>. QED
    BY <1>3, <2>1, <2>2 DEF Follows
<1>6. CASE x = [y EXCEPT !.queue_id = q, !.at = NoState]
  <2>1. /\ x.pc = y.pc /\ x.s = y.s /\ x.rule_taken = y.rule_taken /\ x.n = y.n
        /\ x.at = NoState /\ x.status = y.status
        /\ x.possible_deadlock = y.possible_deadlock
    BY <1>3, <1>6 DEF Locals
  <2>2. x \in Locals
    BY <1>3, <1>4, <1>6 DEF Locals
  <2>. QED
    BY <1>3, <2>1, <2>2 DEF Follows
<1>. QED
  BY <1>2, <1>5, <1>6

\* A thread that begins in explore().
LEMMA StartsOK ==
    ASSUME SearchInv, NEW u \in Threads \ {0}, NEW x, x = StartLocals(u, "top"),
           Grows, phase' = "run"
    PROVE  x \in Locals /\ ThreadOK(u, x)' /\ InHand(x) = {}
<1>1. /\ x.pc = "top" /\ x.n = NoState /\ x.s = NoState /\ x.at = NoState /\ x.status = 0
      /\ x.pc \notin Active
  BY DEF StartLocals, Active, New
<1>2. x \in Locals
  BY DEF StartLocals, Locals, Labels, SomeState
<1>3. ~Expands(x) /\ ~Starting(x)
  BY <1>1 DEF Expands, Starting, Active
<1>4. Shaped(u, x)'
  BY <1>1, <1>3 DEF Shaped, Active
<1>5. Known(x)'
  BY <1>1, <1>3 DEF Known
<1>6. Progress(x)'
  BY <1>3 DEF Progress
<1>7. Exits(u, x)'
  BY <1>1 DEF Exits, Over
<1>8. InHand(x) = {}
  BY <1>1 DEF InHand
<1>. QED
  BY <1>2, <1>4, <1>5, <1>6, <1>7, <1>8 DEF ThreadOK

LEMMA EnqueueKeeps ==
    ASSUME SearchInv, NEW t \in Threads, Enqueue(t)
    PROVE  SearchInv'
<1>. USE DEF SearchInv
<1>1. /\ th[t].pc = "enqueue" /\ th[t] \in Locals /\ ThreadOK(t, th[t]) /\ model \in Models
      /\ queue \in [Threads -> Seq(States)]
      /\ UNCHANGED <<model, node, error_count, covered, rules_fired, reports, result>>
  BY DEF Enqueue, At, Typed, ThreadsOK
<1>2. PICK l, k : l = th[t] /\ k = IF l.s = NoState THEN l.queue_id ELSE t
  OBVIOUS
<1>3. /\ k \in Threads /\ (l.s # NoState => k = t) /\ (l.s = NoState => Starting(l))
      /\ l.pc \in New /\ l.n # NoState /\ l.n \in seen /\ l.n \notin model.raising
      /\ l.n \in InHand(l) /\ l.queue_id \in Threads
  BY <1>1, <1>2 DEF Locals, Starting, New, ThreadOK, Shaped, Known, InHand
<1>4. PICK q : q = IF l.s = NoState THEN NextQueue(k) ELSE k
  OBVIOUS
<1>5. q \in Threads
  BY <1>1, <1>3, <1>4, NextQueueIs, ModelFields
<1>6. Grows /\ seen' = seen /\ Threads' = Threads /\ 0 \in Threads
  BY <1>1, QuietGrows, ModelKept, ModelFields DEF seen
<1>7. ~Joined /\ (error_count > 0 <=> reports # {}) /\ error_count' \in Nat
  BY <1>1, NotJoined DEF Typed
<1>8. CASE /\ l.s # NoState /\ ~BelowBound(l.n)
           /\ th' = [th EXCEPT ![t] = [NextRule(l) EXCEPT !.at = NoState]]
           /\ UNCHANGED <<queue, phase>>
  <2>1. PICK x : x = [NextRule(l) EXCEPT !.at = NoState]
    OBVIOUS
  <2>2. Follows(l, x)
    BY <1>1, <1>2, <1>5, <2>1, FollowsEnqueue
  <2>3. Moves(t, x) /\ InHand(x) = InHand(l) \ {l.n} /\ x.pc \notin Over
    BY <1>2, <1>3, <1>6, <1>8, <2>1, <2>2, FollowsOK
  <2>4. Released(l.n)'
    BY <1>1, <1>3, <1>6, <1>8, BelowBoundKept DEF Released
  <2>5. Ending'
    BY <1>1, <1>7, <2>3, EndingKept DEF Over
  <2>. QED
    BY <1>1, <1>2, <1>8, <2>3, <2>4, <2>5, TypedKept, PlainKeeps
<1>9. ASSUME NEW start \in BOOLEAN, NEW x,
             start => THREADS > 1 /\ t = 0 /\ l.s # NoState /\ phase = "warmup",
             l.s = NoState \/ BelowBound(l.n),
             queue' = [queue EXCEPT ![k] = Append(queue[k], l.n)],
             phase' = IF start THEN "run" ELSE phase,
             x = [NextRule(l) EXCEPT !.queue_id = q, !.at = NoState],
             th' = [u \in Threads |-> CASE u = t -> x
                                        [] u # t /\ start -> StartLocals(u, "top")
                                        [] OTHER -> th[u]]
      PROVE  SearchInv'
  <2>1. Follows(l, x)
    BY <1>1, <1>2, <1>5, <1>9, FollowsEnqueue
  <2>2. BelowBound(l.n)
    BY <1>1, <1>2, <1>3, <1>9, ModelFields DEF ThreadOK, Known, BelowBound
  <2>3. /\ ThreadOK(t, x)' /\ x \in Locals /\ (Starting(x) <=> Starting(l))
        /\ InHand(x) = InHand(l) \ {l.n} /\ x.pc \notin Over
    <3>1. phase' = phase \/ (t = 0 /\ l.s # NoState)
      BY <1>9
    <3>. QED
      BY <1>2, <1>3, <1>6, <2>1, <3>1, FollowsThreadOK
  <2>4. queue' \in [Threads -> Seq(States)]
    <3>1. queue[k] \in Seq(States) /\ l.n \in States
      BY <1>1, <1>3 DEF Typed
    <3>2. Append(queue[k], l.n) \in Seq(States)
      BY <3>1
    <3>. QED
      BY <1>1, <1>3, <1>9, <3>2
  <2>5. FoundRight'
    BY <1>6, FoundKept
  <2>6. th'[t] = x
    BY <1>9
  <2>7. CASE ~start
    <3>1. th' = [th EXCEPT ![t] = x] /\ phase' = phase
      BY <1>9, <2>7 DEF Typed
    <3>2. Moves(t, x)
      BY <1>2, <1>6, <2>3, <3>1 DEF Moves
    <3>3. ASSUME NEW u \in Threads \ {t} PROVE EmptyStays(u)
      <4>1. ASSUME th[u].pc \in Over \cup {"dequeue"}, NEW j \in Threads, Kept(u, j)
            PROVE  j # k
        <5>1. Shaped(u, th[u]) /\ Shaped(t, l)
          BY <1>1, <1>2 DEF ThreadsOK, ThreadOK
        <5>2. phase # "warmup"
          BY <1>1, <1>2, <4>1, <5>1 DEF Shaped, Over
        <5>. QED
          BY <1>3, <4>1, <5>1, <5>2 DEF Kept, Shaped
      <4>. QED
        BY <1>1, <1>9, <4>1 DEF EmptyStays
    <3>4. ThreadsOK' /\ StartsSettled'
      BY <3>2, <3>3, ThreadsKept
    <3>5. Places'
      <4>1. \A u \in Threads \ {t} : InHand(th'[u]) = InHand(th[u])
        BY <3>1 DEF Typed
      <4>. QED
        BY <1>2, <1>3, <1>6, <1>9, <2>2, <2>3, <2>6, <4>1, HandToQueue
    <3>6. Ending'
      BY <1>1, <1>7, <2>3, <3>2, EndingKept DEF Over
    <3>7. Typed'
      BY <1>1, <1>6, <2>3, <2>4, <3>1, ModelKept DEF Typed
    <3>. QED
      BY <2>5, <3>4, <3>5, <3>6, <3>7 DEF Places
  <2>8. CASE start
    <3>1. /\ t = 0 /\ l.s # NoState /\ phase' = "run" /\ phase = "warmup"
          /\ \A u \in Threads \ {0} : th'[u] = StartLocals(u, "top")
      BY <1>9, <2>8
    <3>2. \A u \in Threads \ {0} : /\ th'[u] \in Locals /\ ThreadOK(u, th[u])'
                                   /\ InHand(th'[u]) = {} /\ InHand(th[u]) = {}
      <4>1. ASSUME NEW u \in Threads \ {0} PROVE InHand(th[u]) = {}
        <5>1. Shaped(u, th[u])
          BY DEF ThreadsOK, ThreadOK
        <5>. QED
          BY <3>1, <5>1 DEF Shaped, InHand, Active, New
      <4>2. ASSUME NEW u \in Threads \ {0}
            PROVE  th'[u] \in Locals /\ ThreadOK(u, th[u])' /\ InHand(th'[u]) = {}
        <5>1. PICK y : y = StartLocals(u, "top")
          OBVIOUS
        <5>2. y \in Locals /\ ThreadOK(u, y)' /\ InHand(y) = {}
          BY <1>6, <3>1, <5>1, StartsOK
        <5>. QED
          BY <3>1, <5>1, <5>2
      <4>. QED
        BY <4>1, <4>2
    <3>3. ThreadsOK'
      BY <1>6, <2>3, <2>6, <3>1, <3>2 DEF ThreadsOK
    <3>4. StartsSettled'
      <4>1. ~Starting(l)
        BY <1>1, <1>2, <3>1 DEF Starting, New
      <4>. QED
        BY <1>2, <1>6, <3>1, <4>1, StartsKept, StoppedKept DEF StartsSettled, Grows
    <3>5. Places'
      <4>1. \A u \in Threads \ {t} : InHand(th'[u]) = InHand(th[u])
        BY <3>1, <3>2
      <4>. QED
        BY <1>2, <1>3, <1>6, <1>9, <2>2, <2>3, <2>6, <4>1, HandToQueue
    <3>6. Ending'
      <4>1. th'[0].pc \notin {"learn", "exited"}
        BY <2>3, <2>6, <3>1 DEF Over
      <4>. QED
        BY <1>1, <1>7, <4>1 DEF Ending, Joined
    <3>7. Typed'
      <4>1. th' \in [Threads -> Locals]
        <5>1. \A u \in Threads : th'[u] \in Locals
          BY <2>3, <2>6, <3>1, <3>2
        <5>. QED
          BY <1>9, <5>1
      <4>. QED
        BY <1>1, <1>6, <2>4, <3>1, <4>1, ModelKept DEF Typed
    <3>. QED
      BY <2>5, <3>3, <3>4, <3>5, <3>6, <3>7 DEF Places
  <2>. QED
    BY <1>9, <2>7, <2>8
<1>10. CASE ~(/\ l.s # NoState /\ ~BelowBound(l.n)
              /\ th' = [th EXCEPT ![t] = [NextRule(l) EXCEPT !.at = NoState]]
              /\ UNCHANGED <<queue, phase>>)
  <2>1. PICK x, start :
          /\ x = [NextRule(l) EXCEPT !.queue_id = q, !.at = NoState]
          /\ start = StartsOthers(t, Len(queue[k]) + 1)
    BY SMTT(30)
  <2>2. /\ l.s = NoState \/ BelowBound(l.n)
        /\ queue' = [queue EXCEPT ![k] = Append(queue[k], l.n)]
        /\ phase' = IF start THEN "run" ELSE phase
        /\ th' = [u \in Threads |-> CASE u = t -> x
                                       [] u # t /\ start -> StartLocals(u, "top")
                                       [] OTHER -> th[u]]
    BY <1>2, <1>4, <1>10, <2>1 DEF Enqueue, Linked
  <2>3. start \in BOOLEAN /\ (start => THREADS > 1 /\ t = 0 /\ l.s # NoState /\ phase = "warmup")
    BY <1>2, <2>1 DEF StartsOthers
  <2>. QED
    BY <1>9, <2>1, <2>2, <2>3
<1>. QED
  BY <1>8, <1>10

-----------------------------------------------------------------------------
(***************************************************************************)
(* A new state.                                                            *)
(***************************************************************************)

LEMMA ReachClosed ==
    ASSUME model \in Models, NEW S \in SUBSET States
    PROVE  /\ S \subseteq Reach(S) /\ Reach(S) \subseteq States
           /\ \A s \in Reach(S) \ model.raising : Successors(s) \subseteq Reach(S)
<1>1. S \subseteq Reach(S) /\ Reach(S) \subseteq States
  BY DEF Reach
<1>2. ASSUME NEW s \in Reach(S) \ model.raising, NEW n \in Successors(s)
      PROVE  n \in Reach(S)
  <2>1. n \in States
    BY <1>2, ModelFields DEF Successors, IsGood
  <2>2. ASSUME NEW C \in SUBSET States, S \subseteq C, Wider(C) \subseteq C
        PROVE  n \in C
    <3>1. s \in C
      BY <1>2, <2>2 DEF Reach
    <3>2. n \in Wider(C)
      BY <1>2, <3>1 DEF Wider
    <3>. QED
      BY <2>2, <3>2
  <2>. QED
    BY <2>1, <2>2 DEF Reach
<1>. QED
  BY <1>1, <1>2

\* Thread t has put the outcome n of its rule or start state into the set.
Inserted(l, n, x) ==
    /\ x \in Locals /\ x.s = l.s /\ x.rule_taken = l.rule_taken /\ x.n = n /\ x.at = n
    /\ x.status = l.status
    /\ x.pc \in New
    /\ x.pc = "raise" <=> n \in model.raising
    /\ x.pc = "mark" => x.todo # {}
    /\ x.todo = LiveIn(n)
    /\ x.pc = "enqueue" => LiveIn(n) = {}
    /\ IF l.pc = "rule"
         THEN x.possible_deadlock <=> l.possible_deadlock /\ l.rule_taken \notin Moving(l.s)
         ELSE x.possible_deadlock <=> l.possible_deadlock

LEMMA InsertNewIs ==
    ASSUME SearchInv, NEW t \in Threads, InsertNew(t), NEW l, l = th[t], NEW n, n = Outcome(t)
    PROVE  /\ InInit(t) \/ InRules(t)
           /\ n \in States \ seen /\ IsGood(n) /\ ~Violation(n)
           /\ node' = [x \in seen \cup {n} |->
                         IF x = n THEN [previous |-> l.s, rule_taken |-> l.rule_taken,
                                        bound |-> NewBound(t), liveness |-> {}]
                                  ELSE node[x]]
           /\ covered' = covered \cup CoversHit(n)
           /\ UNCHANGED <<model, queue, error_count, phase, rules_fired, reports, result>>
           /\ \E x : Inserted(l, n, x) /\ th' = [th EXCEPT ![t] = x]
<1>1. /\ InInit(t) \/ InRules(t)
      /\ MeetsAssumptions(n) /\ MeetsInvariants(n) /\ n \notin seen
      /\ model \in Models
  BY DEF InsertNew, Good, SearchInv, Typed
<1>2. l \in Locals /\ l.pc \in {"init", "rule"} /\ n \in States \cup NotStates
  BY <1>1, OutcomeIs
<1>3. n \in States \ seen /\ IsGood(n) /\ ~Violation(n)
  BY <1>1, <1>2, OutcomeFacts
<1>4. PICK y, g : /\ y = AfterRule(t)
                  /\ g = CASE n \in model.raising -> "raise"
                           [] n \notin model.raising /\ LiveIn(n) = {} -> "enqueue"
                           [] OTHER -> "mark"
  OBVIOUS
<1>5. /\ g \in New /\ g \in Labels /\ (g = "raise" <=> n \in model.raising)
      /\ (g = "mark" => LiveIn(n) # {}) /\ (g = "enqueue" => LiveIn(n) = {})
  <2>1. CASE n \in model.raising
    BY <1>4, <2>1 DEF New, Labels
  <2>2. CASE n \notin model.raising /\ LiveIn(n) = {}
    <3>1. g = "enqueue"
      BY <1>4, <2>2
    <3>. QED
      BY <2>2, <3>1 DEF New, Labels
  <2>3. CASE n \notin model.raising /\ LiveIn(n) # {}
    <3>1. g = "mark"
      BY <1>4, <2>3
    <3>. QED
      BY <2>3, <3>1 DEF New, Labels
  <2>. QED
    BY <2>1, <2>2, <2>3
<1>6. PICK x : x = [y EXCEPT !.n = n, !.todo = LiveIn(n), !.at = n, !.pc = g]
  OBVIOUS
<1>7. /\ y \in Locals /\ y.s = l.s /\ y.rule_taken = l.rule_taken /\ y.status = l.status
      /\ IF l.pc = "rule"
           THEN y.possible_deadlock <=> l.possible_deadlock /\ l.rule_taken \notin Moving(l.s)
           ELSE y.possible_deadlock <=> l.possible_deadlock
  BY <1>1, <1>3, <1>4, AfterRuleFields
<1>8. n \in SomeState /\ LiveIn(n) \in SUBSET Liveness
  BY <1>3 DEF SomeState, LiveIn
<1>9. x \in Locals
  BY <1>5, <1>6, <1>7, <1>8 DEF Locals
<1>10. /\ x.s = y.s /\ x.rule_taken = y.rule_taken /\ x.n = n /\ x.at = n
       /\ x.status = y.status /\ x.pc = g /\ x.todo = LiveIn(n)
       /\ x.possible_deadlock = y.possible_deadlock
  BY <1>6, <1>7 DEF Locals
<1>11. Inserted(l, n, x)
  BY <1>5, <1>7, <1>9, <1>10 DEF Inserted
<1>12. /\ node' = [z \in seen \cup {n} |->
                     IF z = n THEN [previous |-> l.s, rule_taken |-> l.rule_taken,
                                    bound |-> NewBound(t), liveness |-> {}]
                              ELSE node[z]]
       /\ covered' = covered \cup CoversHit(n)
       /\ th' = [th EXCEPT ![t] = x]
       /\ UNCHANGED <<model, queue, error_count, phase, rules_fired, reports, result>>
  BY <1>4, <1>6 DEF InsertNew, NewLiveness
<1>. QED
  BY <1>1, <1>3, <1>11, <1>12

LEMMA InsertedThreadOK ==
    ASSUME SearchInv, NEW t \in Threads, NEW l, l = th[t], NEW n, n = Outcome(t), NEW x,
           InInit(t) \/ InRules(t), Inserted(l, n, x), n \in States \ seen, ~Violation(n),
           Grows, phase' = phase, seen' = seen \cup {n},
           l.pc = "init" => node'[n].bound = 0
    PROVE  /\ ThreadOK(t, x)'
           /\ Starting(x) <=> Starting(l)
           /\ InHand(x) = InHand(l) \cup {n} /\ x.pc \notin Over
<1>. USE DEF SearchInv
<1>1. /\ l \in Locals /\ ThreadOK(t, l) /\ model \in Models /\ l.pc \in {"init", "rule"}
      /\ n # NoState /\ seen \subseteq States
  BY OutcomeIs, ModelFields DEF Typed, ThreadsOK
<1>2. /\ x \in Locals /\ x.s = l.s /\ x.rule_taken = l.rule_taken /\ x.n = n /\ x.at = n
      /\ x.status = l.status /\ x.pc \in New
      /\ (x.pc = "raise" <=> n \in model.raising)
      /\ (x.pc = "mark" => x.todo # {})
  BY DEF Inserted
<1>3. Shaped(t, l) /\ l.n = NoState /\ (l.pc = "init" => l.s = NoState)
      /\ (l.pc = "rule" => l.s # NoState /\ l.s \in seen) /\ l.status # 1
  BY <1>1 DEF ThreadOK, Shaped, Known, New, Over
<1>4. /\ Starting(x) <=> Starting(l)
      /\ Expands(x) <=> Expands(l)
      /\ Starting(l) <=> l.pc = "init"
      /\ Expands(l) <=> l.pc = "rule"
  BY <1>1, <1>2, <1>3 DEF Starting, Expands, New, Active
<1>5. Shaped(t, x)'
  <2>1. (Starting(l) => t = 0 /\ phase = "warmup") /\ ~(t # 0 /\ phase = "warmup")
    BY <1>1, <1>3 DEF Shaped
  <2>2. Expands(x) => x.s # x.n
    BY <1>2, <1>3, <1>4
  <2>3. x.pc \in {"mark", "enqueue"} => x.n \notin model'.raising
    BY <1>2 DEF Grows
  <2>4. x.pc = "raise" => x.n \in model'.raising
    BY <1>2 DEF Grows
  <2>. QED
    BY <1>1, <1>2, <1>3, <1>4, <2>1, <2>2, <2>3, <2>4 DEF Shaped, New
<1>6. Known(x)'
  <2>1. {x.s, x.n, x.at} \subseteq seen' \cup {NoState}
    BY <1>1, <1>2, <1>3
  <2>2. ASSUME Expands(x) PROVE x.s \notin model'.raising /\ BelowBound(x.s)'
    <3>1. l.s \in seen /\ l.s \notin model.raising /\ BelowBound(l.s)
      BY <1>1, <1>3, <1>4, <2>2 DEF ThreadOK, Known
    <3>. QED
      BY <1>2, <3>1, BelowBoundKept DEF Grows
  <2>3. Starting(x) => node'[x.n].bound = 0
    BY <1>2, <1>4
  <2>. QED
    BY <2>1, <2>2, <2>3 DEF Known
<1>7. /\ \A i \in Nat : Ran(x, i) <=> Ran(l, i) \/ i = l.rule_taken
      /\ \A i \in Nat : Ran(l, i) => i # l.rule_taken
  <2>1. l.pc \notin New
    BY <1>1 DEF New
  <2>. QED
    BY <1>1, <1>2, <2>1 DEF Ran, Locals
<1>8. Settled(n)'
  BY ModelKept DEF Settled, Grows
<1>9. Progress(x)'
  <2>1. ASSUME Expands(x), NEW r \in 1..Rules, Ran(x, r)
        PROVE  Settled(model.rule[x.s][r])'
    <3>1. CASE Ran(l, r)
      <4>1. Settled(model.rule[l.s][r])
        BY <1>1, <1>4, <2>1, <3>1 DEF ThreadOK, Progress
      <4>. QED
        BY <1>2, <4>1, SettledKept DEF Grows
    <3>2. CASE ~Ran(l, r)
      <4>1. r = l.rule_taken
        BY <1>1, <1>7, <2>1, <3>2, ModelFields
      <4>2. n = model.rule[l.s][r]
        BY <1>1, <1>4, <2>1, <4>1, OutcomeIs
      <4>. QED
        BY <1>2, <1>8, <4>2 DEF Grows
    <3>. QED
      BY <3>1, <3>2
  <2>2. ASSUME Starting(x), NEW i \in 1..Len(model.starts), Ran(x, i)
        PROVE  Settled(model.starts[i])'
    <3>1. CASE Ran(l, i)
      <4>1. Settled(model.starts[i])
        BY <1>1, <1>4, <2>2, <3>1 DEF ThreadOK, Progress
      <4>. QED
        BY <4>1, SettledKept DEF Grows
    <3>2. CASE ~Ran(l, i)
      <4>1. i = l.rule_taken
        BY <1>1, <1>7, <2>2, <3>2, ModelFields
      <4>2. n = model.starts[i]
        BY <1>1, <1>4, <2>2, <4>1, OutcomeIs
      <4>. QED
        BY <1>8, <4>2 DEF Grows
    <3>. QED
      BY <3>1, <3>2
  <2>3. ASSUME Expands(x)
        PROVE  x.possible_deadlock <=> \A r \in Moving(x.s) : ~Ran(x, r)
    <3>1. l.possible_deadlock <=> \A r \in Moving(l.s) : ~Ran(l, r)
      BY <1>1, <1>4, <2>3 DEF ThreadOK, Progress
    <3>2. \A r \in Moving(l.s) : r \in Nat
      BY <1>1, ModelFields DEF Moving, Firing
    <3>3. x.possible_deadlock <=> l.possible_deadlock /\ l.rule_taken \notin Moving(l.s)
      BY <1>4, <2>3 DEF Inserted
    <3>. QED
      BY <1>2, <1>7, <3>1, <3>2, <3>3
  <2>. QED
    BY <2>1, <2>2, <2>3, ModelKept DEF Progress, Grows
<1>10. Exits(t, x)'
  BY <1>2, <1>3 DEF Exits, Over, New
<1>11. InHand(x) = InHand(l) \cup {n}
  BY <1>1, <1>2, <1>3, <1>4 DEF InHand, Active, New
<1>. QED
  BY <1>2, <1>4, <1>5, <1>6, <1>9, <1>10, <1>11 DEF ThreadOK, Over, New

LEMMA InsertNewKeeps ==
    ASSUME SearchInv, NEW t \in Threads, InsertNew(t)
    PROVE  SearchInv'
<1>. USE DEF SearchInv
<1>1. PICK l, n : l = th[t] /\ n = Outcome(t)
  OBVIOUS
<1>2. /\ InInit(t) \/ InRules(t)
      /\ n \in States \ seen /\ IsGood(n) /\ ~Violation(n)
      /\ covered' = covered \cup CoversHit(n)
      /\ UNCHANGED <<model, queue, error_count, phase, rules_fired, reports, result>>
  BY <1>1, InsertNewIs
<1>3. PICK x : Inserted(l, n, x) /\ th' = [th EXCEPT ![t] = x]
  BY <1>1, InsertNewIs
<1>4. PICK struct : struct = [previous |-> l.s, rule_taken |-> l.rule_taken,
                              bound |-> NewBound(t), liveness |-> {}]
  OBVIOUS
<1>5. node' = [z \in seen \cup {n} |-> IF z = n THEN struct ELSE node[z]]
  BY <1>1, <1>4, InsertNewIs
<1>6. /\ l \in Locals /\ ThreadOK(t, l) /\ model \in Models /\ l.pc \in {"init", "rule"}
      /\ node \in [seen -> Structs] /\ seen \subseteq States
      /\ l.s \in SomeState /\ l.rule_taken \in Nat \ {0}
  BY <1>1, <1>2, OutcomeIs DEF Typed, ThreadsOK, Locals
<1>7. /\ l.pc = "init" => /\ l.s = NoState /\ l.rule_taken \in 1..Len(model.starts)
                          /\ n = model.starts[l.rule_taken]
      /\ l.pc = "rule" => /\ l.s \in seen /\ l.s \notin model.raising /\ BelowBound(l.s)
                          /\ l.rule_taken \in 1..Rules /\ n = model.rule[l.s][l.rule_taken]
  <2>1. l.pc = "init" => l.s = NoState
    BY <1>6 DEF ThreadOK, Shaped
  <2>2. l.pc = "rule" => l.s \notin model.raising /\ BelowBound(l.s)
    BY <1>6 DEF ThreadOK, Shaped, Known, Expands, Active
  <2>. QED
    BY <1>1, <1>2, <2>1, <2>2, OutcomeIs
<1>8. NewBound(t) \in 0..BOUND /\ (l.pc = "init" => NewBound(t) = 0)
  <2>1. BOUND \in Nat
    BY <1>6, ModelFields
  <2>2. CASE BOUND = 0 \/ l.pc = "init"
    BY <1>1, <2>1, <2>2 DEF NewBound, At
  <2>3. CASE BOUND # 0 /\ l.pc = "rule"
    <3>1. NewBound(t) = node[l.s].bound + 1
      BY <1>1, <2>3 DEF NewBound, At
    <3>2. node[l.s].bound \in 0..BOUND
      BY <1>6, <1>7, <2>3 DEF Structs
    <3>3. node[l.s].bound < BOUND
      BY <1>7, <2>3 DEF BelowBound
    <3>. QED
      BY <2>1, <2>3, <3>1, <3>2, <3>3
  <2>. QED
    BY <1>6, <2>2, <2>3
<1>9. /\ struct \in Structs /\ struct.previous = l.s /\ struct.bound = NewBound(t)
  BY <1>4, <1>6, <1>8 DEF Structs
<1>10. /\ seen' = seen \cup {n} /\ node'[n] = struct
       /\ \A z \in seen : node'[z] = node[z]
       /\ node' \in [seen' -> Structs]
  BY <1>2, <1>5, <1>6, <1>9 DEF seen
<1>11. Grows
  BY <1>2, <1>10 DEF Grows, Typed
<1>12. /\ ThreadOK(t, x)' /\ (Starting(x) <=> Starting(l))
       /\ InHand(x) = InHand(l) \cup {n} /\ x.pc \notin Over
  BY <1>1, <1>2, <1>3, <1>8, <1>9, <1>10, <1>11, InsertedThreadOK
<1>13. Moves(t, x)
  BY <1>1, <1>2, <1>3, <1>11, <1>12 DEF Moves, Inserted
<1>14. ThreadsOK' /\ StartsSettled'
  <2>1. \A u \in Threads \ {t} : EmptyStays(u)
    BY <1>2 DEF EmptyStays
  <2>. QED
    BY <1>13, <2>1, ThreadsKept
<1>15. Places'
  <2>1. th'[t] = x /\ \A u \in Threads \ {t} : InHand(th'[u]) = InHand(th[u])
    BY <1>3 DEF Typed
  <2>. QED
    BY <1>1, <1>2, <1>10, <1>11, <1>12, <2>1, HandMoves
<1>16. FoundRight'
  <2>1. Origin(n)'
    <3>1. node'[n].previous = l.s
      BY <1>9, <1>10
    <3>2. CASE l.pc = "init"
      BY <1>2, <1>7, <3>1, <3>2, ModelKept DEF Origin, StartStates
    <3>3. CASE l.pc = "rule"
      <4>1. n \in Successors(l.s)
        BY <1>2, <1>7, <3>3 DEF Successors, Outcomes
      <4>. QED
        BY <1>2, <1>7, <1>10, <3>1, <3>3, <4>1, ModelKept DEF Origin
    <3>. QED
      BY <1>6, <3>2, <3>3
  <2>2. n \in Reach(StartStates)
    <3>1. StartStates \subseteq States
      BY <1>6, ModelFields DEF StartStates, IsGood
    <3>2. CASE l.pc = "init"
      BY <1>2, <1>6, <1>7, <3>1, <3>2, ReachClosed DEF StartStates
    <3>3. CASE l.pc = "rule"
      <4>1. n \in Successors(l.s) /\ l.s \in Reach(StartStates)
        BY <1>2, <1>7, <3>3 DEF Successors, Outcomes, FoundRight
      <4>. QED
        BY <1>6, <1>7, <3>1, <3>3, <4>1, ReachClosed
    <3>. QED
      BY <1>6, <3>2, <3>3
  <2>. QED
    BY <1>2, <1>10, <1>11, <2>1, <2>2, OriginKept, ModelKept DEF FoundRight
<1>17. Ending'
  <2>1. ~Joined /\ (error_count > 0 <=> reports # {})
    BY <1>1, <1>6, NotJoined
  <2>. QED
    BY <1>2, <1>11, <1>12, <1>13, <2>1, EndingKept DEF Grows, Over
<1>18. Typed'
  <2>1. covered' \subseteq Covers
    BY <1>2 DEF Typed, CoversHit
  <2>2. seen' \subseteq States
    BY <1>2, <1>6, <1>10
  <2>3. th' \in [Threads -> Locals]
    BY <1>3 DEF Typed, Inserted
  <2>. QED
    BY <1>2, <1>6, <1>10, <2>1, <2>2, <2>3, ModelKept DEF Typed
<1>. QED
  BY <1>14, <1>15, <1>16, <1>17, <1>18 DEF Places

-----------------------------------------------------------------------------
(***************************************************************************)
(* The inductive invariant of the search.                                  *)
(***************************************************************************)

LEMMA SearchInvInit == Init => SearchInv
<1>. SUFFICES ASSUME Init PROVE SearchInv
  OBVIOUS
<1>1. /\ model \in Models /\ node = [x \in {} |-> NoState] /\ seen = {}
      /\ queue = [k \in Threads |-> <<>>] /\ error_count = 0 /\ covered = {}
      /\ phase = "warmup" /\ rules_fired = [t \in Threads |-> 0]
      /\ reports = {} /\ result = NoResult
      /\ th = [t \in Threads |-> StartLocals(t, IF t = 0 THEN "init" ELSE "unborn")]
  BY DEF Init, seen
<1>2. 0 \in Threads
  BY <1>1, ModelFields
<1>3. ASSUME NEW t \in Threads
      PROVE  /\ th[t] \in Locals /\ th[t].n = NoState /\ th[t].s = NoState
             /\ th[t].at = NoState /\ th[t].status = 0 /\ th[t].rule_taken = 1
             /\ th[t].pc \in {"init", "unborn"} /\ (th[t].pc = "init" <=> t = 0)
  <2>1. PICK g : g = IF t = 0 THEN "init" ELSE "unborn"
    OBVIOUS
  <2>2. g \in {"init", "unborn"} /\ (g = "init" <=> t = 0) /\ th[t] = StartLocals(t, g)
    BY <1>1, <2>1
  <2>. QED
    BY <2>2 DEF StartLocals, Locals, Labels, SomeState
<1>4. Typed
  <2>1. th \in [Threads -> Locals]
    BY <1>1, <1>3
  <2>2. node \in [seen -> Structs] /\ queue \in [Threads -> Seq(States)]
    BY <1>1
  <2>. QED
    BY <1>1, <2>1, <2>2 DEF Typed
<1>5. ASSUME NEW t \in Threads PROVE ThreadOK(t, th[t]) /\ InHand(th[t]) = {}
  <2>1. ~Expands(th[t]) /\ (Starting(th[t]) => t = 0)
    BY <1>3 DEF Expands, Starting, Active, New
  <2>2. Shaped(t, th[t])
    BY <1>1, <1>3, <2>1 DEF Shaped, New
  <2>3. Known(th[t])
    BY <1>3, <2>1 DEF Known
  <2>4. Progress(th[t])
    <3>1. \A i \in 1..Len(model.starts) : ~Ran(th[t], i)
      BY <1>1, <1>3, ModelFields DEF Ran, New
    <3>. QED
      BY <2>1, <3>1 DEF Progress
  <2>5. Exits(t, th[t])
    BY <1>3 DEF Exits, Over
  <2>. QED
    BY <1>3, <2>2, <2>3, <2>4, <2>5 DEF ThreadOK, InHand, Active, New
<1>6. \A k \in Threads : Apart(queue[k]) /\ Elements(queue[k]) = {}
  BY <1>1 DEF Apart, Elements
<1>7. QueuesApart /\ HandsApart /\ QueuedExpandable /\ AllAccounted
  BY <1>1, <1>5, <1>6 DEF QueuesApart, HandsApart, QueuedExpandable, AllAccounted
<1>8. StartsSettled /\ FoundRight
  BY <1>1, <1>2, <1>3 DEF StartsSettled, FoundRight, Starting
<1>9. Ending
  BY <1>1, <1>2, <1>3 DEF Ending, Joined, NoResult
<1>. QED
  BY <1>4, <1>5, <1>7, <1>8, <1>9 DEF SearchInv, ThreadsOK

LEMMA UnchangedKeeps ==
    ASSUME SearchInv, UNCHANGED vars
    PROVE  SearchInv'
<1>. USE DEF SearchInv
<1>1. UNCHANGED <<model, node, queue, error_count, covered, phase, th, rules_fired,
                  reports, result>>
  BY DEF vars
<1>2. /\ Grows /\ seen' = seen /\ Threads' = Threads /\ 0 \in Threads
      /\ th \in [Threads -> Locals]
  BY <1>1, QuietGrows, ModelKept, ModelFields DEF seen, Typed
<1>3. PICK x : x = th[0]
  OBVIOUS
<1>4. ThreadOK(0, x)' /\ x \in Locals
  BY <1>1, <1>2, <1>3, ThreadKept DEF ThreadsOK
<1>5. Starting(th[0]) => Starting(x)
  BY <1>3
<1>6. Moves(0, x)
  BY <1>1, <1>2, <1>3, <1>4, <1>5 DEF Moves
<1>7. Typed'
  BY <1>1, <1>2, ModelKept DEF Typed
<1>8. Ending'
  BY <1>1, <1>2 DEF Ending, Joined, At
<1>. QED
  BY <1>1, <1>2, <1>3, <1>6, <1>7, <1>8, RelabelKeeps

LEMMA SearchInvNext == SearchInv /\ [Next]_vars => SearchInv'
<1>. SUFFICES ASSUME SearchInv, [Next]_vars PROVE SearchInv'
  OBVIOUS
<1>1. CASE UNCHANGED vars
  BY <1>1, UnchangedKeeps
<1>2. ASSUME NEW t \in Threads, Step(t) PROVE SearchInv'
  BY <1>2, DiscardStateKeeps, FailRuleKeeps, InsertDuplicateKeeps, InsertNewKeeps,
     FailPropertyKeeps, MarkLivenessKeeps, EnqueueKeeps, EndInitKeeps, LoopTopKeeps,
     DequeueKeeps, DequeueNothingKeeps, EndRulesKeeps, ExitActionKeeps, JoinKeeps,
     LearnKeeps, SummariseKeeps
  DEF Step
<1>. QED
  BY <1>1, <1>2 DEF Next, Done

\* The search, whatever the models, the threads and the order of their steps.
THEOREM ExploreSearchInvariant == Spec => []SearchInv
<1>1. Init => SearchInv
  BY SearchInvInit
<1>2. SearchInv /\ [Next]_vars => SearchInv'
  BY SearchInvNext
<1>. QED
  BY <1>1, <1>2, PTL DEF Spec

-----------------------------------------------------------------------------
(***************************************************************************)
(* What the invariant says of the places of a state, and of the end.       *)
(***************************************************************************)

LEMMA WellTyped == SearchInv => TypeOK
<1>. SUFFICES ASSUME SearchInv PROVE TypeOK
  OBVIOUS
<1>1. Typed /\ ThreadsOK
  BY DEF SearchInv
<1>2. node \in [seen -> [previous : States \cup {NoState}, rule_taken : Nat \ {0},
                         bound : 0..BOUND, liveness : SUBSET Liveness]]
  BY <1>1 DEF Typed, Structs, SomeState
<1>3. queue \in [Threads -> Seq(seen)]
  <2>1. ASSUME NEW k \in Threads PROVE queue[k] \in Seq(seen)
    <3>1. queue[k] \in Seq(States) /\ \A i \in 1..Len(queue[k]) : queue[k][i] \in seen
      BY <1>1 DEF Typed, SearchInv, QueuedExpandable, Elements
    <3>. QED
      BY <3>1
  <2>. QED
    BY <1>1, <2>1 DEF Typed
<1>4. ASSUME NEW t \in Threads
      PROVE  /\ th[t].pc \in Labels /\ {th[t].s, th[t].n, th[t].at} \subseteq seen \cup {NoState}
             /\ th[t].queue_id \in Threads /\ th[t].status \in {0, 1}
  <2>1. th[t] \in Locals /\ Known(th[t])
    BY <1>1 DEF Typed, ThreadsOK, ThreadOK
  <2>. QED
    BY <2>1 DEF Locals, Known
<1>. QED
  BY <1>1, <1>2, <1>3, <1>4 DEF TypeOK, Typed, Labels

LEMMA NothingIsLost == SearchInv => NothingLost
<1>. SUFFICES ASSUME SearchInv, NEW s \in seen
              PROVE  LET places == Cardinality(Expanding(s)) + Cardinality(Inserting(s))
                                     + Cardinality(Queued(s))
                     IN  /\ places <= 1
                         /\ \/ places = 1 \/ Closed(s) \/ s \in model.raising
                            \/ ~BelowBound(s)
                            \/ error_count >= MAX_ERRORS
  BY DEF NothingLost
<1>. USE DEF SearchInv
<1>1. model \in Models /\ s \in States /\ s # NoState
  BY ModelFields DEF Typed
<1>2. \A t \in Threads : ThreadOK(t, th[t])
  BY DEF ThreadsOK
<1>3. \A t : t \in Expanding(s) <=> t \in Threads /\ th[t].s = s /\ th[t].pc \in Active
  BY DEF Expanding, Active, New
<1>4. \A t : t \in Inserting(s) <=> t \in Threads /\ th[t].n = s
  BY DEF Inserting
<1>5. \A t \in Threads : s \in InHand(th[t]) <=> t \in Expanding(s) \/ t \in Inserting(s)
  BY <1>1, <1>3, <1>4 DEF InHand
<1>6. Expanding(s) \cap Inserting(s) = {}
  BY <1>1, <1>2, <1>3, <1>4 DEF ThreadOK, Shaped, Expands
<1>7. \A t, u \in Threads : s \in InHand(th[t]) /\ s \in InHand(th[u]) => t = u
  BY DEF HandsApart
<1>8. ASSUME NEW z \in Queued(s)
      PROVE  \E k \in Threads : /\ z = <<k, z[2]>> /\ z[2] \in 1..Len(queue[k])
                                /\ queue[k][z[2]] = s
  BY <1>8 DEF Queued
<1>9. \A k \in Threads : \A i \in 1..Len(queue[k]) :
         queue[k][i] = s => <<k, i>> \in Queued(s)
  BY DEF Queued
<1>10. Cardinality({}) = 0 /\ \A z : Cardinality({z}) = 1
  BY FS_EmptySet, FS_Singleton
<1>. DEFINE Sizes(a, b, c) == /\ Cardinality(Expanding(s)) = a
                              /\ Cardinality(Inserting(s)) = b
                              /\ Cardinality(Queued(s)) = c
<1>11. CASE \E t \in Threads : s \in InHand(th[t])
  <2>1. PICK t \in Threads : s \in InHand(th[t])
    BY <1>11
  <2>2. Queued(s) = {}
    <3>1. \A k \in Threads : s \notin Elements(queue[k])
      BY <2>1 DEF HandsApart
    <3>. QED
      BY <1>8, <3>1 DEF Elements
  <2>3. CASE t \in Expanding(s)
    <3>1. Expanding(s) = {t} /\ Inserting(s) = {}
      BY <1>3, <1>4, <1>5, <1>6, <1>7, <2>1, <2>3
    <3>2. Sizes(1, 0, 0)
      BY <1>10, <2>2, <3>1
    <3>. QED
      BY <3>2
  <2>4. CASE t \in Inserting(s)
    <3>1. Inserting(s) = {t} /\ Expanding(s) = {}
      BY <1>3, <1>4, <1>5, <1>6, <1>7, <2>1, <2>4
    <3>2. Sizes(0, 1, 0)
      BY <1>10, <2>2, <3>1
    <3>. QED
      BY <3>2
  <2>. QED
    BY <1>5, <2>1, <2>3, <2>4
<1>12. CASE \E k \in Threads : s \in Elements(queue[k])
  <2>1. PICK k \in Threads : s \in Elements(queue[k])
    BY <1>12
  <2>2. PICK i \in 1..Len(queue[k]) : s = queue[k][i]
    BY <2>1 DEF Elements
  <2>3. Expanding(s) = {} /\ Inserting(s) = {}
    BY <1>3, <1>4, <1>5, <2>1 DEF HandsApart
  <2>4. Queued(s) = {<<k, i>>}
    <3>1. ASSUME NEW z \in Queued(s) PROVE z = <<k, i>>
      <4>1. PICK j \in Threads : /\ z = <<j, z[2]>> /\ z[2] \in 1..Len(queue[j])
                                 /\ queue[j][z[2]] = s
        BY <1>8, <3>1
      <4>2. j = k
        BY <2>1, <4>1 DEF QueuesApart, Elements
      <4>3. z[2] = i
        BY <2>2, <4>1, <4>2 DEF QueuesApart, Apart
      <4>. QED
        BY <4>1, <4>2, <4>3
    <3>2. <<k, i>> \in Queued(s)
      BY <1>9, <2>2
    <3>. QED
      BY <3>1, <3>2
  <2>5. Sizes(0, 0, 1)
    BY <1>10, <2>3, <2>4
  <2>. QED
    BY <2>5
<1>13. CASE ~Held(s)
  <2>1. Expanding(s) = {} /\ Inserting(s) = {}
    BY <1>3, <1>4, <1>5, <1>13 DEF Held
  <2>2. Queued(s) = {}
    BY <1>8, <1>13 DEF Held, Elements
  <2>3. Released(s)
    BY <1>13 DEF AllAccounted
  <2>4. Explored(s) => Closed(s)
    BY DEF Explored, Settled, Closed, Successors, Outcomes
  <2>5. Sizes(0, 0, 0)
    BY <1>10, <2>1, <2>2
  <2>. QED
    BY <2>3, <2>4, <2>5 DEF Released, Stopped
<1>. QED
  BY <1>11, <1>12, <1>13 DEF Held

\* When the other threads have been joined and errors did not stop them, nothing is
\* left in a hand or a queue.
LEMMA AllReleased ==
    ASSUME SearchInv, th[0].pc \in {"join", "learn", "exited"}, ~Stopped,
           phase = "run" => \A u \in Threads \ {0} : At(u, "exited")
    PROVE  /\ \A s \in seen : Released(s)
           /\ \A i \in 1..Len(model.starts) : Settled(model.starts[i])
<1>. USE DEF SearchInv
<1>1. 0 \in Threads /\ phase \in {"warmup", "run"}
  BY ModelFields DEF Typed
<1>2. ASSUME NEW t \in Threads
      PROVE  /\ Shaped(t, th[t]) /\ Exits(t, th[t])
             /\ th[t].pc \in Over \cup {"unborn"} /\ (th[t].pc = "unborn" => phase = "warmup")
  <2>1. Shaped(t, th[t]) /\ Exits(t, th[t])
    BY DEF ThreadsOK, ThreadOK
  <2>. QED
    BY <1>1, <2>1 DEF Shaped, Over, At
<1>3. \A t \in Threads : InHand(th[t]) = {}
  BY <1>2 DEF Shaped, InHand, Active, New, Over
<1>4. ASSUME NEW k \in Threads PROVE queue[k] = <<>>
  <2>1. CASE phase = "warmup"
    BY <1>1, <1>2, <2>1 DEF Exits, Kept, Over
  <2>2. CASE phase = "run"
    BY <1>2, <2>2 DEF Exits, Kept
  <2>. QED
    BY <1>1, <2>1, <2>2
<1>5. \A k \in Threads : Elements(queue[k]) = {}
  BY <1>4 DEF Elements
<1>6. ~Starting(th[0])
  BY DEF Starting, New
<1>. QED
  BY <1>3, <1>5, <1>6 DEF AllAccounted, Held, StartsSettled

LEMMA FoundAll ==
    ASSUME SearchInv, BOUND = 0, \A s \in seen : Released(s), ~Stopped,
           \A i \in 1..Len(model.starts) : Settled(model.starts[i])
    PROVE  seen = Reach(StartStates)
<1>. USE DEF SearchInv
<1>1. seen \subseteq States
  BY DEF Typed
<1>2. StartStates \subseteq seen
  BY DEF StartStates, Settled
<1>3. \A s \in seen \ model.raising : Successors(s) \subseteq seen
  BY DEF Released, BelowBound, Explored, Settled, Successors, Outcomes
<1>4. Wider(seen) \subseteq seen
  BY <1>3 DEF Wider
<1>5. Reach(StartStates) \subseteq seen
  BY <1>1, <1>2, <1>4 DEF Reach
<1>. QED
  BY <1>5 DEF FoundRight

LEMMA SearchIsComplete == SearchInv /\ BOUND = 0 => Complete
<1>. SUFFICES ASSUME SearchInv, BOUND = 0, Finished,
                     reports = {} \/ error_count < MAX_ERRORS
              PROVE  seen = ReachableStates
  BY DEF Complete, NotCutShort
<1>1. ~Stopped
  BY ModelFields DEF Stopped, SearchInv, Typed
<1>2. th[0].pc = "exited" /\ (phase = "run" => \A u \in Threads \ {0} : At(u, "exited"))
  BY DEF SearchInv, Ending, Finished, Joined
<1>. QED
  BY <1>1, <1>2, AllReleased, FoundAll DEF ReachableStates

\* A seen state is in one place only, and when it is in none its successors have
\* been found: whatever the threads, the bound and the errors (explore,
\* queue_dequeue, set_insert).
THEOREM ExploreNothingLost == Spec => [](TypeOK /\ NothingLost)
<1>1. SearchInv => TypeOK /\ NothingLost
  BY WellTyped, NothingIsLost
<1>. QED
  BY <1>1, ExploreSearchInvariant, PTL

\* Without a bound the search finds the reachable states, all of them and no others,
\* unless errors stop it (init, explore, queue_dequeue).
THEOREM ExploreSearchComplete == Spec => [](BOUND = 0 => SearchComplete)
<1>1. SearchInv => (BOUND = 0 => SearchComplete)
  BY WellTyped, NothingIsLost, SearchIsComplete DEF SearchComplete
<1>. QED
  BY <1>1, ExploreSearchInvariant, PTL
===============================================================================
