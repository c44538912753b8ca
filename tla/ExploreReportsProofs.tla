------------------------ MODULE ExploreReportsProofs ------------------------
(***************************************************************************)
(* Proofs about what the verifier prints: errors with their traces, and    *)
(* how many rules were fired; and about one thread: it finds shortest      *)
(* traces, and all that is within a bound.                                 *)
(***************************************************************************)
EXTENDS ExploreVerdictProofs

-----------------------------------------------------------------------------
(***************************************************************************)
(* Induction, with the sets of numbers something holds of.                 *)
(***************************************************************************)

LEMMA LeastOf ==
    ASSUME NEW T \in SUBSET Nat, T # {}
    PROVE  \E m \in T : \A k \in T : m <= k
<1>1. PICK m \in T : \A k \in T : ~(<<k, m>> \in OpToRel(<, Nat))
  BY NatLessThanWellFounded, WFMin
<1>2. T \subseteq Nat /\ m \in Nat
  OBVIOUS
<1>3. \A k \in T : ~(k < m)
  BY <1>1, <1>2, Zenon DEF OpToRel
<1>. QED
  BY <1>2, <1>3

LEMMA UpTo ==
    ASSUME NEW n \in Nat, NEW T, 0 \in T, \A k \in 0..n-1 : k \in T => k + 1 \in T
    PROVE  \A k \in 0..n : k \in T
<1>. DEFINE S == {k \in 0..n : k \notin T}
<1>. SUFFICES ASSUME S # {} PROVE FALSE
  OBVIOUS
<1>1. S \subseteq Nat
  OBVIOUS
<1>2. PICK m \in S : \A k \in S : m <= k
  <2>. HIDE DEF S
  <2>. QED
    BY <1>1, LeastOf
<1>3. m # 0 /\ m - 1 \in 0..n-1 /\ m - 1 \notin S
  BY <1>2
<1>. QED
  BY <1>2, <1>3

-----------------------------------------------------------------------------
(***************************************************************************)
(* The states a state was reached through.                                 *)
(***************************************************************************)

\* The rules that led to a state are those its struct names.
SourceRight ==
    \A s \in seen :
        IF node[s].previous = NoState
          THEN /\ node[s].rule_taken \in 1..Len(model.starts)
               /\ model.starts[node[s].rule_taken] = s
          ELSE /\ node[s].rule_taken \in 1..Rules
               /\ model.rule[node[s].previous][node[s].rule_taken] = s
\* The pointers to previous states do not go in circles.
Acyclic ==
    \A T \in SUBSET seen : T # {} => \E s \in T : node[s].previous \notin T

TraceInv == SourceRight /\ Acyclic /\ IsFiniteSet(seen)

LEMMA AncestorIs ==
    ASSUME NEW s, Cardinality(seen) \in Nat
    PROVE  /\ Ancestor(s)[0] = s
           /\ \A i \in 1..Cardinality(seen) : Ancestor(s)[i] = Previous(Ancestor(s)[i-1])
<1>. DEFINE Body(n, a) == [i \in 0..n |-> IF i = 0 THEN s ELSE Previous(a[i-1])]
            T == {n \in Nat : \E a : a = Body(n, a)}
<1>1. PICK N \in Nat : N = Cardinality(seen)
  OBVIOUS
<1>2. 0 \in T
  <2>1. PICK a : a = [i \in 0..0 |-> s]
    OBVIOUS
  <2>2. a = Body(0, a)
    BY <2>1
  <2>. QED
    BY <2>2
<1>3. ASSUME NEW n \in Nat, n \in T PROVE n + 1 \in T
  <2>1. PICK a : a = Body(n, a)
    BY <1>3
  <2>2. PICK b : b = [i \in 0..n+1 |-> IF i = n + 1 THEN Previous(a[n]) ELSE a[i]]
    OBVIOUS
  <2>3. b = Body(n + 1, b)
    <3>1. ASSUME NEW i \in 0..n+1
          PROVE  b[i] = IF i = 0 THEN s ELSE Previous(b[i-1])
      <4>1. CASE i = n + 1
        <5>1. i # 0 /\ i - 1 = n /\ n \in 0..n+1 /\ n # n + 1
          BY <4>1
        <5>. QED
          BY <2>2, <4>1, <5>1
      <4>2. CASE i = 0
        BY <2>1, <2>2, <4>2
      <4>3. CASE i # 0 /\ i # n + 1
        <5>1. i \in 0..n /\ i - 1 \in 0..n /\ i - 1 \in 0..n+1 /\ i - 1 # n + 1
          BY <4>3
        <5>2. a[i] = Previous(a[i-1])
          BY <2>1, <4>3, <5>1
        <5>. QED
          BY <2>2, <4>3, <5>1, <5>2
      <4>. QED
        BY <4>1, <4>2, <4>3
    <3>. QED
      BY <2>2, <3>1
  <2>. QED
    BY <2>3
<1>4. N \in T
  <2>. HIDE DEF T
  <2>1. \A k \in 0..N : k \in T
    BY <1>2, <1>3, UpTo
  <2>. QED
    BY <2>1
<1>5. \E a : a = Body(N, a)
  BY <1>4
<1>6. Ancestor(s) = Body(N, Ancestor(s))
  <2>1. Ancestor(s) = CHOOSE a : a = Body(N, a)
    BY <1>1 DEF Ancestor
  <2>. QED
    BY <1>5, <2>1
<1>. HIDE DEF Body
<1>7. \A i \in 0..N : Ancestor(s)[i] = IF i = 0 THEN s ELSE Previous(Ancestor(s)[i-1])
  BY <1>6 DEF Body
<1>. QED
  BY <1>1, <1>7

LEMMA PreviousIs ==
    ASSUME SearchInv
    PROVE  /\ \A x : Previous(x) \in seen \cup {NoState}
           /\ Previous(NoState) = NoState /\ NoState \notin seen
<1>1. NoState \notin seen
  BY ModelFields DEF SearchInv, Typed
<1>. QED
  BY <1>1 DEF Previous, SearchInv, FoundRight, Origin

\* Sooner or later the chain of previous states ends.
LEMMA ChainEnds ==
    ASSUME SearchInv, TraceInv, NEW s \in seen, NEW N \in Nat, N = Cardinality(seen),
           NEW a, a = Ancestor(s)
    PROVE  \E d \in 0..N : a[d] = NoState
<1>. USE DEF TraceInv
<1>. SUFFICES ASSUME \A d \in 0..N : a[d] # NoState PROVE FALSE
  OBVIOUS
<1>1. a[0] = s /\ \A i \in 1..N : a[i] = Previous(a[i-1])
  BY AncestorIs
<1>2. \A i \in 0..N : a[i] \in seen
  <2>1. ASSUME NEW i \in 0..N PROVE a[i] \in seen
    <3>1. CASE i = 0
      BY <1>1, <3>1
    <3>2. CASE i # 0
      <4>1. i \in 1..N
        BY <3>2
      <4>. QED
        BY <1>1, <4>1, PreviousIs
    <3>. QED
      BY <3>1, <3>2
  <2>. QED
    BY <2>1
<1>3. PICK f : f = [i \in 0..N |-> a[i]]
  OBVIOUS
<1>4. f \in [0..N -> seen]
  BY <1>2, <1>3
<1>5. IsFiniteSet(0..N) /\ Cardinality(0..N) = N + 1
  BY FS_Interval
<1>6. PICK i, j \in 0..N : i # j /\ f[i] = f[j]
  BY <1>4, <1>5, FS_PigeonHole
<1>7. ASSUME NEW x \in 0..N, NEW y \in 0..N, x < y, a[x] = a[y] PROVE FALSE
  <2>. DEFINE T == {a[k] : k \in x..y-1}
  <2>1. T \in SUBSET seen /\ a[x] \in T
    BY <1>2, <1>7
  <2>2. PICK u \in T : node[u].previous \notin T
    BY <2>1 DEF Acyclic
  <2>3. PICK k \in x..y-1 : u = a[k]
    BY <2>2
  <2>4. k \in 0..N /\ k + 1 \in 1..N /\ (k + 1) - 1 = k
    BY <1>7, <2>3
  <2>5. node[u].previous = a[k+1]
    BY <1>1, <1>2, <2>3, <2>4 DEF Previous
  <2>6. a[k+1] \in T
    BY <1>7, <2>1, <2>3
  <2>. QED
    BY <2>2, <2>5, <2>6
<1>8. a[i] = a[j] /\ (i < j \/ j < i)
  BY <1>3, <1>6
<1>. QED
  BY <1>7, <1>8

LEMMA DepthIs ==
    ASSUME SearchInv, TraceInv, NEW s \in seen, NEW a, a = Ancestor(s)
    PROVE  /\ Depth(s) \in Nat \ {0} /\ a[0] = s
           /\ \A i \in 0..Depth(s)-1 : a[i] \in seen
           /\ \A i \in 1..Depth(s) : a[i] = node[a[i-1]].previous
           /\ a[Depth(s)] = NoState
<1>. USE DEF TraceInv
<1>1. PICK N \in Nat : N = Cardinality(seen)
  BY FS_CardinalityType
<1>2. a[0] = s /\ \A i \in 1..N : a[i] = Previous(a[i-1])
  BY <1>1, AncestorIs
<1>. DEFINE Ends == {d \in 0..N : a[d] = NoState}
<1>3. Ends # {} /\ Ends \subseteq Nat
  BY <1>1, ChainEnds
<1>4. PICK d \in Ends : \A k \in Ends : d <= k
  <2>. HIDE DEF Ends
  <2>. QED
    BY <1>3, LeastOf
<1>5. d \in 0..N /\ a[d] = NoState /\ d # 0
  BY <1>2, <1>4, PreviousIs
<1>6. ASSUME NEW i \in 0..d-1 PROVE a[i] \in seen
  <2>1. i \in 0..N /\ ~(d <= i)
    BY <1>5
  <2>2. a[i] # NoState
    BY <1>4, <2>1
  <2>3. CASE i = 0
    BY <1>2, <2>3
  <2>4. CASE i # 0
    <3>1. i \in 1..N
      BY <2>1, <2>4
    <3>. QED
      BY <1>2, <2>2, <3>1, PreviousIs
  <2>. QED
    BY <2>3, <2>4
<1>7. ASSUME NEW i \in 1..d PROVE a[i] = node[a[i-1]].previous
  <2>1. i \in 1..N /\ i - 1 \in 0..d-1
    BY <1>5
  <2>. QED
    BY <1>2, <1>6, <2>1 DEF Previous
<1>8. \A i \in d..N : a[i] = NoState
  <2>. DEFINE T == {k \in 0..N-d : a[d+k] = NoState}
  <2>1. 0 \in T /\ N - d \in Nat
    BY <1>5
  <2>2. ASSUME NEW k \in 0..(N-d)-1, k \in T PROVE k + 1 \in T
    <3>1. d + (k + 1) \in 1..N /\ (d + (k + 1)) - 1 = d + k /\ k + 1 \in 0..N-d
      BY <1>5
    <3>2. a[d+k] = NoState
      BY <2>2
    <3>3. a[d + (k + 1)] = NoState
      BY <1>2, <3>1, <3>2, PreviousIs
    <3>. QED
      BY <3>1, <3>3
  <2>3. \A k \in 0..N-d : k \in T
    <3>. HIDE DEF T
    <3>. QED
      BY <2>1, <2>2, UpTo
  <2>4. ASSUME NEW i \in d..N PROVE a[i] = NoState
    <3>1. i - d \in 0..N-d /\ d + (i - d) = i
      BY <1>5
    <3>. QED
      BY <2>3, <3>1
  <2>. QED
    BY <2>4
<1>9. {i \in 0..N : a[i] # NoState} = 0..d-1
  <2>1. ASSUME NEW i \in 0..N PROVE a[i] # NoState <=> i \in 0..d-1
    <3>1. i \in 0..d-1 \/ i \in d..N
      BY <1>5
    <3>. QED
      BY <1>5, <1>6, <1>8, <3>1, PreviousIs
  <2>2. 0..d-1 \subseteq 0..N
    BY <1>5
  <2>. QED
    BY <2>1, <2>2
<1>10. Depth(s) = d
  <2>1. Cardinality(0..d-1) = d
    <3>1. 0 \in Int /\ d - 1 \in Int /\ ~(0 > d - 1)
      BY <1>5
    <3>2. Cardinality(0..d-1) = (d - 1) - 0 + 1
      BY <3>1, FS_Interval
    <3>. QED
      BY <1>5, <3>2
  <2>. QED
    BY <1>1, <1>9, <2>1 DEF Depth
<1>. QED
  BY <1>2, <1>5, <1>6, <1>7, <1>10

-----------------------------------------------------------------------------
(***************************************************************************)
(* Traces.                                                                 *)
(***************************************************************************)

TraceSteps == [rule : Nat \ {0}, state : SomeState]

\* What step i of a trace leads to, by the model.
Yields(trace, i) == IF i = 1 THEN model.starts[trace[i].rule]
                             ELSE model.rule[trace[i-1].state][trace[i].rule]
Led(trace, i) == Yields(trace, i) = trace[i].state /\ IsGood(trace[i].state)

LEMMA TraceIs ==
    ASSUME SearchInv, TraceInv, NEW s \in seen, NEW trace, trace = Trace(s)
    PROVE  /\ trace \in Seq(TraceSteps) /\ Len(trace) \in Nat \ {0}
           /\ trace[Len(trace)].state = s
           /\ \A i \in 1..Len(trace) : Led(trace, i)
<1>. USE DEF TraceInv
<1>1. PICK a, d : a = Ancestor(s) /\ d = Depth(s)
  OBVIOUS
<1>2. /\ d \in Nat \ {0} /\ a[0] = s /\ a[d] = NoState
      /\ \A i \in 0..d-1 : a[i] \in seen
      /\ \A i \in 1..d : a[i] = node[a[i-1]].previous
  BY <1>1, DepthIs
<1>3. trace = [i \in 1..d |-> [rule |-> node[a[d-i]].rule_taken, state |-> a[d-i]]]
  BY <1>1 DEF Trace
<1>4. \A i \in 1..d : /\ d - i \in 0..d-1 /\ a[d-i] \in seen
                      /\ trace[i].rule = node[a[d-i]].rule_taken /\ trace[i].state = a[d-i]
  BY <1>2, <1>3
<1>5. \A x \in seen : node[x].rule_taken \in Nat \ {0} /\ x \in SomeState
  BY DEF SearchInv, Typed, Structs, SomeState
<1>6. trace \in [1..d -> TraceSteps]
  BY <1>3, <1>4, <1>5 DEF TraceSteps
<1>7. trace \in Seq(TraceSteps) /\ Len(trace) = d
  BY <1>2, <1>6
<1>8. trace[d].state = s
  <2>1. d \in 1..d /\ d - d = 0
    BY <1>2
  <2>. QED
    BY <1>2, <1>4, <2>1
<1>9. ASSUME NEW i \in 1..d PROVE Led(trace, i)
  <2>1. PICK x \in seen : x = a[d-i]
    BY <1>4
  <2>2. trace[i].rule = node[x].rule_taken /\ trace[i].state = x /\ IsGood(x)
    BY <1>4, <2>1, SeenIsGood
  <2>3. (d - i) + 1 \in 1..d /\ ((d - i) + 1) - 1 = d - i
    BY <1>2
  <2>4. node[x].previous = a[(d-i)+1]
    BY <1>2, <2>1, <2>3
  <2>5. CASE i = 1
    <3>1. node[x].previous = NoState
      BY <1>2, <2>4, <2>5
    <3>2. model.starts[node[x].rule_taken] = x
      BY <3>1 DEF SourceRight
    <3>. QED
      BY <2>2, <2>5, <3>2 DEF Led, Yields
  <2>6. CASE i # 1
    <3>1. i - 1 \in 1..d /\ d - (i - 1) = (d - i) + 1
      BY <1>2, <2>6
    <3>2. trace[i-1].state = node[x].previous
      BY <1>4, <2>4, <3>1
    <3>3. node[x].previous \in seen /\ NoState \notin seen
      BY <1>4, <3>1, <3>2, PreviousIs
    <3>4. model.rule[node[x].previous][node[x].rule_taken] = x
      BY <3>3 DEF SourceRight
    <3>. QED
      BY <2>2, <2>6, <3>2, <3>4 DEF Led, Yields
  <2>. QED
    BY <2>5, <2>6
<1>. QED
  BY <1>2, <1>7, <1>8, <1>9

LEMMA SourcesStay ==
    ASSUME SearchInv, NEW t \in Threads, Step(t), ~InsertNew(t)
    PROVE  /\ model' = model /\ seen' = seen
           /\ \A s \in seen : /\ node'[s].previous = node[s].previous
                              /\ node'[s].rule_taken = node[s].rule_taken
                              /\ node'[s].bound = node[s].bound
<1>. USE DEF SearchInv
<1>1. node \in [seen -> Structs]
  BY DEF Typed
<1>2. CASE MarkLiveness(t)
  <2>1. model' = model /\ \E L : node' = [node EXCEPT ![th[t].at].liveness = L]
    BY <1>2 DEF MarkLiveness
  <2>2. PICK L : node' = [node EXCEPT ![th[t].at].liveness = L]
    BY <2>1
  <2>. QED
    BY <1>1, <2>1, <2>2 DEF seen, Structs
<1>3. CASE Learn(t)
  <2>1. PICK s \in seen, n \in States :
          node' = [x \in seen |->
                     [node[x] EXCEPT !.liveness =
                        node[x].liveness \cup {p \in Learns(s, n) : x \in Reached(s, p)}]]
    BY <1>3 DEF Learn
  <2>2. model' = model
    BY <1>3 DEF Learn
  <2>. QED
    BY <1>1, <2>1, <2>2 DEF seen, Structs
<1>4. CASE Join(t) \/ Summarise(t)
  <2>1. UNCHANGED <<model, node>>
    BY <1>4 DEF Join, Summarise
  <2>. QED
    BY <2>1 DEF seen
<1>5. CASE ~(MarkLiveness(t) \/ Learn(t) \/ Join(t) \/ Summarise(t))
  <2>1. UNCHANGED <<model, node>>
    BY <1>5, StepsQuiet DEF Quiet
  <2>. QED
    BY <2>1 DEF seen
<1>. QED
  BY <1>2, <1>3, <1>4, <1>5

LEMMA InsertNewTraces ==
    ASSUME SearchInv, TraceInv, NEW t \in Threads, InsertNew(t)
    PROVE  TraceInv'
<1>. USE DEF TraceInv
<1>1. PICK l, n : l = th[t] /\ n = Outcome(t)
  OBVIOUS
<1>2. /\ InInit(t) \/ InRules(t)
      /\ n \in States \ seen /\ model' = model
  BY <1>1, InsertNewIs
<1>3. PICK struct : struct = [previous |-> l.s, rule_taken |-> l.rule_taken,
                              bound |-> NewBound(t), liveness |-> {}]
  OBVIOUS
<1>4. node' = [z \in seen \cup {n} |-> IF z = n THEN struct ELSE node[z]]
  BY <1>1, <1>3, InsertNewIs
<1>5. /\ seen' = seen \cup {n} /\ node'[n] = struct
      /\ \A z \in seen : node'[z] = node[z]
  BY <1>2, <1>4 DEF seen
<1>6. /\ l.s \in seen \cup {NoState}
      /\ IF l.s = NoState
           THEN l.rule_taken \in 1..Len(model.starts) /\ model.starts[l.rule_taken] = n
           ELSE l.rule_taken \in 1..Rules /\ model.rule[l.s][l.rule_taken] = n
  <2>1. CASE l.pc = "init"
    <3>1. l.s = NoState
      BY <1>1, <2>1 DEF SearchInv, ThreadsOK, ThreadOK, Shaped
    <3>. QED
      BY <1>1, <1>2, <2>1, <3>1, OutcomeIs
  <2>2. CASE l.pc = "rule"
    <3>1. l.s # NoState
      BY <1>1, <2>2 DEF SearchInv, ThreadsOK, ThreadOK, Shaped
    <3>. QED
      BY <1>1, <1>2, <2>2, <3>1, OutcomeIs
  <2>. QED
    BY <1>1, <1>2, <2>1, <2>2, OutcomeIs
<1>7. SourceRight'
  <2>1. SourceRight
    OBVIOUS
  <2>. QED
    BY <1>2, <1>3, <1>5, <1>6, <2>1 DEF SourceRight
<1>8. Acyclic'
  <2>1. ASSUME NEW T \in SUBSET (seen \cup {n}), T # {}
        PROVE  \E s \in T : node'[s].previous \notin T
    <3>1. CASE T \cap seen = {}
      <4>1. T = {n}
        BY <2>1, <3>1
      <4>2. node'[n].previous # n
        BY <1>2, <1>3, <1>5, <1>6, ModelFields DEF SearchInv, Typed
      <4>. QED
        BY <4>1, <4>2
    <3>2. CASE T \cap seen # {}
      <4>1. PICK s \in T \cap seen : node[s].previous \notin T \cap seen
        BY <3>2 DEF Acyclic
      <4>2. node[s].previous = NoState \/ node[s].previous \in seen
        BY DEF SearchInv, FoundRight, Origin
      <4>3. NoState \notin T
        BY <1>2, ModelFields DEF SearchInv, Typed
      <4>. QED
        BY <1>5, <4>1, <4>2, <4>3
    <3>. QED
      BY <3>1, <3>2
  <2>. QED
    BY <1>5, <2>1 DEF Acyclic
<1>9. IsFiniteSet(seen)'
  BY <1>5, FS_AddElement
<1>. QED
  BY <1>7, <1>8, <1>9

LEMMA TraceInvNext == SearchInv /\ TraceInv /\ [Next]_vars => TraceInv'
<1>. SUFFICES ASSUME SearchInv, TraceInv, [Next]_vars PROVE TraceInv'
  OBVIOUS
<1>1. ASSUME model' = model, seen' = seen,
             \A s \in seen : /\ node'[s].previous = node[s].previous
                             /\ node'[s].rule_taken = node[s].rule_taken
      PROVE  TraceInv'
  BY <1>1 DEF TraceInv, SourceRight, Acyclic
<1>2. CASE UNCHANGED vars
  BY <1>1, <1>2 DEF vars, seen
<1>3. ASSUME NEW t \in Threads, Step(t) PROVE TraceInv'
  <2>1. CASE InsertNew(t)
    BY <2>1, InsertNewTraces
  <2>2. CASE ~InsertNew(t)
    BY <1>1, <1>3, <2>2, SourcesStay
  <2>. QED
    BY <2>1, <2>2
<1>. QED
  BY <1>2, <1>3 DEF Next, Done

LEMMA TraceInvInit == Init => TraceInv
BY FS_EmptySet DEF Init, TraceInv, SourceRight, Acyclic, seen

-----------------------------------------------------------------------------
(***************************************************************************)
(* The errors that are reported.                                           *)
(***************************************************************************)

Real(kind, trace) ==
    LET last == Len(trace)
    IN  /\ last > 0 /\ \A i \in 1..last-1 : Led(trace, i)
        /\ kind = "invariant" => /\ Yields(trace, last) = trace[last].state
                                 /\ Violation(trace[last].state)
        /\ kind = "property" => trace[last].state \in model.raising
        /\ kind = "deadlock" => IsDeadlock(trace[last].state)
        /\ kind \notin {"invariant", "property", "deadlock"} => Yields(trace, last) = kind
AllReal == \A report \in reports : Real(report.kind, report.trace)

\* The start state or rule at the end of a trace is the one with local variables l.
OfRule(l, trace) ==
    /\ trace[Len(trace)].rule = l.rule_taken
    /\ IF l.pc = "init" THEN Len(trace) = 1
                        ELSE Len(trace) > 1 /\ trace[Len(trace)-1].state = l.s
\* What an error is about, of a thread with local variables l.
About(l, kind, trace) ==
    \/ l.pc \in {"init", "rule"} /\ kind \notin {"property", "deadlock"} /\ OfRule(l, trace)
    \/ l.pc = "raise" /\ kind = "property" /\ trace[Len(trace)].state = l.n
    \/ l.pc = "rule" /\ kind = "deadlock" /\ trace[Len(trace)].state = l.s

LEMMA NewTraceIs ==
    ASSUME SearchInv, TraceInv, NEW t \in Threads, InInit(t) \/ InRules(t),
           NEW n \in SomeState, NEW trace, trace = NewTrace(t, n)
    PROVE  /\ Len(trace) \in Nat \ {0} /\ trace[Len(trace)].state = n
           /\ \A i \in 1..Len(trace)-1 : Led(trace, i)
           /\ Yields(trace, Len(trace)) = Outcome(t)
           /\ OfRule(th[t], trace)
<1>1. PICK l, step : l = th[t] /\ step = [rule |-> l.rule_taken, state |-> n]
  OBVIOUS
<1>2. l.rule_taken \in Nat \ {0} /\ l.pc \in {"init", "rule"}
  BY <1>1, OutcomeIs DEF Locals
<1>3. step \in TraceSteps /\ step.rule = l.rule_taken /\ step.state = n
  BY <1>1, <1>2 DEF TraceSteps
<1>4. CASE l.pc = "init"
  <2>1. trace = <<step>>
    BY <1>1, <1>4 DEF NewTrace, At
  <2>2. Len(trace) = 1 /\ trace[1] = step
    BY <2>1
  <2>3. Outcome(t) = model.starts[l.rule_taken]
    BY <1>1, <1>4, OutcomeIs
  <2>4. Yields(trace, 1) = Outcome(t)
    BY <1>3, <2>2, <2>3 DEF Yields
  <2>5. \A i \in 1..Len(trace)-1 : FALSE
    BY <2>2
  <2>. QED
    BY <1>1, <1>3, <1>4, <2>2, <2>4, <2>5 DEF OfRule
<1>5. CASE l.pc = "rule"
  <2>1. PICK s \in seen : s = l.s
    BY <1>1, <1>5, OutcomeIs
  <2>2. PICK base : base = Trace(s)
    OBVIOUS
  <2>3. /\ base \in Seq(TraceSteps) /\ Len(base) \in Nat \ {0} /\ base[Len(base)].state = s
        /\ \A i \in 1..Len(base) : Led(base, i)
    BY <2>2, TraceIs
  <2>4. trace = Append(base, step)
    BY <1>1, <1>5, <2>1, <2>2 DEF NewTrace, At
  <2>5. PICK d \in Nat \ {0} : d = Len(base)
    BY <2>3
  <2>6. Len(trace) = d + 1 /\ trace[d+1] = step /\ \A i \in 1..d : trace[i] = base[i]
    BY <1>3, <2>3, <2>4, <2>5
  <2>7. ASSUME NEW i \in 1..d PROVE Led(trace, i)
    <3>1. Led(base, i)
      BY <2>3, <2>5
    <3>2. CASE i = 1
      BY <2>6, <3>1, <3>2 DEF Led, Yields
    <3>3. CASE i # 1
      <4>1. i - 1 \in 1..d
        BY <3>3
      <4>. QED
        BY <2>6, <3>1, <3>3, <4>1 DEF Led, Yields
    <3>. QED
      BY <3>2, <3>3
  <2>8. trace[d].state = s /\ (d + 1) - 1 = d /\ d + 1 # 1 /\ d \in 1..d
    BY <2>3, <2>5, <2>6
  <2>9. Yields(trace, d + 1) = Outcome(t)
    <3>1. Outcome(t) = model.rule[l.s][l.rule_taken]
      BY <1>1, <1>5, OutcomeIs
    <3>. QED
      BY <1>3, <2>1, <2>6, <2>8, <3>1 DEF Yields
  <2>. QED
    BY <1>1, <1>3, <1>5, <2>1, <2>5, <2>6, <2>7, <2>8, <2>9 DEF OfRule
<1>. QED
  BY <1>2, <1>4, <1>5

LEMMA ErrorIs ==
    ASSUME SearchInv, TraceInv, NEW t \in Threads, Step(t),
           FailRule(t) \/ FailProperty(t)
             \/ (EndRules(t) /\ DEADLOCK_DETECTION # "off" /\ th[t].possible_deadlock)
    PROVE  \E kind, trace, l :
              Error(t, kind, trace, l) /\ Real(kind, trace) /\ About(th[t], kind, trace)
<1>. USE DEF SearchInv
<1>1. CASE FailRule(t)
  <2>1. InInit(t) \/ InRules(t)
    BY <1>1 DEF FailRule
  <2>2. Outcome(t) \in States \cup NotStates /\ model \in Models /\ th[t].pc \in {"init", "rule"}
    BY <2>1, OutcomeIs DEF Typed
  <2>3. PICK o \in States \cup NotStates : o = Outcome(t)
    BY <2>2
  <2>4. CASE o \in {GuardError, RuleError}
             /\ Error(t, o, NewTrace(t, NoState), NextRule(th[t]))
    <3>1. PICK trace : trace = NewTrace(t, NoState)
      OBVIOUS
    <3>2. /\ Len(trace) \in Nat \ {0} /\ \A i \in 1..Len(trace)-1 : Led(trace, i)
          /\ Yields(trace, Len(trace)) = o /\ OfRule(th[t], trace)
      BY <2>1, <2>3, <3>1, NewTraceIs DEF SomeState
    <3>3. o \notin {"invariant", "property", "deadlock"}
      BY <2>4 DEF GuardError, RuleError
    <3>. QED
      BY <2>2, <2>4, <3>1, <3>2, <3>3 DEF Real, About
  <2>5. CASE /\ MeetsAssumptions(o) /\ ~MeetsInvariants(o)
             /\ Error(t, "invariant", NewTrace(t, o), NextRule(AfterRule(t)))
    <3>1. o \in States /\ Violation(o)
      BY <2>2, <2>5, OutcomeFacts DEF Violation, MeetsAssumptions, MeetsInvariants
    <3>2. PICK trace : trace = NewTrace(t, o)
      OBVIOUS
    <3>3. /\ Len(trace) \in Nat \ {0} /\ \A i \in 1..Len(trace)-1 : Led(trace, i)
          /\ trace[Len(trace)].state = o
          /\ Yields(trace, Len(trace)) = o /\ OfRule(th[t], trace)
      BY <2>1, <2>3, <3>1, <3>2, NewTraceIs DEF SomeState
    <3>. QED
      BY <2>2, <2>5, <3>1, <3>2, <3>3 DEF Real, About
  <2>. QED
    BY <1>1, <2>3, <2>4, <2>5 DEF FailRule
<1>2. CASE FailProperty(t)
  <2>1. /\ th[t].pc = "raise" /\ ThreadOK(t, th[t])
        /\ Error(t, "property", Trace(th[t].n), NextRule(th[t]))
    BY <1>2 DEF FailProperty, At, ThreadsOK
  <2>2. PICK n \in seen \cap model.raising : n = th[t].n
    BY <2>1 DEF ThreadOK, Shaped, Known, New
  <2>3. PICK trace : trace = Trace(n)
    OBVIOUS
  <2>4. Real("property", trace) /\ trace[Len(trace)].state = n
    <3>1. /\ Len(trace) \in Nat \ {0} /\ trace[Len(trace)].state = n
          /\ \A i \in 1..Len(trace) : Led(trace, i)
      BY <2>3, TraceIs
    <3>. QED
      BY <2>2, <3>1 DEF Real
  <2>. QED
    BY <2>1, <2>2, <2>3, <2>4 DEF About
<1>3. CASE EndRules(t) /\ DEADLOCK_DETECTION # "off" /\ th[t].possible_deadlock
  <2>1. /\ th[t].pc = "rule" /\ th[t] \in Locals /\ ThreadOK(t, th[t]) /\ model \in Models
        /\ th[t].rule_taken > Rules
        /\ \E l : Error(t, "deadlock", Trace(th[t].s), l)
    BY <1>3 DEF EndRules, At, Typed, ThreadsOK
  <2>2. PICK l : l = th[t]
    OBVIOUS
  <2>3. Expands(l) /\ l.s \in seen
    BY <2>1, <2>2 DEF ThreadOK, Shaped, Known, Expands, Active
  <2>4. \A r \in 1..Rules : Ran(l, r)
    BY <2>1, <2>2, ModelFields DEF Ran, Locals
  <2>5. Moving(l.s) = {}
    <3>1. Moving(l.s) \subseteq 1..Rules
      BY DEF Moving, Firing
    <3>. QED
      BY <1>3, <2>1, <2>2, <2>3, <2>4, <3>1 DEF ThreadOK, Progress
  <2>6. IsDeadlock(l.s)
    BY <1>3, <2>5 DEF IsDeadlock
  <2>7. PICK trace : trace = Trace(l.s)
    OBVIOUS
  <2>8. Real("deadlock", trace) /\ trace[Len(trace)].state = l.s
    <3>1. /\ Len(trace) \in Nat \ {0} /\ trace[Len(trace)].state = l.s
          /\ \A i \in 1..Len(trace) : Led(trace, i)
      BY <2>3, <2>7, TraceIs
    <3>. QED
      BY <2>6, <3>1 DEF Real
  <2>. QED
    BY <2>1, <2>2, <2>7, <2>8 DEF About
<1>. QED
  BY <1>1, <1>2, <1>3

\* The step reports an error.
Fails(t) == FailRule(t) \/ FailProperty(t)
              \/ (EndRules(t) /\ DEADLOCK_DETECTION # "off" /\ th[t].possible_deadlock)

LEMMA OthersReportNothing ==
    ASSUME NEW t \in Threads, Step(t), ~Fails(t)
    PROVE  reports' = reports /\ model' = model
<1>1. CASE EndRules(t)
  BY SMTT(30), <1>1 DEF EndRules, Fails
<1>2. CASE ~EndRules(t)
  BY <1>2 DEF Fails, Step, DiscardState, InsertDuplicate, InsertNew, MarkLiveness, Enqueue,
              EndInit, LoopTop, Dequeue, DequeueNothing, Exit, Join, Learn, Summarise
<1>. QED
  BY <1>1, <1>2

LEMMA RealKept ==
    ASSUME model' = model, NEW kind, NEW trace
    PROVE  Real(kind, trace)' <=> Real(kind, trace)
<1>1. \A i : Yields(trace, i)' = Yields(trace, i)
  BY DEF Yields
<1>2. \A i : Led(trace, i)' <=> Led(trace, i)
  BY <1>1, ModelKept DEF Led
<1>. QED
  BY <1>1, <1>2, ModelKept DEF Real

LEMMA AllRealNext == SearchInv /\ TraceInv /\ AllReal /\ [Next]_vars => AllReal'
<1>. SUFFICES ASSUME SearchInv, TraceInv, AllReal, [Next]_vars PROVE AllReal'
  OBVIOUS
<1>1. CASE reports' = reports /\ model' = model
  <2>1. ASSUME NEW report \in reports PROVE Real(report.kind, report.trace)'
    <3>1. PICK kind, trace : kind = report.kind /\ trace = report.trace
      OBVIOUS
    <3>2. Real(kind, trace)'
      BY <1>1, <3>1, RealKept DEF AllReal
    <3>. QED
      BY <3>1, <3>2
  <2>. QED
    BY <1>1, <2>1 DEF AllReal
<1>2. ASSUME NEW t \in Threads, Step(t), Fails(t) PROVE AllReal'
  <2>1. PICK kind, trace, l : Error(t, kind, trace, l) /\ Real(kind, trace)
    BY <1>2, ErrorIs DEF Fails
  <2>2. model' = model /\ reports' \subseteq reports \cup {[kind |-> kind, trace |-> trace]}
    BY <2>1 DEF Error
  <2>3. ASSUME NEW report \in reports' PROVE Real(report.kind, report.trace)'
    <3>1. PICK k, tr : k = report.kind /\ tr = report.trace
      OBVIOUS
    <3>2. Real(k, tr)
      BY <2>1, <2>2, <2>3, <3>1 DEF AllReal
    <3>3. Real(k, tr)'
      BY <2>2, <3>2, RealKept
    <3>. QED
      BY <3>1, <3>3
  <2>. QED
    BY <2>3 DEF AllReal
<1>3. CASE UNCHANGED vars
  BY <1>1, <1>3 DEF vars
<1>4. ASSUME NEW t \in Threads, Step(t) PROVE AllReal'
  BY <1>1, <1>2, <1>4, OthersReportNothing
<1>. QED
  BY <1>3, <1>4 DEF Next, Done

\* Every error that is printed is one of the model, with a trace the model can follow
\* to it from a start state (error, print_counterexample).
THEOREM ExploreReportsReal == Spec => []ReportsReal
<1>1. Init => TraceInv /\ AllReal
  BY TraceInvInit DEF Init, AllReal
<1>2. SearchInv /\ TraceInv /\ AllReal /\ [Next]_vars => TraceInv' /\ AllReal'
  BY SMTT(30), TraceInvNext, AllRealNext
<1>3. AllReal => ReportsReal
  BY DEF AllReal, Real, Led, Yields, ReportsReal
<1>. QED
  BY <1>1, <1>2, <1>3, ExploreSearchInvariant, PTL DEF Spec

-----------------------------------------------------------------------------
(***************************************************************************)
(* The rules that have been run.                                           *)
(***************************************************************************)

\* s waits for rule r: in a queue, or in a hand.
Waits(l, s, r) == s = l.n \/ (s = l.s /\ l.pc \in Active /\ ~Ran(l, r))
InQueue(s) == \E k \in Threads : s \in Elements(queue[k])
RunOn(s, r) ==
    /\ s \in seen /\ s \notin model.raising /\ BelowBound(s)
    /\ ~InQueue(s) /\ \A u \in Threads : ~Waits(th[u], s, r)
Fired == {p \in States \X (1..Rules) : RunOn(p[1], p[2]) /\ p[2] \in Firing(p[1])}

\* The thread runs a rule, and counts it.
Runs(t) == th[t].pc = "rule" /\ (DiscardState(t) \/ FailRule(t) \/ InsertDuplicate(t) \/ InsertNew(t))
Counts(t) == Runs(t) /\ Outcome(t) \in States

\* What a step of thread t means for the rules that have been run: it may have run one.
Passes(t) ==
    /\ model' = model
    /\ \A s \in States, r \in 1..Rules :
          RunOn(s, r)' <=> RunOn(s, r) \/ (Runs(t) /\ s = th[t].s /\ r = th[t].rule_taken)

Early(l) == Starting(l) \/ l.pc = "unborn"
HandedIn(l) == l.pc \in {"unborn", "join", "learn", "exited"}
Tally(t) ==
    /\ \A u \in Threads :
          \/ th'[u].fired = IF u = t /\ Counts(t) THEN th[u].fired + 1 ELSE th[u].fired
          \/ Early(th[u]) /\ ~Counts(t) /\ th'[u].fired = 0
    /\ \A u \in Threads : Early(th'[u]) => Early(th[u])
    /\ rules_fired' \in [Threads -> Nat]
    /\ \A u \in Threads : HandedIn(th'[u]) =>
          \/ rules_fired'[u] = th'[u].fired
          \/ HandedIn(th[u]) /\ rules_fired'[u] = rules_fired[u] /\ th'[u].fired = th[u].fired

\* What a thread waits with is in its hands, and in no other's.
LEMMA WaitsInHand ==
    ASSUME NEW l, NEW s \in States, NEW r, Waits(l, s, r), model \in Models
    PROVE  s \in InHand(l)
<1>1. s # NoState
  BY ModelFields
<1>. QED
  BY <1>1 DEF Waits, InHand

LEMMA FollowsWaits ==
    ASSUME SearchInv, NEW t \in Threads, NEW l, l = th[t], NEW x, Follows(l, x),
           l.pc \in New \cup {"init", "rule"}, NEW s \in States, NEW r \in 1..Rules
    PROVE  /\ l.pc \in New => (Waits(x, s, r) <=> Waits(l, s, r) /\ s # l.n)
           /\ l.pc \notin New =>
                (Waits(x, s, r) <=>
                   Waits(l, s, r) /\ ~(l.pc = "rule" /\ s = l.s /\ r = l.rule_taken))
<1>1. /\ l \in Locals /\ x \in Locals /\ ThreadOK(t, l) /\ s # NoState
  BY ModelFields DEF SearchInv, Typed, ThreadsOK, Follows
<1>2. /\ x.pc = IF l.s = NoState THEN "init" ELSE "rule"
      /\ x.s = l.s /\ x.rule_taken = l.rule_taken + 1 /\ x.n = NoState
  BY DEF Follows
<1>3. x.pc \notin New /\ r \in Nat
  BY <1>2, ModelFields DEF New, SearchInv, Typed
<1>4. /\ Ran(x, r) <=> Ran(l, r) \/ r = l.rule_taken
      /\ l.pc \in New => Ran(l, l.rule_taken)
      /\ l.pc \notin New /\ Ran(l, r) => r # l.rule_taken
  BY <1>1, <1>2, <1>3, RanBefore
<1>5. Waits(x, s, r) <=> s = l.s /\ ~Ran(x, r)
  BY <1>1, <1>2 DEF Waits, Active
<1>6. CASE l.pc \in New
  <2>1. l.s # NoState => l.s # l.n
    BY <1>1, <1>6 DEF ThreadOK, Shaped, Expands, Active
  <2>2. Waits(l, s, r) <=> s = l.n \/ (s = l.s /\ ~Ran(l, r))
    BY <1>6 DEF Waits, Active
  <2>. QED
    BY <1>1, <1>4, <1>5, <1>6, <2>1, <2>2
<1>7. CASE l.pc \notin New
  <2>1. l.n = NoState /\ (l.pc = "init" => l.s = NoState)
    BY <1>1, <1>7 DEF ThreadOK, Shaped
  <2>2. Waits(l, s, r) <=> s = l.s /\ l.pc = "rule" /\ ~Ran(l, r)
    BY <1>1, <1>7, <2>1 DEF Waits, Active
  <2>. QED
    BY <1>1, <1>4, <1>5, <1>7, <2>1, <2>2
<1>. QED
  BY <1>6, <1>7

\* A step of thread t, in which each state passes from where it was, to where it is
\* then.
LEMMA RunsPass ==
    ASSUME SearchInv, NEW t \in Threads, NEW l, l = th[t], NEW x, x = th'[t],
           model' = model, seen \subseteq seen', seen' \subseteq States,
           \A s \in seen : node'[s].bound = node[s].bound,
           \A u \in Threads \ {t} : \A s \in States, r \in 1..Rules :
              Waits(th'[u], s, r) <=> Waits(th[u], s, r),
           \A s \in seen' \ seen, r \in 1..Rules : Waits(x, s, r),
           \A s \in seen, r \in 1..Rules :
              s \notin model.raising /\ BelowBound(s) =>
                 (InQueue(s)' \/ Waits(x, s, r) <=>
                    (InQueue(s) \/ Waits(l, s, r))
                      /\ ~(Runs(t) /\ s = l.s /\ r = l.rule_taken))
    PROVE  Passes(t)
<1>. USE DEF SearchInv
<1>1. /\ l \in Locals /\ ThreadOK(t, l) /\ model \in Models /\ seen \subseteq States
      /\ Threads' = Threads
  BY ModelKept DEF Typed, ThreadsOK
<1>2. \A s \in seen : BelowBound(s)' <=> BelowBound(s)
  BY ModelKept DEF BelowBound
<1>3. ASSUME NEW s \in States, NEW r \in 1..Rules, s \notin seen
      PROVE  ~RunOn(s, r)' /\ ~RunOn(s, r) /\ ~(Runs(t) /\ s = l.s)
  <2>1. ~RunOn(s, r)
    BY <1>3 DEF RunOn
  <2>2. ~RunOn(s, r)'
    BY <1>1, <1>3 DEF RunOn
  <2>3. ~(Runs(t) /\ s = l.s)
    BY <1>1, <1>3, ModelFields DEF Runs, ThreadOK, Known
  <2>. QED
    BY <2>1, <2>2, <2>3
<1>4. ASSUME NEW s \in seen, NEW r \in 1..Rules
      PROVE  RunOn(s, r)' <=> RunOn(s, r) \/ (Runs(t) /\ s = l.s /\ r = l.rule_taken)
  <2>. DEFINE Fit == s \notin model.raising /\ BelowBound(s)
              Elsewhere == \E u \in Threads \ {t} : Waits(th[u], s, r)
              Here == InQueue(s) \/ Waits(l, s, r)
              There == InQueue(s)' \/ Waits(x, s, r)
              Now == Runs(t) /\ s = l.s /\ r = l.rule_taken
  <2>1. RunOn(s, r) <=> Fit /\ ~Here /\ ~Elsewhere
    BY <1>1 DEF RunOn
  <2>2. RunOn(s, r)' <=> Fit /\ ~There /\ ~Elsewhere
    BY <1>1, <1>2 DEF RunOn
  <2>3. Fit => (There <=> Here /\ ~Now)
    OBVIOUS
  <2>4. Now => Fit /\ ~Elsewhere
    <3>. SUFFICES ASSUME Now PROVE Fit /\ ~Elsewhere
      OBVIOUS
    <3>1. s # NoState /\ l.pc = "rule" /\ s = l.s
      BY <1>1, ModelFields DEF Runs
    <3>2. Fit /\ s \in InHand(l)
      BY <1>1, <3>1 DEF ThreadOK, Known, Expands, Active, InHand
    <3>3. \A u \in Threads \ {t} : s \notin InHand(th[u])
      BY <3>2 DEF HandsApart
    <3>. QED
      BY <1>1, <3>2, <3>3, WaitsInHand
  <2>. HIDE DEF Fit, Elsewhere, Here, There, Now
  <2>5. RunOn(s, r)' <=> RunOn(s, r) \/ Now
    BY <2>1, <2>2, <2>3, <2>4
  <2>. QED
    BY <2>5 DEF Now
<1>. QED
  BY <1>3, <1>4 DEF Passes

\* Nothing moves but a thread without states to put down, or within what it holds.
LEMMA SamePass ==
    ASSUME SearchInv, NEW t \in Threads, NEW l, l = th[t], NEW x, th' = [th EXCEPT ![t] = x],
           UNCHANGED <<model, queue>>, seen' = seen,
           \A s \in seen : node'[s].bound = node[s].bound, ~Runs(t),
           \A s \in States, r \in 1..Rules : Waits(x, s, r) <=> Waits(l, s, r)
    PROVE  Passes(t)
<1>1. /\ th'[t] = x /\ \A u \in Threads \ {t} : th'[u] = th[u]
      /\ seen \subseteq States /\ Threads' = Threads
  BY ModelKept DEF SearchInv, Typed
<1>2. \A s : InQueue(s)' <=> InQueue(s)
  BY <1>1 DEF InQueue
<1>. QED
  BY <1>1, <1>2, RunsPass

LEMMA TallyMove ==
    ASSUME SearchInv, NEW t \in Threads, NEW l, l = th[t], NEW x, th' = [th EXCEPT ![t] = x],
           rules_fired' = rules_fired,
           \/ x.fired = IF Counts(t) THEN l.fired + 1 ELSE l.fired
           \/ Early(l) /\ ~Counts(t) /\ x.fired = 0,
           Early(x) => Early(l), ~HandedIn(x) \/ (HandedIn(l) /\ x.fired = l.fired)
    PROVE  Tally(t)
<1>1. /\ th'[t] = x /\ \A u \in Threads \ {t} : th'[u] = th[u]
      /\ rules_fired \in [Threads -> Nat]
  BY DEF SearchInv, Typed
<1>. QED
  BY <1>1 DEF Tally

LEMMA RulePasses ==
    ASSUME SearchInv, NEW t \in Threads, NEW l, l = th[t], InInit(t) \/ InRules(t),
           NEW x, Follows(l, x), UNCHANGED <<model, node, queue, rules_fired>>,
           th' = [th EXCEPT ![t] = x], Runs(t) <=> l.pc = "rule",
           x.fired = IF l.pc = "rule" /\ Outcome(t) \in States THEN l.fired + 1 ELSE l.fired
    PROVE  Passes(t) /\ Tally(t)
<1>1. /\ th'[t] = x /\ \A u \in Threads \ {t} : th'[u] = th[u]
      /\ seen \subseteq States /\ Threads' = Threads /\ seen' = seen
      /\ l \in Locals /\ ThreadOK(t, l)
  BY ModelKept DEF SearchInv, Typed, ThreadsOK, seen
<1>2. \A s : InQueue(s)' <=> InQueue(s)
  BY <1>1 DEF InQueue
<1>3. l.pc \in {"init", "rule"} /\ l.pc \notin New
  BY OutcomeIs DEF New
<1>4. \A s \in States, r \in 1..Rules :
         Waits(x, s, r) <=> Waits(l, s, r) /\ ~(l.pc = "rule" /\ s = l.s /\ r = l.rule_taken)
  BY <1>3, FollowsWaits
<1>5. ASSUME NEW s \in seen, InQueue(s) PROVE ~(Runs(t) /\ s = l.s)
  <2>. SUFFICES ASSUME l.pc = "rule", s = l.s PROVE FALSE
    BY <1>5
  <2>1. s # NoState
    BY <1>1, ModelFields DEF SearchInv, Typed
  <2>2. s \in InHand(l)
    BY <2>1 DEF InHand, Active
  <2>. QED
    BY <1>5, <2>2 DEF InQueue, SearchInv, HandsApart
<1>6. Passes(t)
  BY <1>1, <1>2, <1>4, <1>5, RunsPass
<1>7. (Early(x) => Early(l)) /\ ~HandedIn(x)
  BY <1>1, <1>3 DEF Early, HandedIn, Follows, Starting, New, ThreadOK, Shaped
<1>8. Counts(t) <=> l.pc = "rule" /\ Outcome(t) \in States
  BY DEF Counts
<1>. QED
  BY <1>6, <1>7, <1>8, TallyMove

\* What next rule and what was run say of the number of rules fired.
LEMMA FiredFields ==
    ASSUME SearchInv, NEW t \in Threads, NEW l, l = th[t]
    PROVE  /\ NextRule(l).fired = l.fired
           /\ (InInit(t) \/ InRules(t)) /\ Outcome(t) \in States =>
                /\ AfterRule(t).fired = IF l.pc = "rule" THEN l.fired + 1 ELSE l.fired
                /\ NextRule(AfterRule(t)).fired = AfterRule(t).fired
<1>1. l \in Locals
  BY DEF SearchInv, Typed
<1>2. \A y \in Locals : NextRule(y).fired = y.fired
  BY DEF NextRule, Locals
<1>3. ASSUME InInit(t) \/ InRules(t), Outcome(t) \in States
      PROVE  /\ AfterRule(t) \in Locals
             /\ AfterRule(t).fired = IF l.pc = "rule" THEN l.fired + 1 ELSE l.fired
  <2>1. AfterRule(t) \in Locals
    BY <1>3, AfterRuleFields
  <2>2. l.pc \in {"init", "rule"}
    BY <1>3, OutcomeIs
  <2>. QED
    BY <1>1, <2>1, <2>2 DEF At, AfterRule, Locals
<1>. QED
  BY <1>1, <1>2, <1>3

LEMMA RuleStepsPass ==
    ASSUME SearchInv, NEW t \in Threads, DiscardState(t) \/ InsertDuplicate(t)
    PROVE  Passes(t) /\ Tally(t)
<1>1. PICK l, o : l = th[t] /\ o = Outcome(t)
  OBVIOUS
<1>2. /\ InInit(t) \/ InRules(t)
      /\ UNCHANGED <<model, node, queue, rules_fired>>
      /\ Runs(t) <=> l.pc = "rule"
      /\ o \in States \cup NotStates /\ model \in Models
  BY <1>1, OutcomeIs DEF DiscardState, InsertDuplicate, Runs, SearchInv, Typed
<1>3. CASE o \in {Disabled, Assumed} /\ th' = [th EXCEPT ![t] = NextRule(th[t])]
  <2>1. PICK x : x = NextRule(l)
    OBVIOUS
  <2>2. o \notin States
    BY <1>2, <1>3, OutcomeFacts
  <2>3. Follows(l, x) /\ x.fired = l.fired
    BY <1>1, <1>2, <2>1, <2>2, FollowsNothing, FiredFields
  <2>. QED
    BY <1>1, <1>2, <1>3, <2>1, <2>2, <2>3, RulePasses
<1>4. CASE o \in States /\ th' = [th EXCEPT ![t] = NextRule(AfterRule(t))]
  <2>1. PICK x : x = NextRule(AfterRule(t))
    OBVIOUS
  <2>2. Follows(l, x) /\ x.fired = IF l.pc = "rule" THEN l.fired + 1 ELSE l.fired
    BY <1>1, <1>2, <1>4, <2>1, FollowsRule, FiredFields
  <2>. QED
    BY <1>1, <1>2, <1>4, <2>1, <2>2, RulePasses
<1>5. CASE DiscardState(t)
  <2>1. \/ o \in {Disabled, Assumed} /\ th' = [th EXCEPT ![t] = NextRule(th[t])]
        \/ o \in States /\ th' = [th EXCEPT ![t] = NextRule(AfterRule(t))]
    BY <1>1, <1>5 DEF DiscardState
  <2>. QED
    BY <1>3, <1>4, <2>1
<1>6. CASE InsertDuplicate(t)
  <2>1. th' = [th EXCEPT ![t] = NextRule(AfterRule(t))] /\ o \in seen
    BY <1>1, <1>6 DEF InsertDuplicate
  <2>. QED
    BY <1>4, <2>1 DEF SearchInv, Typed
<1>. QED
  BY <1>5, <1>6

LEMMA FailRulePasses ==
    ASSUME SearchInv, NEW t \in Threads, FailRule(t), ~Stopped'
    PROVE  Passes(t) /\ Tally(t)
<1>1. PICK l, o : l = th[t] /\ o = Outcome(t)
  OBVIOUS
<1>2. /\ InInit(t) \/ InRules(t)
      /\ Runs(t) <=> l.pc = "rule"
      /\ o \in States \cup NotStates /\ model \in Models
      /\ l.pc \in {"init", "rule"} /\ l.pc \notin Over \cup {"unborn"}
  BY <1>1, OutcomeIs DEF FailRule, Runs, SearchInv, Typed, Over
<1>3. ASSUME NEW y, Follows(l, y), NEW kind, NEW trace, Error(t, kind, trace, y),
             y.fired = IF l.pc = "rule" /\ o \in States THEN l.fired + 1 ELSE l.fired
      PROVE  Passes(t) /\ Tally(t)
  <2>1. Counted(t, y)
    BY <1>1, <1>2, <1>3, ErrorGrows DEF Follows
  <2>2. th' = [th EXCEPT ![t] = y] /\ UNCHANGED <<model, node, queue, rules_fired>>
    BY <2>1 DEF Counted
  <2>. QED
    BY <1>1, <1>2, <1>3, <2>2, RulePasses
<1>4. CASE o \in {GuardError, RuleError} /\ Error(t, o, NewTrace(t, NoState), NextRule(th[t]))
  <2>1. PICK y : y = NextRule(l)
    OBVIOUS
  <2>2. o \notin States
    BY <1>2, <1>4, OutcomeFacts
  <2>3. Follows(l, y) /\ y.fired = l.fired
    BY <1>1, <1>2, <2>1, <2>2, FollowsNothing, FiredFields
  <2>. QED
    BY <1>1, <1>3, <1>4, <2>1, <2>2, <2>3
<1>5. CASE /\ MeetsAssumptions(o) /\ ~MeetsInvariants(o)
           /\ Error(t, "invariant", NewTrace(t, o), NextRule(AfterRule(t)))
  <2>1. PICK y : y = NextRule(AfterRule(t))
    OBVIOUS
  <2>2. o \in States
    BY <1>2, <1>5, OutcomeFacts
  <2>3. Follows(l, y) /\ y.fired = IF l.pc = "rule" THEN l.fired + 1 ELSE l.fired
    BY <1>1, <1>2, <2>1, <2>2, FollowsRule, FiredFields
  <2>. QED
    BY <1>3, <1>5, <2>1, <2>2, <2>3
<1>. QED
  BY <1>1, <1>4, <1>5 DEF FailRule

LEMMA InsertNewPasses ==
    ASSUME SearchInv, NEW t \in Threads, InsertNew(t)
    PROVE  Passes(t) /\ Tally(t)
<1>1. PICK l, n : l = th[t] /\ n = Outcome(t)
  OBVIOUS
<1>2. /\ InInit(t) \/ InRules(t)
      /\ n \in States \ seen /\ UNCHANGED <<model, queue, rules_fired>>
  BY <1>1, InsertNewIs
<1>3. PICK x : Inserted(l, n, x) /\ th' = [th EXCEPT ![t] = x]
  BY <1>1, InsertNewIs
<1>4. /\ th'[t] = x /\ \A u \in Threads \ {t} : th'[u] = th[u]
      /\ seen \subseteq States /\ Threads' = Threads /\ n \in States
      /\ l \in Locals /\ x \in Locals /\ ThreadOK(t, l) /\ l.pc \in {"init", "rule"}
      /\ Runs(t) <=> l.pc = "rule"
  BY <1>1, <1>2, <1>3, ModelKept, OutcomeIs
  DEF SearchInv, Typed, ThreadsOK, Inserted, Runs
<1>5. seen' = seen \cup {n} /\ \A s \in seen : node'[s] = node[s]
  BY <1>1, <1>2, InsertNewIs DEF seen
<1>6. /\ x.s = l.s /\ x.rule_taken = l.rule_taken /\ x.n = n /\ x.pc \in New
      /\ l.pc = "init" => l.s = NoState
      /\ l.n = NoState
  BY <1>3, <1>4 DEF Inserted, ThreadOK, Shaped, New
<1>7. \A s : InQueue(s)' <=> InQueue(s)
  BY <1>2, <1>4 DEF InQueue
<1>8. ASSUME NEW s \in seen, NEW r \in 1..Rules
      PROVE  Waits(x, s, r) <=> Waits(l, s, r) /\ ~(l.pc = "rule" /\ s = l.s /\ r = l.rule_taken)
  <2>1. s # NoState /\ s # n
    BY <1>2, <1>4, ModelFields DEF SearchInv, Typed
  <2>2. r \in Nat /\ l.rule_taken \in Nat
    BY <1>4, ModelFields DEF SearchInv, Typed, Locals
  <2>3. Ran(x, r) <=> Ran(l, r) \/ r = l.rule_taken
    BY <1>4, <1>6, <2>2 DEF Ran, New
  <2>4. Ran(l, r) => r # l.rule_taken
    BY <1>4, <2>2 DEF Ran, New
  <2>5. Waits(x, s, r) <=> s = l.s /\ ~Ran(x, r)
    BY <1>6, <2>1 DEF Waits, Active
  <2>6. Waits(l, s, r) <=> s = l.s /\ l.pc = "rule" /\ ~Ran(l, r)
    BY <1>4, <1>6, <2>1 DEF Waits, Active, New
  <2>. QED
    BY <1>4, <1>6, <2>1, <2>3, <2>4, <2>5, <2>6
<1>9. ASSUME NEW s \in seen, InQueue(s) PROVE ~(Runs(t) /\ s = l.s)
  <2>. SUFFICES ASSUME l.pc = "rule", s = l.s PROVE FALSE
    BY <1>4, <1>9
  <2>1. s # NoState
    BY <1>4, ModelFields DEF SearchInv, Typed
  <2>2. s \in InHand(l)
    BY <2>1 DEF InHand, Active
  <2>. QED
    BY <1>1, <1>9, <2>2 DEF InQueue, SearchInv, HandsApart
<1>10. \A s \in seen' \ seen, r \in 1..Rules : Waits(x, s, r)
  BY <1>5, <1>6 DEF Waits
<1>11. Passes(t)
  BY <1>1, <1>2, <1>4, <1>5, <1>7, <1>8, <1>9, <1>10, RunsPass
<1>12. x.fired = IF Counts(t) THEN l.fired + 1 ELSE l.fired
  <2>1. x.fired = AfterRule(t).fired
    <3>1. PICK y \in Locals : y = AfterRule(t)
      BY <1>1, <1>2, AfterRuleFields
    <3>2. \E g : th' = [th EXCEPT ![t] = [y EXCEPT !.n = n, !.todo = LiveIn(n), !.at = n,
                                                   !.pc = g]]
      BY <1>1, <3>1 DEF InsertNew
    <3>3. PICK g : th' = [th EXCEPT ![t] = [y EXCEPT !.n = n, !.todo = LiveIn(n), !.at = n,
                                                     !.pc = g]]
      BY <3>2
    <3>4. x = [y EXCEPT !.n = n, !.todo = LiveIn(n), !.at = n, !.pc = g]
      BY <1>4, <3>3 DEF SearchInv, Typed
    <3>. QED
      BY <3>1, <3>4 DEF Locals
  <2>2. AfterRule(t).fired = IF l.pc = "rule" THEN l.fired + 1 ELSE l.fired
    BY <1>1, <1>2, <1>4, FiredFields
  <2>. QED
    BY <1>1, <1>4, <2>1, <2>2 DEF Counts
<1>13. (Early(x) => Early(l)) /\ ~HandedIn(x)
  BY <1>4, <1>6 DEF Early, HandedIn, Starting, New, ThreadOK, Shaped
<1>. QED
  BY <1>1, <1>2, <1>3, <1>11, <1>12, <1>13, TallyMove

\* A new state that is not to be expanded is dropped.
LEMMA DropPasses ==
    ASSUME SearchInv, NEW t \in Threads, NEW l, l = th[t], l.pc \in New,
           l.n \in model.raising \/ ~BelowBound(l.n),
           NEW x, Follows(l, x), UNCHANGED <<model, node, queue, rules_fired>>,
           th' = [th EXCEPT ![t] = x], x.fired = l.fired
    PROVE  Passes(t) /\ Tally(t)
<1>1. /\ th'[t] = x /\ \A u \in Threads \ {t} : th'[u] = th[u]
      /\ seen \subseteq States /\ Threads' = Threads /\ seen' = seen
      /\ ThreadOK(t, l) /\ l \in Locals
  BY ModelKept DEF SearchInv, Typed, ThreadsOK, seen
<1>2. \A s : InQueue(s)' <=> InQueue(s)
  BY <1>1 DEF InQueue
<1>3. ~Runs(t) /\ ~Counts(t)
  BY DEF Runs, Counts, New
<1>4. \A s \in States, r \in 1..Rules : Waits(x, s, r) <=> Waits(l, s, r) /\ s # l.n
  BY FollowsWaits
<1>5. Passes(t)
  BY <1>1, <1>2, <1>3, <1>4, RunsPass
<1>6. (Early(x) => Early(l)) /\ ~HandedIn(x)
  BY <1>1 DEF Early, HandedIn, Follows, Starting, New, ThreadOK, Shaped
<1>. QED
  BY <1>3, <1>5, <1>6, TallyMove

LEMMA FailPropertyPasses ==
    ASSUME SearchInv, NEW t \in Threads, FailProperty(t), ~Stopped'
    PROVE  Passes(t) /\ Tally(t)
<1>1. PICK l, y : l = th[t] /\ y = NextRule(l)
  OBVIOUS
<1>2. l.pc = "raise" /\ l.n \in model.raising /\ l.pc \in New /\ l.pc \notin Over \cup {"unborn"}
  BY <1>1 DEF FailProperty, At, New, Over, SearchInv, ThreadsOK, ThreadOK, Shaped
<1>3. Follows(l, y) /\ y.fired = l.fired
  BY <1>1, <1>2, FollowsInsertion, FiredFields
<1>4. Counted(t, y)
  BY <1>1, <1>2, <1>3, ErrorGrows DEF FailProperty, Follows
<1>5. th' = [th EXCEPT ![t] = y] /\ UNCHANGED <<model, node, queue, rules_fired>>
  BY <1>4 DEF Counted
<1>. QED
  BY <1>1, <1>2, <1>3, <1>5, DropPasses

LEMMA EnqueuePasses ==
    ASSUME SearchInv, NEW t \in Threads, Enqueue(t)
    PROVE  Passes(t) /\ Tally(t)
<1>1. /\ th[t].pc = "enqueue" /\ th[t] \in Locals /\ ThreadOK(t, th[t]) /\ model \in Models
      /\ queue \in [Threads -> Seq(States)]
      /\ UNCHANGED <<model, node, error_count, covered, rules_fired, reports, result>>
  BY DEF Enqueue, At, SearchInv, Typed, ThreadsOK
<1>2. PICK l, k : l = th[t] /\ k = IF l.s = NoState THEN l.queue_id ELSE t
  OBVIOUS
<1>3. /\ k \in Threads /\ l.pc \in New /\ l.n # NoState /\ l.n \in seen
      /\ l.n \in InHand(l) /\ l.queue_id \in Threads
  BY <1>1, <1>2 DEF Locals, New, ThreadOK, Shaped, Known, InHand
<1>4. PICK q : q = IF l.s = NoState THEN NextQueue(k) ELSE k
  OBVIOUS
<1>5. q \in Threads
  BY <1>1, <1>3, <1>4, NextQueueIs, ModelFields
<1>6. /\ seen' = seen /\ Threads' = Threads /\ 0 \in Threads /\ seen \subseteq States
      /\ \A s \in seen : node'[s] = node[s]
  BY <1>1, ModelKept, ModelFields DEF seen, SearchInv, Typed
<1>7. ~Runs(t) /\ ~Counts(t)
  BY <1>1 DEF Runs, Counts
<1>8. CASE /\ l.s # NoState /\ ~BelowBound(l.n)
           /\ th' = [th EXCEPT ![t] = [NextRule(l) EXCEPT !.at = NoState]]
           /\ UNCHANGED <<queue, phase>>
  <2>1. PICK x : x = [NextRule(l) EXCEPT !.at = NoState]
    OBVIOUS
  <2>2. Follows(l, x)
    BY <1>1, <1>2, <1>5, <2>1, FollowsEnqueue
  <2>3. x.fired = l.fired
    BY <1>1, <1>2, <2>1 DEF NextRule, Locals
  <2>. QED
    BY <1>1, <1>2, <1>3, <1>8, <2>1, <2>2, <2>3, DropPasses
<1>9. ASSUME NEW start \in BOOLEAN, NEW x,
             start => phase = "warmup",
             queue' = [queue EXCEPT ![k] = Append(queue[k], l.n)],
             x = [NextRule(l) EXCEPT !.queue_id = q, !.at = NoState],
             t = 0 \/ ~start,
             th' = [u \in Threads |-> CASE u = t -> x
                                        [] u # t /\ start -> StartLocals(u, "top")
                                        [] OTHER -> th[u]]
      PROVE  Passes(t) /\ Tally(t)
  <2>1. Follows(l, x)
    BY <1>1, <1>2, <1>5, <1>9, FollowsEnqueue
  <2>2. x.fired = l.fired
    BY <1>1, <1>2, <1>9 DEF NextRule, Locals
  <2>3. th'[t] = x
    BY <1>9
  <2>4. ASSUME NEW u \in Threads \ {t}
        PROVE  \/ th'[u] = th[u]
               \/ th[u].pc = "unborn" /\ th'[u] = StartLocals(u, "top")
    <3>1. CASE start
      <4>1. u # 0 /\ phase = "warmup"
        BY <1>9, <2>4, <3>1
      <4>2. th[u].pc = "unborn"
        BY <4>1 DEF SearchInv, ThreadsOK, ThreadOK, Shaped
      <4>. QED
        BY <1>9, <2>4, <3>1, <4>2
    <3>2. CASE ~start
      BY <1>9, <2>4, <3>2
    <3>. QED
      BY <3>1, <3>2
  <2>5. ASSUME NEW u \in Threads \ {t}, NEW s \in States, NEW r \in 1..Rules
        PROVE  Waits(th'[u], s, r) <=> Waits(th[u], s, r)
    <3>. SUFFICES ASSUME th[u].pc = "unborn", th'[u] = StartLocals(u, "top")
                  PROVE  ~Waits(th'[u], s, r) /\ ~Waits(th[u], s, r)
      BY <2>4
    <3>1. th[u].n = NoState /\ th'[u].n = NoState /\ th'[u].pc = "top" /\ s # NoState
      BY SMTT(30), <1>1, ModelFields DEF SearchInv, ThreadsOK, ThreadOK, Shaped, New, StartLocals
    <3>. QED
      BY <3>1 DEF Waits, Active, New
  <2>6. ASSUME NEW s \in seen
        PROVE  InQueue(s)' <=> InQueue(s) \/ s = l.n
    <3>1. queue[k] \in Seq(States) /\ l.n \in States
      BY <1>1, <1>3, <1>6
    <3>2. Elements(Append(queue[k], l.n)) = Elements(queue[k]) \cup {l.n}
      BY <3>1, ElementsAppended
    <3>3. /\ Elements(queue'[k]) = Elements(queue[k]) \cup {l.n}
          /\ \A j \in Threads \ {k} : queue'[j] = queue[j]
      BY <1>1, <1>3, <1>9, <3>2
    <3>. QED
      BY <1>3, <1>6, <3>3 DEF InQueue
  <2>7. \A s \in States, r \in 1..Rules : Waits(x, s, r) <=> Waits(l, s, r) /\ s # l.n
    BY <1>2, <1>3, <2>1, FollowsWaits
  <2>8. \A r : Waits(l, l.n, r)
    BY DEF Waits
  <2>9. Passes(t)
    BY <1>1, <1>2, <1>6, <1>7, <2>3, <2>5, <2>6, <2>7, <2>8, RunsPass
  <2>10. /\ Early(x) => Early(l)
         /\ ~HandedIn(x)
    BY <1>1, <1>2, <1>3, <2>1 DEF Early, HandedIn, Follows, Starting, New
  <2>11. \A u \in Threads \ {t} :
            \/ th'[u] = th[u]
            \/ Early(th[u]) /\ ~Early(th'[u]) /\ ~HandedIn(th'[u]) /\ th'[u].fired = 0
    <3>1. ASSUME NEW u, NEW z, z = StartLocals(u, "top")
          PROVE  ~Early(z) /\ ~HandedIn(z) /\ z.fired = 0
      <4>1. z.pc = "top" /\ z.fired = 0
        BY <3>1 DEF StartLocals
      <4>. QED
        BY <4>1 DEF Early, HandedIn, Starting, New
    <3>. QED
      BY <2>4, <3>1 DEF Early
  <2>12. rules_fired' = rules_fired /\ rules_fired \in [Threads -> Nat]
    BY <1>1 DEF SearchInv, Typed
  <2>13. Tally(t)
    BY <1>2, <1>7, <2>2, <2>3, <2>10, <2>11, <2>12 DEF Tally
  <2>. QED
    BY <2>9, <2>13
<1>. QED
  <2>1. PICK start : start = StartsOthers(t, Len(queue[k]) + 1)
    OBVIOUS
  <2>2. start \in BOOLEAN /\ (start => phase = "warmup" /\ t = 0)
    BY <2>1 DEF StartsOthers
  <2>3. PICK x : x = [NextRule(l) EXCEPT !.queue_id = q, !.at = NoState]
    OBVIOUS
  <2>4. CASE /\ queue' = [queue EXCEPT ![k] = Append(queue[k], l.n)]
             /\ th' = [u \in Threads |-> CASE u = t -> x
                                           [] u # t /\ start -> StartLocals(u, "top")
                                           [] OTHER -> th[u]]
    BY <1>9, <2>2, <2>3, <2>4
  <2>. QED
    BY <1>2, <1>4, <1>8, <2>1, <2>3, <2>4 DEF Enqueue, Linked

LEMMA DequeuePasses ==
    ASSUME SearchInv, NEW t \in Threads, Dequeue(t)
    PROVE  Passes(t) /\ Tally(t)
<1>1. /\ th[t].pc = "dequeue" /\ th[t] \in Locals /\ ThreadOK(t, th[t]) /\ model \in Models
      /\ queue \in [Threads -> Seq(States)]
      /\ UNCHANGED <<model, node, error_count, covered, phase, rules_fired, reports, result>>
  BY DEF Dequeue, At, SearchInv, Typed, ThreadsOK
<1>2. PICK l, k : l = th[t] /\ k = th[t].queue_id
  OBVIOUS
<1>3. /\ k \in Threads /\ queue[k] # <<>> /\ queue[k] \in Seq(States)
      /\ queue' = [queue EXCEPT ![k] = Tail(queue[k])]
      /\ th' = [th EXCEPT ![t] = [l EXCEPT !.s = Head(queue[k]), !.pc = "rule",
                                           !.possible_deadlock = TRUE, !.rule_taken = 1]]
  BY <1>1, <1>2 DEF Dequeue, Remaining, Dequeued, Locals
<1>4. PICK n : n = Head(queue[k])
  OBVIOUS
<1>5. /\ n \in States /\ n # NoState
      /\ Elements(queue[k]) = Elements(Tail(queue[k])) \cup {n}
      /\ n \notin Elements(Tail(queue[k]))
  BY <1>1, <1>3, <1>4, ElementsRemoved, ModelFields DEF SearchInv, QueuesApart
<1>6. PICK x : x = [l EXCEPT !.s = n, !.pc = "rule", !.possible_deadlock = TRUE,
                             !.rule_taken = 1]
  OBVIOUS
<1>7. /\ x.pc = "rule" /\ x.s = n /\ x.n = NoState /\ x.rule_taken = 1
      /\ x.fired = l.fired /\ l.n = NoState
  <2>1. l.n = NoState
    BY <1>1, <1>2 DEF ThreadOK, Shaped, New
  <2>. QED
    BY <1>1, <1>2, <1>6, <2>1 DEF Locals
<1>8. /\ th' = [th EXCEPT ![t] = x] /\ th'[t] = x
      /\ \A u \in Threads \ {t} : th'[u] = th[u]
      /\ seen' = seen /\ seen \subseteq States /\ Threads' = Threads
      /\ \A s \in seen : node'[s] = node[s]
  BY <1>1, <1>3, <1>4, <1>6, ModelKept DEF seen, SearchInv, Typed
<1>9. ~Runs(t) /\ ~Counts(t)
  BY <1>1 DEF Runs, Counts
<1>10. ASSUME NEW s \in seen
       PROVE  InQueue(s) <=> InQueue(s)' \/ s = n
  <2>1. /\ queue'[k] = Tail(queue[k]) /\ \A j \in Threads \ {k} : queue'[j] = queue[j]
    BY <1>1, <1>3
  <2>. QED
    BY <1>3, <1>5, <1>8, <2>1 DEF InQueue
<1>11. ASSUME NEW s \in seen, NEW r \in 1..Rules
       PROVE  (Waits(x, s, r) <=> s = n) /\ ~Waits(l, s, r)
  <2>1. s # NoState /\ r \in Nat /\ ~(r < 1)
    BY <1>1, <1>8, ModelFields
  <2>2. ~Ran(x, r)
    BY <1>7, <2>1 DEF Ran, New
  <2>. QED
    BY <1>1, <1>2, <1>7, <2>1, <2>2 DEF Waits, Active, New
<1>12. Passes(t)
  <2>1. ASSUME NEW s \in seen, NEW r \in 1..Rules
        PROVE  InQueue(s)' \/ Waits(x, s, r) <=> InQueue(s) \/ Waits(l, s, r)
    BY <1>10, <1>11
  <2>. QED
    BY <1>1, <1>2, <1>8, <1>9, <2>1, RunsPass
<1>13. (Early(x) => Early(l)) /\ ~HandedIn(x)
  BY <1>7 DEF Early, HandedIn, Starting, New
<1>. QED
  BY <1>1, <1>2, <1>7, <1>8, <1>9, <1>12, <1>13, TallyMove

\* A thread that holds no state goes on without one.
LEMMA IdlePasses ==
    ASSUME SearchInv, NEW t \in Threads, NEW l, l = th[t],
           NEW x, th' = [th EXCEPT ![t] = x], l.pc \notin Active, x.pc \notin Active, x.n = l.n,
           UNCHANGED <<model, queue>>, seen' = seen,
           \A s \in seen : node'[s].bound = node[s].bound
    PROVE  Passes(t) /\ ~Counts(t)
<1>1. ~Runs(t)
  BY DEF Runs, Active
<1>2. \A s \in States, r \in 1..Rules : Waits(x, s, r) <=> Waits(l, s, r)
  BY DEF Waits
<1>. QED
  BY <1>1, <1>2, SamePass DEF Counts

LEMMA LoopPasses ==
    ASSUME SearchInv, NEW t \in Threads, EndInit(t) \/ LoopTop(t) \/ DequeueNothing(t)
    PROVE  Passes(t) /\ Tally(t)
<1>1. /\ UNCHANGED <<model, node, queue, rules_fired>> /\ seen' = seen
      /\ th[t] \in Locals /\ ThreadOK(t, th[t])
  BY DEF EndInit, LoopTop, DequeueNothing, seen, SearchInv, Typed, ThreadsOK
<1>2. PICK l : l = th[t]
  OBVIOUS
<1>3. ASSUME NEW x, th' = [th EXCEPT ![t] = x], l.pc \in {"init", "top", "dequeue"},
             x.pc \in {"top", "dequeue", "exit"}, x.n = l.n,
             x.fired = l.fired \/ (Early(l) /\ x.fired = 0)
      PROVE  Passes(t) /\ Tally(t)
  <2>1. Passes(t) /\ ~Counts(t)
    BY <1>1, <1>2, <1>3, IdlePasses DEF Active, New
  <2>2. ~Early(x) /\ ~HandedIn(x)
    BY <1>3 DEF Early, HandedIn, Starting, New
  <2>. QED
    BY <1>1, <1>2, <1>3, <2>1, <2>2, TallyMove
<1>4. CASE EndInit(t)
  <2>1. PICK x : x = StartLocals(t, "top")
    OBVIOUS
  <2>2. x.pc = "top" /\ x.n = NoState /\ x.fired = 0
    BY <2>1 DEF StartLocals
  <2>3. l.pc = "init" /\ l.n = NoState /\ Early(l) /\ th' = [th EXCEPT ![t] = x]
    BY <1>1, <1>2, <1>4, <2>1 DEF EndInit, At, ThreadOK, Shaped, New, Early, Starting
  <2>. QED
    BY <1>3, <2>2, <2>3
<1>5. CASE LoopTop(t)
  <2>1. PICK g : g = IF THREADS > 1 /\ error_count >= MAX_ERRORS THEN "exit" ELSE "dequeue"
    OBVIOUS
  <2>2. PICK x : x = [l EXCEPT !.attempts = 0, !.pc = g]
    OBVIOUS
  <2>3. x.pc = g /\ x.n = l.n /\ x.fired = l.fired /\ l.pc = "top"
    BY <1>1, <1>2, <1>5, <2>2 DEF LoopTop, At, Locals
  <2>4. th' = [th EXCEPT ![t] = x] /\ g \in {"exit", "dequeue"}
    BY <1>1, <1>2, <1>5, <2>1, <2>2 DEF LoopTop, SearchInv, Typed
  <2>. QED
    BY <1>3, <2>3, <2>4
<1>6. CASE DequeueNothing(t)
  <2>1. PICK g : g = IF AllTried(t) THEN "exit" ELSE "dequeue"
    OBVIOUS
  <2>2. PICK x : x = [l EXCEPT !.attempts = NextAttempt(t), !.queue_id = NextQueue(l.queue_id),
                               !.pc = g]
    OBVIOUS
  <2>3. x.pc = g /\ x.n = l.n /\ x.fired = l.fired /\ l.pc = "dequeue"
    BY <1>1, <1>2, <1>6, <2>2 DEF DequeueNothing, At, Locals
  <2>4. th' = [th EXCEPT ![t] = x] /\ g \in {"exit", "dequeue"}
    BY <1>1, <1>2, <1>6, <2>1, <2>2 DEF DequeueNothing, SearchInv, Typed
  <2>. QED
    BY <1>3, <2>3, <2>4
<1>. QED
  BY <1>4, <1>5, <1>6

LEMMA EndRulesPasses ==
    ASSUME SearchInv, NEW t \in Threads, EndRules(t), ~Stopped'
    PROVE  Passes(t) /\ Tally(t)
<1>1. PICK l, x : l = th[t] /\ x = [l EXCEPT !.pc = "top"]
  OBVIOUS
<1>2. /\ l \in Locals /\ ThreadOK(t, l) /\ model \in Models
      /\ l.pc = "rule" /\ l.rule_taken > Rules
  BY <1>1 DEF EndRules, At, SearchInv, Typed, ThreadsOK
<1>3. x \in Locals /\ x.pc = "top" /\ x.n = l.n /\ x.fired = l.fired /\ l.n = NoState
  <2>1. l.n = NoState
    BY <1>2 DEF ThreadOK, Shaped, New
  <2>2. "top" \in Labels
    BY DEF Labels
  <2>. QED
    BY <1>1, <1>2, <2>1, <2>2 DEF Locals
<1>4. th' = [th EXCEPT ![t] = x] /\ UNCHANGED <<model, node, queue, rules_fired>>
  <2>1. CASE Error(t, "deadlock", Trace(l.s), x)
    <3>1. Counted(t, x)
      BY <1>1, <1>2, <1>3, <2>1, ErrorGrows DEF Over
    <3>. QED
      BY <3>1 DEF Counted
  <2>2. CASE /\ th' = [th EXCEPT ![t].pc = "top"]
             /\ UNCHANGED <<model, node, queue, error_count, covered, phase,
                            rules_fired, reports, result>>
    BY <1>1, <2>2 DEF SearchInv, Typed
  <2>. QED
    BY <1>1, <2>1, <2>2 DEF EndRules
<1>5. ~Runs(t) /\ ~Counts(t)
  BY <1>1, <1>2, ModelFields
  DEF Runs, Counts, DiscardState, FailRule, InsertDuplicate, InsertNew, InInit, InRules, At, Locals
<1>6. ASSUME NEW s \in States, NEW r \in 1..Rules PROVE Waits(x, s, r) <=> Waits(l, s, r)
  <2>1. Ran(l, r)
    BY <1>2, ModelFields DEF Ran, Locals
  <2>. QED
    BY <1>3, <2>1 DEF Waits, Active, New
<1>7. ~Early(x) /\ ~HandedIn(x)
  BY <1>3 DEF Early, HandedIn, Starting, New
<1>8. seen' = seen /\ \A s \in seen : node'[s] = node[s]
  BY <1>4 DEF seen
<1>. QED
  BY <1>1, <1>3, <1>4, <1>5, <1>6, <1>7, <1>8, SamePass, TallyMove

LEMMA MarkLivenessPasses ==
    ASSUME SearchInv, NEW t \in Threads, MarkLiveness(t)
    PROVE  Passes(t) /\ Tally(t)
<1>1. PICK l, p : l = th[t] /\ p = NextMark(l)
  OBVIOUS
<1>2. /\ l \in Locals /\ l.pc = "mark" /\ UNCHANGED <<model, queue, rules_fired>>
      /\ \A s \in seen : node'[s].bound = node[s].bound
      /\ seen' = seen
  <2>1. ~InsertNew(t)
    BY DEF MarkLiveness, InsertNew, InInit, InRules, At
  <2>. QED
    BY <1>1, <2>1, SourcesStay DEF MarkLiveness, At, SearchInv, Typed, Step
<1>3. PICK g : g = IF l.todo = {p} THEN "enqueue" ELSE "mark"
  OBVIOUS
<1>4. \E x : /\ th' = [th EXCEPT ![t] = x]
             /\ x.pc \in {"mark", "enqueue"} /\ x.n = l.n /\ x.s = l.s /\ x.fired = l.fired
             /\ x.rule_taken = l.rule_taken
  <2>1. CASE MarksOn(l.at, p)
    <3>1. PICK x : x = [l EXCEPT !.at = node[l.at].previous]
      OBVIOUS
    <3>2. th' = [th EXCEPT ![t] = x]
      BY <1>1, <2>1, <3>1 DEF MarkLiveness, SearchInv, Typed
    <3>3. /\ x.pc = l.pc /\ x.n = l.n /\ x.s = l.s /\ x.fired = l.fired
          /\ x.rule_taken = l.rule_taken
      BY <1>2, <3>1 DEF Locals
    <3>. QED
      BY <1>2, <3>2, <3>3
  <2>2. CASE ~MarksOn(l.at, p)
    <3>1. PICK x : x = [l EXCEPT !.todo = l.todo \ {p}, !.at = l.n, !.pc = g]
      OBVIOUS
    <3>2. th' = [th EXCEPT ![t] = x]
      BY <1>1, <1>2, <1>3, <2>2, <3>1 DEF MarkLiveness, SearchInv, Typed, Locals
    <3>3. /\ x.pc = g /\ x.n = l.n /\ x.s = l.s /\ x.fired = l.fired
          /\ x.rule_taken = l.rule_taken
      BY <1>2, <3>1 DEF Locals
    <3>4. g \in {"mark", "enqueue"}
      BY <1>3
    <3>. QED
      BY <3>2, <3>3, <3>4
  <2>. QED
    BY <2>1, <2>2
<1>5. PICK x : /\ th' = [th EXCEPT ![t] = x]
               /\ x.pc \in {"mark", "enqueue"} /\ x.n = l.n /\ x.s = l.s /\ x.fired = l.fired
               /\ x.rule_taken = l.rule_taken
  BY <1>4
<1>6. \A s \in States, r \in 1..Rules : Waits(x, s, r) <=> Waits(l, s, r)
  BY <1>2, <1>5 DEF Waits, Ran, Active, New
<1>7. ~Runs(t) /\ ~Counts(t)
  BY <1>1, <1>2 DEF Runs, Counts
<1>8. (Early(x) => Early(l)) /\ ~HandedIn(x)
  BY <1>2, <1>5 DEF Early, HandedIn, Starting, New
<1>. QED
  BY <1>1, <1>2, <1>5, <1>6, <1>7, <1>8, SamePass, TallyMove

LEMMA ExitPasses ==
    ASSUME SearchInv, NEW t \in Threads, Exit(t)
    PROVE  Passes(t) /\ Tally(t)
<1>1. PICK l, g : l = th[t] /\ g = IF t = 0 THEN "join" ELSE "exited"
  OBVIOUS
<1>2. /\ l \in Locals /\ l.pc = "exit" /\ UNCHANGED <<model, node, queue>> /\ seen' = seen
      /\ rules_fired \in [Threads -> Nat] /\ l.fired \in Nat
      /\ rules_fired' = [rules_fired EXCEPT ![t] = l.fired]
  BY <1>1 DEF Exit, At, SearchInv, Typed, seen, Locals
<1>3. PICK x : x = [l EXCEPT !.pc = g]
  OBVIOUS
<1>4. x.pc = g /\ g \in {"join", "exited"} /\ x.n = l.n /\ x.fired = l.fired
  BY <1>1, <1>2, <1>3 DEF Locals
<1>5. /\ th' = [th EXCEPT ![t] = x] /\ th'[t] = x /\ \A u \in Threads \ {t} : th'[u] = th[u]
  BY <1>1, <1>2, <1>3 DEF Exit, SearchInv, Typed
<1>6. Passes(t) /\ ~Counts(t)
  BY <1>1, <1>2, <1>4, <1>5, IdlePasses DEF Active, New
<1>7. ~Early(x)
  BY <1>4 DEF Early, Starting, New
<1>8. /\ rules_fired'[t] = th'[t].fired /\ rules_fired' \in [Threads -> Nat]
      /\ \A u \in Threads \ {t} : rules_fired'[u] = rules_fired[u]
  BY <1>2, <1>4, <1>5
<1>9. Tally(t)
  BY <1>1, <1>4, <1>5, <1>6, <1>7, <1>8 DEF Tally
<1>. QED
  BY <1>6, <1>9

LEMMA EndPasses ==
    ASSUME SearchInv, NEW t \in Threads, Join(t) \/ Learn(t) \/ Summarise(t)
    PROVE  Passes(t) /\ Tally(t)
<1>1. PICK l : l = th[t]
  OBVIOUS
<1>2. /\ l \in Locals /\ l.pc \in {"join", "learn"} /\ UNCHANGED <<model, queue, rules_fired>>
      /\ \A s \in seen : node'[s].bound = node[s].bound
      /\ seen' = seen
  <2>1. ~InsertNew(t)
    BY DEF Join, Learn, Summarise, InsertNew, InInit, InRules, At
  <2>2. Step(t)
    BY DEF Step
  <2>. QED
    BY <1>1, <2>1, <2>2, SourcesStay DEF Join, Learn, Summarise, At, SearchInv, Typed
<1>3. \E x : /\ th' = [th EXCEPT ![t] = x]
             /\ x.pc \in {"join", "learn", "exited"} /\ x.n = l.n /\ x.fired = l.fired
  <2>1. CASE Join(t)
    <3>1. PICK g, d : /\ g = IF error_count' = 0 /\ Liveness # {} THEN "learn" ELSE "exited"
                      /\ d = IF Failed \/ error_count' # error_count THEN 1 ELSE 0
      OBVIOUS
    <3>2. PICK x : x = [l EXCEPT !.status = d, !.pc = g]
      OBVIOUS
    <3>3. th' = [th EXCEPT ![t] = x]
      BY <1>1, <2>1, <3>1, <3>2 DEF Join, SearchInv, Typed
    <3>4. x.pc = g /\ x.n = l.n /\ x.fired = l.fired
      BY <1>2, <3>2 DEF Locals
    <3>5. g \in {"learn", "exited"}
      BY <3>1
    <3>. QED
      BY <3>3, <3>4, <3>5
  <2>2. CASE Learn(t)
    <3>1. th' = th /\ th \in [Threads -> Locals]
      BY <2>2 DEF Learn, SearchInv, Typed
    <3>2. [th EXCEPT ![t] = l] = th
      BY <1>1, <3>1
    <3>. QED
      BY <1>2, <3>1, <3>2
  <2>3. CASE Summarise(t)
    <3>1. PICK d : d = IF Missed # {} THEN 1 ELSE l.status
      OBVIOUS
    <3>2. PICK x : x = [l EXCEPT !.status = d, !.pc = "exited"]
      OBVIOUS
    <3>3. th' = [th EXCEPT ![t] = x]
      BY <1>1, <1>2, <2>3, <3>1, <3>2 DEF Summarise, SearchInv, Typed, Locals
    <3>4. x.pc = "exited" /\ x.n = l.n /\ x.fired = l.fired
      BY <1>2, <3>2 DEF Locals
    <3>. QED
      BY <3>3, <3>4
  <2>. QED
    BY <2>1, <2>2, <2>3
<1>4. PICK x : /\ th' = [th EXCEPT ![t] = x]
               /\ x.pc \in {"join", "learn", "exited"} /\ x.n = l.n /\ x.fired = l.fired
  BY <1>3
<1>5. Passes(t) /\ ~Counts(t)
  BY <1>1, <1>2, <1>4, IdlePasses DEF Active, New
<1>6. ~Early(x) /\ HandedIn(l)
  BY <1>2, <1>4 DEF Early, Starting, New, HandedIn
<1>. QED
  BY <1>1, <1>2, <1>4, <1>5, <1>6, TallyMove

LEMMA StepPasses ==
    ASSUME SearchInv, NEW t \in Threads, Step(t), ~Stopped'
    PROVE  Passes(t) /\ Tally(t)
BY RuleStepsPass, FailRulePasses, InsertNewPasses, FailPropertyPasses, EnqueuePasses,
   DequeuePasses, LoopPasses, EndRulesPasses, MarkLivenessPasses, ExitPasses, EndPasses
DEF Step

\* When no errors stop it: the rules that have run to their end were each run by one
\* thread, which counted those it ran; and what it counted is handed in at its end.
Share(F) ==
    /\ F \in [Threads -> SUBSET (States \X (1..Rules))]
    /\ \A u \in Threads : IsFiniteSet(F[u]) /\ Cardinality(F[u]) = th[u].fired
    /\ \A u, v \in Threads : u # v => F[u] \cap F[v] = {}
    /\ UNION {F[u] : u \in Threads} = Fired
FiredRight ==
    /\ \E F : Share(F)
    /\ \A u \in Threads : Early(th[u]) => th[u].fired = 0
    /\ \A u \in Threads : HandedIn(th[u]) => rules_fired[u] = th[u].fired
FiredInv == ~Stopped => FiredRight

LEMMA FiredInit == Init => FiredInv
<1>. SUFFICES ASSUME Init PROVE FiredRight
  BY DEF FiredInv
<1>1. /\ model \in Models /\ seen = {}
      /\ \A u \in Threads : th[u].fired = 0 /\ rules_fired[u] = 0
  BY DEF Init, StartLocals, seen
<1>2. Fired = {}
  BY <1>1 DEF Fired, RunOn
<1>3. PICK F : F = [u \in Threads |-> {}]
  OBVIOUS
<1>4. \A u \in Threads : F[u] = {} /\ IsFiniteSet(F[u]) /\ Cardinality(F[u]) = 0
  BY <1>3, FS_EmptySet
<1>5. UNION {F[u] : u \in Threads} = {}
  BY <1>4
<1>6. Share(F)
  BY <1>1, <1>2, <1>3, <1>4, <1>5 DEF Share
<1>. QED
  BY <1>1, <1>6 DEF FiredRight

\* The rule that a thread runs is new.
LEMMA FiredGrows ==
    ASSUME SearchInv, NEW t \in Threads, Passes(t), NEW p, p = <<th[t].s, th[t].rule_taken>>
    PROVE  /\ Counts(t) => /\ p \in States \X (1..Rules) /\ p \notin Fired
                           /\ Fired' = Fired \cup {p}
           /\ ~Counts(t) => Fired' = Fired
<1>1. PICK l, s, r : l = th[t] /\ s = l.s /\ r = l.rule_taken
  OBVIOUS
<1>2. ASSUME Runs(t)
      PROVE  /\ s \in States /\ r \in 1..Rules /\ ~RunOn(s, r)
             /\ Outcome(t) \in States <=> r \in Firing(s)
  <2>1. l.pc = "rule" /\ (InInit(t) \/ InRules(t))
    BY <1>1, <1>2 DEF Runs, DiscardState, FailRule, InsertDuplicate, InsertNew
  <2>2. s \in States /\ r \in 1..Rules /\ Outcome(t) = model.rule[s][r]
    BY <1>1, <2>1, OutcomeIs
  <2>3. Waits(l, s, r)
    BY <1>1, <2>1, <2>2 DEF Waits, Ran, Active, New
  <2>4. ~RunOn(s, r)
    BY <1>1, <2>3 DEF RunOn
  <2>. QED
    BY <2>2, <2>4 DEF Firing
<1>3. \A x : Firing(x)' = Firing(x)
  BY DEF Passes, Firing
<1>4. ASSUME NEW q \in States \X (1..Rules)
      PROVE  q \in Fired' <=> q \in Fired \/ (Counts(t) /\ q = p)
  <2>1. PICK a, b : a \in States /\ b \in 1..Rules /\ q = <<a, b>>
    OBVIOUS
  <2>2. RunOn(a, b)' <=> RunOn(a, b) \/ (Runs(t) /\ a = s /\ b = r)
    BY <1>1, <2>1 DEF Passes
  <2>3. q \in Fired' <=> RunOn(a, b)' /\ b \in Firing(a)
    BY <1>3, <2>1 DEF Fired
  <2>4. q \in Fired <=> RunOn(a, b) /\ b \in Firing(a)
    BY <2>1 DEF Fired
  <2>5. Counts(t) /\ q = p <=> Runs(t) /\ a = s /\ b = r /\ b \in Firing(a)
    BY <1>1, <1>2, <2>1 DEF Counts
  <2>. QED
    BY <2>2, <2>3, <2>4, <2>5
<1>5. Fired \subseteq States \X (1..Rules) /\ Fired' \subseteq States \X (1..Rules)
  BY DEF Fired
<1>6. CASE Counts(t)
  <2>1. p \in States \X (1..Rules)
    BY <1>1, <1>2, <1>6 DEF Counts
  <2>2. p \notin Fired
    BY <1>1, <1>2, <1>6 DEF Counts, Fired
  <2>3. Fired' = Fired \cup {p}
    BY <1>4, <1>5, <1>6, <2>1
  <2>. QED
    BY <1>6, <2>1, <2>2, <2>3
<1>7. CASE ~Counts(t)
  BY <1>4, <1>5, <1>7
<1>. QED
  BY <1>6, <1>7

LEMMA ShareGrows ==
    ASSUME SearchInv, NEW t \in Threads, Passes(t), NEW F, Share(F),
           \A u \in Threads :
              th'[u].fired = IF u = t /\ Counts(t) THEN th[u].fired + 1 ELSE th[u].fired
    PROVE  \E G : Share(G)'
<1>. DEFINE Pairs == States \X (1..Rules)
<1>1. Threads' = Threads /\ model' = model
  BY ModelKept DEF Passes
<1>2. PICK p : p = <<th[t].s, th[t].rule_taken>>
  OBVIOUS
<1>3. CASE ~Counts(t)
  <2>1. Fired' = Fired
    BY <1>2, <1>3, FiredGrows
  <2>2. Share(F)'
    BY <1>1, <1>3, <2>1 DEF Share
  <2>. QED
    BY <2>2
<1>4. CASE Counts(t)
  <2>1. p \in Pairs /\ p \notin Fired /\ Fired' = Fired \cup {p}
    BY <1>2, <1>4, FiredGrows
  <2>2. /\ F \in [Threads -> SUBSET Pairs]
        /\ \A u \in Threads : IsFiniteSet(F[u]) /\ Cardinality(F[u]) = th[u].fired
        /\ \A u, v \in Threads : u # v => F[u] \cap F[v] = {}
        /\ UNION {F[u] : u \in Threads} = Fired
    BY DEF Share
  <2>. HIDE DEF Pairs
  <2>3. PICK G : G = [F EXCEPT ![t] = F[t] \cup {p}]
    OBVIOUS
  <2>4. /\ G \in [Threads -> SUBSET Pairs] /\ G[t] = F[t] \cup {p}
        /\ \A u \in Threads \ {t} : G[u] = F[u]
    BY <2>1, <2>2, <2>3
  <2>5. p \notin F[t] /\ \A u \in Threads : p \notin F[u]
    BY <2>1, <2>2
  <2>6. IsFiniteSet(G[t]) /\ Cardinality(G[t]) = Cardinality(F[t]) + 1
    BY <2>2, <2>4, <2>5, FS_AddElement
  <2>7. \A u \in Threads : IsFiniteSet(G[u]) /\ Cardinality(G[u]) = th'[u].fired
    BY <1>4, <2>2, <2>4, <2>6
  <2>8. \A u, v \in Threads : u # v => G[u] \cap G[v] = {}
    <3>1. ASSUME NEW u \in Threads, NEW v \in Threads, u # v PROVE G[u] \cap G[v] = {}
      <4>1. F[u] \cap F[v] = {} /\ p \notin F[u] /\ p \notin F[v]
        BY <2>2, <2>5, <3>1
      <4>2. G[u] \subseteq F[u] \cup {p} /\ (u # t => G[u] = F[u])
        BY <2>4
      <4>3. G[v] \subseteq F[v] \cup {p} /\ (v # t => G[v] = F[v])
        BY <2>4
      <4>. QED
        BY <3>1, <4>1, <4>2, <4>3
    <3>. QED
      BY <3>1
  <2>9. UNION {G[u] : u \in Threads} = Fired \cup {p}
    <3>1. \A q : q \in UNION {G[u] : u \in Threads} <=> \E u \in Threads : q \in G[u]
      OBVIOUS
    <3>2. \A q : q \in Fired <=> \E u \in Threads : q \in F[u]
      BY <2>2
    <3>3. \A q : (\E u \in Threads : q \in G[u]) <=> (\E u \in Threads : q \in F[u]) \/ q = p
      BY <2>4
    <3>. QED
      BY <3>1, <3>2, <3>3
  <2>10. Share(G)'
    BY <1>1, <2>1, <2>4, <2>7, <2>8, <2>9 DEF Share, Pairs
  <2>. QED
    BY <2>10
<1>. QED
  BY <1>3, <1>4

\* Once errors have stopped the search they keep doing so.
LEMMA StaysStopped ==
    ASSUME SearchInv, SearchInv', NEW t \in Threads, Step(t), Stopped
    PROVE  Stopped'
<1>1. Reporting /\ MAX_ERRORS' = MAX_ERRORS
  BY StepReports, ModelKept
<1>2. error_count \in Nat /\ error_count' \in Nat /\ MAX_ERRORS \in Nat
  BY ModelFields DEF SearchInv, Typed
<1>3. error_count' >= error_count /\ reports \subseteq reports'
  BY <1>1, <1>2 DEF Reporting, Stopped
<1>. QED
  BY <1>1, <1>2, <1>3 DEF Stopped, Reporting

LEMMA FiredNext == SearchInv /\ FiredInv /\ [Next]_vars => FiredInv'
<1>. SUFFICES ASSUME SearchInv, FiredInv, [Next]_vars, ~Stopped' PROVE FiredRight'
  BY DEF FiredInv
<1>1. ASSUME NEW t \in Threads, Step(t) PROVE FiredRight'
  <2>1. ~Stopped /\ FiredRight /\ Passes(t) /\ Tally(t)
    BY <1>1, SearchInvNext, StaysStopped, StepPasses DEF FiredInv
  <2>2. Threads' = Threads
    BY <2>1, ModelKept DEF Passes
  <2>3. \A u \in Threads : Early(th[u]) => th[u].fired = 0 /\ ~(u = t /\ Counts(t))
    BY <2>1 DEF FiredRight, Counts, Runs, Early, Starting, New
  <2>4. \A u \in Threads :
           th'[u].fired = IF u = t /\ Counts(t) THEN th[u].fired + 1 ELSE th[u].fired
    BY <2>1, <2>3 DEF Tally
  <2>5. \E G : Share(G)'
    BY <2>1, <2>4, ShareGrows DEF FiredRight
  <2>6. \A u \in Threads : Early(th'[u]) => th'[u].fired = 0
    BY <2>1, <2>3, <2>4 DEF Tally
  <2>7. \A u \in Threads : HandedIn(th'[u]) => rules_fired'[u] = th'[u].fired
    BY <2>1 DEF Tally, FiredRight
  <2>8. \A u \in Threads : Early(th[u])' <=> Early(th'[u])
    BY DEF Early, Starting
  <2>9. \A u \in Threads : HandedIn(th[u])' <=> HandedIn(th'[u])
    BY DEF HandedIn
  <2>. QED
    BY <2>2, <2>5, <2>6, <2>7, <2>8, <2>9 DEF FiredRight
<1>2. CASE UNCHANGED vars
  <2>1. FiredRight' <=> FiredRight
    BY <1>2 DEF vars, FiredRight, Share, Fired, Firing, RunOn, InQueue, Waits, Ran, seen,
       BelowBound, Threads, THREADS, BOUND, Early, Starting, HandedIn
  <2>2. Stopped' <=> Stopped
    BY <1>2, ModelKept DEF vars, Stopped
  <2>. QED
    BY <2>1, <2>2 DEF FiredInv
<1>. QED
  BY <1>1, <1>2 DEF Next, Done

LEMMA TotalFiredIs ==
    ASSUME THREADS \in Nat
    PROVE  /\ TotalFired[0] = 0
           /\ \A k \in 1..THREADS : TotalFired[k] = TotalFired[k-1] + rules_fired[k-1]
<1>. DEFINE Body(n, a) == [k \in 0..n |-> IF k = 0 THEN 0 ELSE a[k-1] + rules_fired[k-1]]
            T == {n \in Nat : \E a : a = Body(n, a)}
<1>1. PICK N \in Nat : N = THREADS
  OBVIOUS
<1>2. 0 \in T
  <2>1. PICK a : a = [k \in 0..0 |-> 0]
    OBVIOUS
  <2>2. a = Body(0, a)
    BY <2>1
  <2>. QED
    BY <2>2
<1>3. ASSUME NEW n \in Nat, n \in T PROVE n + 1 \in T
  <2>1. PICK a : a = Body(n, a)
    BY <1>3
  <2>2. PICK b : b = [k \in 0..n+1 |-> IF k = n + 1 THEN a[n] + rules_fired[n] ELSE a[k]]
    OBVIOUS
  <2>3. ASSUME NEW k \in 0..n+1
        PROVE  b[k] = IF k = 0 THEN 0 ELSE b[k-1] + rules_fired[k-1]
    <3>1. CASE k = n + 1
      <4>1. k # 0 /\ k - 1 = n /\ n \in 0..n+1 /\ n # n + 1
        BY <3>1
      <4>. QED
        BY <2>2, <3>1, <4>1
    <3>2. CASE k = 0
      BY <2>1, <2>2, <3>2
    <3>3. CASE k # 0 /\ k # n + 1
      <4>1. k \in 0..n /\ k - 1 \in 0..n /\ k - 1 \in 0..n+1 /\ k - 1 # n + 1
        BY <3>3
      <4>2. a[k] = a[k-1] + rules_fired[k-1]
        BY <2>1, <3>3, <4>1
      <4>. QED
        BY <2>2, <3>3, <4>1, <4>2
    <3>. QED
      BY <3>1, <3>2, <3>3
  <2>4. b = Body(n + 1, b)
    BY <2>2, <2>3
  <2>. QED
    BY <2>4
<1>4. N \in T
  <2>. HIDE DEF T
  <2>1. \A k \in 0..N : k \in T
    BY <1>2, <1>3, UpTo
  <2>. QED
    BY <2>1
<1>5. \E a : a = Body(N, a)
  BY <1>4
<1>6. TotalFired = Body(N, TotalFired)
  <2>1. TotalFired = CHOOSE a : a = Body(N, a)
    BY <1>1 DEF TotalFired
  <2>. QED
    BY <1>5, <2>1
<1>. HIDE DEF Body
<1>7. \A k \in 0..N : TotalFired[k] = IF k = 0 THEN 0 ELSE TotalFired[k-1] + rules_fired[k-1]
  BY <1>6 DEF Body
<1>. QED
  BY <1>1, <1>7

\* Sets that have nothing in common add up.
LEMMA TotalIsSize ==
    ASSUME THREADS \in Nat, NEW F,
           \A u \in Threads : IsFiniteSet(F[u]) /\ Cardinality(F[u]) = rules_fired[u],
           \A u, v \in Threads : u # v => F[u] \cap F[v] = {}
    PROVE  TotalFired[THREADS] = Cardinality(UNION {F[u] : u \in Threads})
<1>. DEFINE Union(k) == UNION {F[u] : u \in 0..k-1}
            T == {k \in Nat : IsFiniteSet(Union(k)) /\ Cardinality(Union(k)) = TotalFired[k]}
<1>1. PICK N \in Nat : N = THREADS
  OBVIOUS
<1>2. 0 \in T
  <2>1. Union(0) = {}
    OBVIOUS
  <2>. QED
    BY <1>1, <2>1, FS_EmptySet, TotalFiredIs
<1>3. ASSUME NEW k \in 0..N-1, k \in T PROVE k + 1 \in T
  <2>1. k \in Threads /\ k \in Nat /\ k + 1 \in 1..N /\ 0..k = (0..k-1) \cup {k}
    BY <1>1 DEF Threads
  <2>2. TotalFired[k+1] = TotalFired[k] + rules_fired[k]
    BY <1>1, <2>1, TotalFiredIs
  <2>3. Union(k+1) = Union(k) \cup F[k]
    BY <2>1
  <2>4. Union(k) \cap F[k] = {}
    BY <1>1 DEF Threads
  <2>5. IsFiniteSet(F[k]) /\ Cardinality(F[k]) = rules_fired[k]
    BY <2>1
  <2>6. PICK A, B : A = Union(k) /\ B = F[k]
    OBVIOUS
  <2>7. IsFiniteSet(A) /\ IsFiniteSet(B) /\ A \cap B = {} /\ Cardinality(A) = TotalFired[k]
    BY <1>3, <2>4, <2>5, <2>6
  <2>8. IsFiniteSet(A \cup B)
        /\ Cardinality(A \cup B) = Cardinality(A) + Cardinality(B) - Cardinality(A \cap B)
    BY <2>7, FS_Union
  <2>9. /\ Cardinality(A) \in Nat /\ Cardinality(B) \in Nat /\ Cardinality(A \cap B) = 0
    BY <2>7, FS_CardinalityType, FS_EmptySet
  <2>10. Cardinality(A \cup B) = TotalFired[k+1]
    BY <2>2, <2>5, <2>6, <2>7, <2>8, <2>9
  <2>11. Union(k+1) = A \cup B /\ k + 1 \in Nat
    BY <2>1, <2>3, <2>6
  <2>. HIDE DEF Union
  <2>. QED
    BY <2>8, <2>10, <2>11
<1>4. N \in T
  <2>. HIDE DEF T
  <2>1. \A k \in 0..N : k \in T
    BY <1>2, <1>3, UpTo
  <2>. QED
    BY <2>1
<1>. QED
  BY <1>1, <1>4 DEF Threads

\* At the end nothing waits: each state that was to be expanded has been, and the
\* counts of all threads are in.
LEMMA RulesFiredHold ==
    ASSUME SearchInv, FiredInv,
           Finished /\ NotCutShort => Expanded = {s \in seen \ model.raising : BelowBound(s)}
    PROVE  RulesFiredExact
<1>. SUFFICES ASSUME Finished, NotCutShort
     PROVE  TotalFired[THREADS] = Cardinality({sr \in Expanded \X (1..Rules) :
                                                  sr[2] \in Firing(sr[1])})
  BY DEF RulesFiredExact
<1>. USE DEF SearchInv
<1>1. /\ ~Stopped /\ 0 \in Threads /\ THREADS \in Nat /\ phase \in {"warmup", "run"}
      /\ seen \subseteq States
  BY ModelFields DEF Stopped, Typed, NotCutShort
<1>2. th[0].pc = "exited" /\ (phase = "run" => \A u \in Threads \ {0} : At(u, "exited"))
  BY DEF Ending, Finished, Joined
<1>3. Expanded = {s \in seen \ model.raising : BelowBound(s)}
  OBVIOUS
<1>4. ASSUME NEW u \in Threads
      PROVE  /\ Shaped(u, th[u]) /\ Exits(u, th[u])
             /\ th[u].pc \in {"exited", "unborn"} /\ (th[u].pc = "unborn" => phase = "warmup")
  <2>1. Shaped(u, th[u]) /\ Exits(u, th[u])
    BY DEF ThreadsOK, ThreadOK
  <2>. QED
    BY <1>1, <1>2, <2>1 DEF Shaped, At
<1>5. ASSUME NEW k \in Threads PROVE queue[k] = <<>>
  <2>1. CASE phase = "warmup"
    BY <1>1, <1>2, <1>4, <2>1 DEF Exits, Kept, Over
  <2>2. CASE phase = "run"
    BY <1>1, <1>2, <1>4, <2>2 DEF Exits, Kept, Over, At
  <2>. QED
    BY <1>1, <2>1, <2>2
<1>6. \A s : ~InQueue(s)
  BY <1>5 DEF InQueue, Elements
<1>7. ASSUME NEW u \in Threads, NEW s \in States, NEW r PROVE ~Waits(th[u], s, r)
  <2>1. th[u].n = NoState /\ th[u].pc \notin Active /\ s # NoState
    BY <1>4, ModelFields DEF Shaped, Active, New, Typed
  <2>. QED
    BY <2>1 DEF Waits
<1>8. \A s \in States, r \in 1..Rules : RunOn(s, r) <=> s \in Expanded
  BY <1>3, <1>6, <1>7 DEF RunOn
<1>9. Fired = {sr \in Expanded \X (1..Rules) : sr[2] \in Firing(sr[1])}
  <2>1. \A p \in States \X (1..Rules) : RunOn(p[1], p[2]) <=> p[1] \in Expanded
    BY <1>8
  <2>2. Expanded \subseteq States
    BY <1>1, <1>3
  <2>. QED
    BY <2>1, <2>2 DEF Fired
<1>10. FiredRight /\ \A u \in Threads : HandedIn(th[u])
  BY <1>1, <1>4 DEF FiredInv, HandedIn
<1>11. PICK F : Share(F)
  BY <1>10 DEF FiredRight
<1>12. /\ \A u \in Threads : IsFiniteSet(F[u]) /\ Cardinality(F[u]) = rules_fired[u]
       /\ \A u, v \in Threads : u # v => F[u] \cap F[v] = {}
       /\ UNION {F[u] : u \in Threads} = Fired
  BY <1>10, <1>11 DEF FiredRight, Share
<1>13. TotalFired[THREADS] = Cardinality(Fired)
  BY <1>1, <1>12, TotalIsSize
<1>. QED
  BY <1>9, <1>13

LEMMA FiredUnbounded ==
    ASSUME SearchInv, BOUND = 0, Finished, NotCutShort
    PROVE  Expanded = {s \in seen \ model.raising : BelowBound(s)}
<1>1. seen = ReachableStates
  BY SearchIsComplete DEF Complete
<1>. QED
  BY <1>1 DEF Expanded, BelowBound

LEMMA FiredInvariant == Spec => []FiredInv
<1>1. Init => FiredInv
  BY FiredInit
<1>2. SearchInv /\ FiredInv /\ [Next]_vars => FiredInv'
  BY FiredNext
<1>. QED
  BY <1>1, <1>2, ExploreSearchInvariant, PTL DEF Spec

\* Without a bound all that is printed of the errors and counts is true: the errors
\* exist, there are no more than asked for, and the number of rules fired is that of
\* the rules of the reachable states, each run once (error, exit_with).
THEOREM ExploreReportsTrue == Spec => [](BOUND = 0 => ReportsTrue)
<1>1. SearchInv /\ FiredInv /\ ReportsReal /\ ReportsBounded => (BOUND = 0 => ReportsTrue)
  BY RulesFiredHold, FiredUnbounded DEF ReportsTrue
<1>. QED
  BY <1>1, ExploreSearchInvariant, FiredInvariant, ExploreReportsReal, ExploreReportsBounded,
     PTL

-----------------------------------------------------------------------------
(***************************************************************************)
(* Breadth-first search by one thread.                                     *)
(***************************************************************************)

\* d[s] is the number of states on the path that s was found by; none lead to a
\* start state.
Level(d, s) == IF s = NoState THEN 0 ELSE d[s]
Levels(d) ==
    /\ d \in [seen -> Nat \ {0}]
    /\ \A s \in seen : /\ d[s] = Level(d, node[s].previous) + 1
                       /\ node[s].bound = IF BOUND = 0 THEN 0 ELSE d[s] - 1

\* The queue q holds states of the level c, then those of the next.
Ordered(d, q, c) ==
    /\ \A i \in 1..Len(q) : q[i] \in seen /\ c <= d[q[i]]
    /\ \A i, j \in 1..Len(q) : i < j => d[q[i]] <= d[q[j]]

\* The levels before c have been explored.
Behind(d, c) ==
    /\ \A s \in seen \ model.raising : d[s] < c =>
          \A n \in Successors(s) : n \in seen /\ d[n] <= d[s] + 1
    /\ c > 0 => \A s \in StartStates : s \in seen /\ d[s] = 1

\* A thread with local variables l runs the rules of a state of level c.
Breadth(d, l, q) ==
    LET c == Level(d, l.s)
    IN  /\ Levels(d)
        /\ \A s \in seen : d[s] <= c + 1
        /\ l.n # NoState => d[l.n] = c + 1
        /\ Ordered(d, q, c)
        /\ Behind(d, c)

BreadthInv ==
    THREADS = 1 =>
        /\ \E d : Breadth(d, th[0], queue[0])
        /\ th[0].pc \notin Over => error_count < MAX_ERRORS

\* The thread goes on with x and leaves the queue and the seen states alone.
Calm(t, x) ==
    /\ th' = [th EXCEPT ![t] = x] /\ x.s = th[t].s /\ x.n \in {th[t].n, NoState}
    /\ UNCHANGED <<model, queue>> /\ seen' = seen
    /\ \A s \in seen : node'[s].previous = node[s].previous /\ node'[s].bound = node[s].bound
    /\ x.pc \notin Over => th[t].pc \notin Over
          /\ (error_count < MAX_ERRORS => error_count' < MAX_ERRORS)

\* The levels are those of before when no state is inserted.
LEMMA LevelsStay ==
    ASSUME model' = model, seen' = seen,
           \A s \in seen : node'[s].previous = node[s].previous /\ node'[s].bound = node[s].bound,
           NEW CONSTANT d, NEW CONSTANT c, NEW CONSTANT q
    PROVE  /\ Levels(d)' <=> Levels(d)
           /\ Ordered(d, q, c)' <=> Ordered(d, q, c)
           /\ Behind(d, c)' <=> Behind(d, c)
<1>1. BOUND' = BOUND /\ StartStates' = StartStates /\ \A s : Successors(s)' = Successors(s)
  BY ModelKept
<1>2. Levels(d)' <=> Levels(d)
  BY <1>1 DEF Levels, Level
<1>3. Ordered(d, q, c)' <=> Ordered(d, q, c)
  BY DEF Ordered
<1>4. Behind(d, c)' <=> Behind(d, c)
  BY <1>1 DEF Behind
<1>. QED
  BY <1>2, <1>3, <1>4

\* A thread that leaves the queue and the seen states alone stays on its level.
LEMMA CalmKeeps ==
    ASSUME SearchInv, BreadthInv, NEW t \in Threads, NEW x, Calm(t, x)
    PROVE  BreadthInv'
<1>1. /\ THREADS' = THREADS
      /\ THREADS = 1 => t = 0 /\ th'[0] = x /\ th[0] \in Locals /\ queue' = queue
  BY ModelKept DEF SearchInv, Typed, Threads, Calm
<1>2. ASSUME THREADS = 1, NEW CONSTANT d, Breadth(d, th[0], queue[0])
      PROVE  Breadth(d, th[0], queue[0])'
  <2>1. t = 0 /\ th'[0] = x /\ x.s = th[0].s /\ x.n \in {th[0].n, NoState} /\ seen' = seen
        /\ queue' = queue
    BY <1>1, <1>2 DEF Calm
  <2>2. PICK c, q : c = Level(d, th[0].s) /\ q = queue[0]
    OBVIOUS
  <2>3. c = Level(d, th[0].s)'
    BY <2>1, <2>2 DEF Level
  <2>4. /\ Levels(d)' <=> Levels(d)
        /\ Ordered(d, q, c)' <=> Ordered(d, q, c)
        /\ Behind(d, c)' <=> Behind(d, c)
    BY <2>1, LevelsStay DEF Calm
  <2>5. Levels(d) /\ (\A s \in seen : d[s] <= c + 1) /\ Ordered(d, q, c) /\ Behind(d, c)
        /\ (th[0].n # NoState => d[th[0].n] = c + 1)
    BY <1>2, <2>2 DEF Breadth
  <2>. QED
    BY <2>1, <2>2, <2>3, <2>4, <2>5 DEF Breadth
<1>3. THREADS = 1 /\ th'[0].pc \notin Over => error_count' < MAX_ERRORS'
  BY <1>1, ModelKept DEF BreadthInv, Calm
<1>. QED
  BY <1>1, <1>2, <1>3 DEF BreadthInv

\* A step that inserts no state and leaves the queue alone, of a thread that goes on
\* with x.
LEMMA CalmMove ==
    ASSUME SearchInv, NEW t \in Threads, Step(t), ~InsertNew(t), NEW x,
           th' = [th EXCEPT ![t] = x], queue' = queue,
           x.s = th[t].s, x.n \in {th[t].n, NoState},
           \/ x.pc \in Over
           \/ th[t].pc \notin Over /\ (error_count < MAX_ERRORS => error_count' < MAX_ERRORS)
    PROVE  \E y : Calm(t, y)
<1>1. /\ model' = model /\ seen' = seen
      /\ \A s \in seen : node'[s].previous = node[s].previous /\ node'[s].bound = node[s].bound
  BY SourcesStay
<1>2. Calm(t, x)
  BY <1>1 DEF Calm
<1>. QED
  BY <1>2

\* A thread that may go on after an error has found fewer than MAX_ERRORS.
LEMMA CalmError ==
    ASSUME SearchInv, NEW t \in Threads, Step(t), ~InsertNew(t), th[t].pc \notin Over,
           NEW kind, NEW trace, NEW y \in Locals, Error(t, kind, trace, y),
           y.s = th[t].s, y.n \in {th[t].n, NoState}
    PROVE  \E x : Calm(t, x)
<1>1. /\ error_count' = error_count + 1 /\ queue' = queue
      /\ th' = [th EXCEPT ![t] = IF error_count + 1 < MAX_ERRORS THEN y
                                   ELSE [y EXCEPT !.pc = "exit", !.status = 1]]
  BY DEF Error, Continues
<1>2. CASE error_count + 1 < MAX_ERRORS
  <2>1. th' = [th EXCEPT ![t] = y] /\ error_count' < MAX_ERRORS
    BY <1>1, <1>2
  <2>. QED
    BY <1>1, <2>1, CalmMove
<1>3. CASE ~(error_count + 1 < MAX_ERRORS)
  <2>1. PICK x : x = [y EXCEPT !.pc = "exit", !.status = 1]
    OBVIOUS
  <2>2. x.pc = "exit" /\ x.s = y.s /\ x.n = y.n
    BY <2>1 DEF Locals
  <2>3. th' = [th EXCEPT ![t] = x]
    BY <1>1, <1>3, <2>1
  <2>. QED
    BY <1>1, <2>2, <2>3, CalmMove DEF Over
<1>. QED
  BY <1>2, <1>3

\* The rules that yield no new state, and properties that raise an error.
LEMMA CalmRules ==
    ASSUME SearchInv, NEW t \in Threads, Step(t), ~InsertNew(t),
           DiscardState(t) \/ InsertDuplicate(t) \/ FailRule(t) \/ FailProperty(t)
    PROVE  \E x : Calm(t, x)
<1>. USE DEF SearchInv
<1>1. th[t] \in Locals /\ model \in Models /\ error_count \in Nat
  BY DEF Typed
<1>2. CASE DiscardState(t) \/ InsertDuplicate(t) \/ FailRule(t)
  <2>1. InInit(t) \/ InRules(t)
    BY <1>2 DEF DiscardState, InsertDuplicate, FailRule
  <2>2. th[t].pc \notin Over /\ Outcome(t) \in States \cup NotStates
    BY <2>1, OutcomeIs DEF Over
  <2>3. PICK o \in States \cup NotStates : o = Outcome(t)
    BY <2>2
  <2>4. ASSUME o \in States
        PROVE  AfterRule(t) \in Locals /\ AfterRule(t).s = th[t].s /\ AfterRule(t).n = th[t].n
    BY <2>1, <2>3, <2>4, AfterRuleFields
  <2>5. PICK l \in Locals : /\ l.s = th[t].s /\ l.n = th[t].n
                            /\ \/ \E kind, trace : Error(t, kind, trace, NextRule(l))
                               \/ /\ th' = [th EXCEPT ![t] = NextRule(l)]
                                  /\ queue' = queue /\ error_count' = error_count
    <3>1. CASE DiscardState(t)
      <4>1. queue' = queue /\ error_count' = error_count
            /\ \/ th' = [th EXCEPT ![t] = NextRule(th[t])]
               \/ o \in States /\ th' = [th EXCEPT ![t] = NextRule(AfterRule(t))]
        BY <2>3, <3>1 DEF DiscardState
      <4>. QED
        BY <1>1, <2>4, <4>1
    <3>2. CASE InsertDuplicate(t)
      <4>1. queue' = queue /\ error_count' = error_count /\ o \in States
            /\ th' = [th EXCEPT ![t] = NextRule(AfterRule(t))]
        BY <2>3, <3>2 DEF InsertDuplicate, Typed
      <4>. QED
        BY <2>4, <4>1
    <3>3. CASE FailRule(t)
      <4>1. \/ Error(t, o, NewTrace(t, NoState), NextRule(th[t]))
            \/ /\ MeetsAssumptions(o) /\ ~MeetsInvariants(o)
               /\ Error(t, "invariant", NewTrace(t, o), NextRule(AfterRule(t)))
        BY <2>3, <3>3 DEF FailRule
      <4>2. MeetsAssumptions(o) /\ ~MeetsInvariants(o) => o \in States
        BY <1>1, OutcomeFacts
      <4>. QED
        BY <1>1, <2>4, <4>1, <4>2
    <3>. QED
      BY <1>2, <3>1, <3>2, <3>3
  <2>6. PICK y : y = NextRule(l)
    OBVIOUS
  <2>7. y \in Locals /\ y.s = th[t].s /\ y.n = NoState
    BY <1>1, <2>5, <2>6, NextRuleFields
  <2>8. CASE \E kind, trace : Error(t, kind, trace, NextRule(l))
    BY <2>2, <2>6, <2>7, <2>8, CalmError
  <2>9. CASE th' = [th EXCEPT ![t] = NextRule(l)] /\ queue' = queue /\ error_count' = error_count
    BY <2>2, <2>6, <2>7, <2>9, CalmMove
  <2>. QED
    BY <2>5, <2>8, <2>9
<1>3. CASE FailProperty(t)
  <2>1. th[t].pc = "raise" /\ Error(t, "property", Trace(th[t].n), NextRule(th[t]))
    BY <1>3 DEF FailProperty, At
  <2>2. PICK y : y = NextRule(th[t])
    OBVIOUS
  <2>3. y \in Locals /\ y.s = th[t].s /\ y.n = NoState
    BY <1>1, <2>2, NextRuleFields
  <2>. QED
    BY <2>1, <2>2, <2>3, CalmError DEF Over
<1>. QED
  BY <1>2, <1>3

\* The loop of explore(), apart from what it dequeues.
LEMMA CalmLoop ==
    ASSUME SearchInv, NEW t \in Threads, Step(t), ~InsertNew(t),
           EndInit(t) \/ LoopTop(t) \/ DequeueNothing(t) \/ EndRules(t) \/ Exit(t)
    PROVE  \E x : Calm(t, x)
<1>. USE DEF SearchInv
<1>1. th[t] \in Locals /\ ThreadOK(t, th[t]) /\ error_count \in Nat
  BY DEF Typed, ThreadsOK
<1>2. CASE EndInit(t)
  <2>1. PICK x : x = StartLocals(t, "top")
    OBVIOUS
  <2>2. th[t].pc = "init" /\ th' = [th EXCEPT ![t] = x] /\ queue' = queue
        /\ error_count' = error_count
    BY <1>2, <2>1 DEF EndInit, At
  <2>3. th[t].s = NoState /\ x.s = NoState /\ x.n = NoState
    BY <1>1, <2>1, <2>2 DEF ThreadOK, Shaped, StartLocals
  <2>. QED
    BY <2>2, <2>3, CalmMove DEF Over
<1>3. ASSUME NEW g \in Labels, NEW x, th[t].pc \notin Over \/ g \in Over,
             \/ x = [th[t] EXCEPT !.pc = g]
             \/ x = [th[t] EXCEPT !.attempts = 0, !.pc = g]
             \/ x = [th[t] EXCEPT !.attempts = NextAttempt(t),
                                  !.queue_id = NextQueue(th[t].queue_id), !.pc = g],
             th' = [th EXCEPT ![t] = x], queue' = queue, error_count' = error_count
      PROVE  \E y : Calm(t, y)
  <2>1. x.pc = g /\ x.s = th[t].s /\ x.n = th[t].n
    BY <1>1, <1>3 DEF Locals
  <2>. QED
    BY <1>3, <2>1, CalmMove
<1>4. CASE LoopTop(t)
  <2>1. PICK g : g = IF THREADS > 1 /\ error_count >= MAX_ERRORS THEN "exit" ELSE "dequeue"
    OBVIOUS
  <2>2. PICK x : x = [th[t] EXCEPT !.attempts = 0, !.pc = g]
    OBVIOUS
  <2>3. th[t].pc = "top" /\ th' = [th EXCEPT ![t] = x] /\ queue' = queue
        /\ error_count' = error_count
    BY <1>4, <2>1, <2>2 DEF LoopTop, At
  <2>. QED
    BY <1>3, <2>1, <2>2, <2>3 DEF Labels, Over
<1>5. CASE DequeueNothing(t)
  <2>1. PICK g : g = IF AllTried(t) THEN "exit" ELSE "dequeue"
    OBVIOUS
  <2>2. PICK x : x = [th[t] EXCEPT !.attempts = NextAttempt(t),
                                   !.queue_id = NextQueue(th[t].queue_id), !.pc = g]
    OBVIOUS
  <2>3. th[t].pc = "dequeue" /\ th' = [th EXCEPT ![t] = x] /\ queue' = queue
        /\ error_count' = error_count
    BY <1>5, <2>1, <2>2 DEF DequeueNothing, At
  <2>. QED
    BY <1>3, <2>1, <2>2, <2>3 DEF Labels, Over
<1>6. CASE Exit(t)
  <2>1. PICK g : g = IF t = 0 THEN "join" ELSE "exited"
    OBVIOUS
  <2>2. PICK x : x = [th[t] EXCEPT !.pc = g]
    OBVIOUS
  <2>3. th[t].pc = "exit" /\ th' = [th EXCEPT ![t] = x] /\ queue' = queue
        /\ error_count' = error_count
    BY <1>6, <2>1, <2>2 DEF Exit, At
  <2>. QED
    BY <1>3, <2>1, <2>2, <2>3 DEF Labels, Over
<1>7. CASE EndRules(t)
  <2>1. PICK x : x = [th[t] EXCEPT !.pc = "top"]
    OBVIOUS
  <2>2. /\ th[t].pc = "rule"
        /\ \/ \E trace : Error(t, "deadlock", trace, x)
           \/ th' = [th EXCEPT ![t] = x] /\ queue' = queue /\ error_count' = error_count
    BY <1>7, <2>1 DEF EndRules, At
  <2>3. x \in Locals /\ x.s = th[t].s /\ x.n = th[t].n
    BY <1>1, <2>1 DEF Locals, Labels
  <2>4. CASE \E trace : Error(t, "deadlock", trace, x)
    BY <2>2, <2>3, <2>4, CalmError DEF Over
  <2>5. CASE th' = [th EXCEPT ![t] = x] /\ queue' = queue /\ error_count' = error_count
    BY <1>3, <2>1, <2>2, <2>5 DEF Labels, Over
  <2>. QED
    BY <2>2, <2>4, <2>5
<1>. QED
  BY <1>2, <1>4, <1>5, <1>6, <1>7

\* Marking states, and what comes after the search.
LEMMA CalmEnd ==
    ASSUME SearchInv, NEW t \in Threads, Step(t), ~InsertNew(t),
           MarkLiveness(t) \/ Join(t) \/ Learn(t) \/ Summarise(t)
    PROVE  \E x : Calm(t, x)
<1>. USE DEF SearchInv
<1>1. th \in [Threads -> Locals] /\ th[t] \in Locals /\ error_count \in Nat
  BY SMTT(30) DEF Typed
<1>2. CASE MarkLiveness(t)
  <2>1. PICK l, p, g : l = th[t] /\ p = NextMark(l) /\ g = IF l.todo = {p} THEN "enqueue" ELSE "mark"
    OBVIOUS
  <2>2. /\ l.pc = "mark" /\ queue' = queue /\ error_count' = error_count
        /\ th' = [th EXCEPT ![t] =
                   IF MarksOn(l.at, p) THEN [l EXCEPT !.at = node[l.at].previous]
                   ELSE [l EXCEPT !.todo = l.todo \ {p}, !.at = l.n, !.pc = g]]
    BY <1>2, <2>1 DEF MarkLiveness, At
  <2>3. PICK x : /\ th' = [th EXCEPT ![t] = x]
                 /\ \/ x = [l EXCEPT !.at = node[l.at].previous]
                    \/ x = [l EXCEPT !.todo = l.todo \ {p}, !.at = l.n, !.pc = g]
    BY <2>2
  <2>4. x.s = l.s /\ x.n = l.n
    BY <1>1, <2>1, <2>3 DEF Locals
  <2>. QED
    BY <2>1, <2>2, <2>3, <2>4, CalmMove DEF Over
<1>3. CASE Learn(t)
  <2>1. th[t].pc = "learn" /\ th' = th /\ queue' = queue
    BY <1>3 DEF Learn, At
  <2>2. th' = [th EXCEPT ![t] = th[t]]
    BY <1>1, <2>1
  <2>. QED
    BY <2>1, <2>2, CalmMove DEF Over
<1>4. ASSUME NEW g \in Over, NEW v, NEW x, x = [th[t] EXCEPT !.status = v, !.pc = g],
             th' = [th EXCEPT ![t] = x], queue' = queue
      PROVE  \E y : Calm(t, y)
  <2>1. x.pc = g /\ x.s = th[t].s /\ x.n = th[t].n
    BY <1>1, <1>4 DEF Locals
  <2>. QED
    BY <1>4, <2>1, CalmMove
<1>5. CASE Join(t)
  <2>1. PICK g, v : /\ g = IF error_count' = 0 /\ Liveness # {} THEN "learn" ELSE "exited"
                    /\ v = IF Failed \/ error_count' # error_count THEN 1 ELSE 0
    OBVIOUS
  <2>2. PICK x : x = [th[t] EXCEPT !.status = v, !.pc = g]
    OBVIOUS
  <2>3. th' = [th EXCEPT ![t] = x] /\ queue' = queue
    BY <1>5, <2>1, <2>2 DEF Join
  <2>4. g \in Over
    BY <2>1 DEF Over
  <2>. QED
    BY <1>4, <2>2, <2>3, <2>4
<1>6. CASE Summarise(t)
  <2>1. PICK v : v = IF Missed # {} THEN 1 ELSE th[t].status
    OBVIOUS
  <2>2. PICK x : x = [th[t] EXCEPT !.status = v, !.pc = "exited"]
    OBVIOUS
  <2>3. th' = [th EXCEPT ![t] = x] /\ queue' = queue
    BY <1>6, <2>1, <2>2 DEF Summarise
  <2>. QED
    BY <1>4, <2>2, <2>3 DEF Over
<1>. QED
  BY <1>2, <1>3, <1>5, <1>6

\* A new state is one level below the one whose rules are run.
LEMMA InsertNewBreadth ==
    ASSUME SearchInv, BreadthInv, NEW t \in Threads, InsertNew(t)
    PROVE  BreadthInv'
<1>. USE DEF SearchInv
<1>1. PICK l, n : l = th[t] /\ n = Outcome(t)
  OBVIOUS
<1>2. /\ InInit(t) \/ InRules(t)
      /\ n \in States \ seen
      /\ node' = [x \in seen \cup {n} |->
                    IF x = n THEN [previous |-> l.s, rule_taken |-> l.rule_taken,
                                   bound |-> NewBound(t), liveness |-> {}]
                             ELSE node[x]]
      /\ UNCHANGED <<model, queue, error_count>>
      /\ \E x : Inserted(l, n, x) /\ th' = [th EXCEPT ![t] = x]
  BY <1>1, InsertNewIs
<1>3. PICK x : Inserted(l, n, x) /\ th' = [th EXCEPT ![t] = x]
  BY <1>2
<1>4. /\ seen' = seen \cup {n} /\ node'[n].previous = l.s /\ node'[n].bound = NewBound(t)
      /\ \A s \in seen : node'[s].previous = node[s].previous /\ node'[s].bound = node[s].bound
  BY <1>2 DEF seen
<1>5. /\ THREADS' = THREADS /\ MAX_ERRORS' = MAX_ERRORS /\ BOUND' = BOUND
      /\ StartStates' = StartStates /\ \A s : Successors(s)' = Successors(s)
  BY <1>2, ModelKept
<1>6. th \in [Threads -> Locals] /\ l \in Locals /\ ThreadOK(t, l) /\ NoState \notin seen
      /\ NoState # n /\ BOUND \in Nat
  BY <1>1, <1>2, ModelFields DEF Typed, ThreadsOK
<1>7. l.pc \in {"init", "rule"} /\ l.s \in seen \cup {NoState} /\ (l.pc = "init" <=> l.s = NoState)
  BY <1>1, <1>2, <1>6, OutcomeIs DEF ThreadOK, Shaped, Known
<1>8. ASSUME THREADS = 1, NEW CONSTANT d, Breadth(d, th[0], queue[0])
      PROVE  \E e : Breadth(e, th[0], queue[0])'
  <2>1. t = 0 /\ th'[0] = x
    BY <1>3, <1>6, <1>8 DEF Threads
  <2>2. PICK c, q : c = Level(d, l.s) /\ q = queue[0]
    OBVIOUS
  <2>3. /\ d \in [seen -> Nat \ {0}]
        /\ \A s \in seen : d[s] = Level(d, node[s].previous) + 1
        /\ \A s \in seen : node[s].bound = IF BOUND = 0 THEN 0 ELSE d[s] - 1
        /\ \A s \in seen : d[s] <= c + 1
        /\ Ordered(d, q, c) /\ Behind(d, c)
    BY <1>1, <1>8, <2>1, <2>2 DEF Breadth, Levels
  <2>4. c \in Nat /\ (c = 0 <=> l.s = NoState)
    BY <1>6, <1>7, <2>2, <2>3 DEF Level
  <2>5. PICK e : e = [s \in seen \cup {n} |-> IF s = n THEN c + 1 ELSE d[s]]
    OBVIOUS
  <2>6. /\ e \in [seen' -> Nat \ {0}] /\ e[n] = c + 1
        /\ \A s \in seen : e[s] = d[s]
    BY <1>2, <1>4, <2>3, <2>4, <2>5
  <2>7. Level(e, l.s) = c /\ \A s \in seen : Level(e, node[s].previous) = Level(d, node[s].previous)
    BY <1>7, <2>2, <2>6 DEF Level, FoundRight, Origin
  <2>8. NewBound(t) = IF BOUND = 0 THEN 0 ELSE c
    <3>1. CASE l.s = NoState
      BY <1>1, <1>7, <2>4, <3>1 DEF NewBound, At
    <3>2. CASE l.s # NoState
      <4>1. c = d[l.s] /\ l.s \in seen
        BY <1>7, <2>2, <3>2 DEF Level
      <4>2. NewBound(t) = IF BOUND = 0 THEN 0 ELSE node[l.s].bound + 1
        BY <1>1, <1>7, <3>2 DEF NewBound, At
      <4>3. BOUND # 0 => node[l.s].bound = c - 1
        BY <2>3, <4>1
      <4>. QED
        BY <2>4, <4>2, <4>3
    <3>. QED
      BY <3>1, <3>2
  <2>9. Levels(e)'
    <3>1. ASSUME NEW s \in seen'
          PROVE  /\ e[s] = Level(e, node'[s].previous) + 1
                 /\ node'[s].bound = IF BOUND = 0 THEN 0 ELSE e[s] - 1
      <4>1. CASE s = n
        BY <1>4, <2>4, <2>6, <2>7, <2>8, <4>1
      <4>2. CASE s # n
        <5>1. s \in seen
          BY <1>4, <4>2
        <5>. QED
          BY <1>4, <2>3, <2>6, <2>7, <5>1
      <4>. QED
        BY <4>1, <4>2
    <3>2. \A s \in seen' : Level(e, node'[s].previous) = Level(e, node[s].previous)'
      BY DEF Level
    <3>. QED
      BY <1>5, <2>6, <3>1, <3>2 DEF Levels
  <2>10. \A s \in seen' : e[s] <= c + 1
    BY <1>4, <2>3, <2>4, <2>6
  <2>11. Ordered(e, q, c)'
    BY <1>4, <2>3, <2>6 DEF Ordered
  <2>12. Behind(e, c)'
    <3>1. ASSUME NEW s \in seen' \ model.raising, e[s] < c, NEW m \in Successors(s)
          PROVE  m \in seen' /\ e[m] <= e[s] + 1
      <4>1. s # n
        BY <2>4, <2>6, <3>1
      <4>2. s \in seen /\ d[s] < c
        BY <1>4, <2>6, <3>1, <4>1
      <4>3. m \in seen /\ d[m] <= d[s] + 1
        BY <2>3, <3>1, <4>2 DEF Behind
      <4>. QED
        BY <1>4, <2>6, <4>2, <4>3
    <3>2. ASSUME c > 0, NEW s \in StartStates PROVE s \in seen' /\ e[s] = 1
      <4>1. s \in seen /\ d[s] = 1
        BY <2>3, <3>2 DEF Behind
      <4>. QED
        BY <1>4, <2>6, <4>1
    <3>. QED
      BY <1>2, <1>5, <3>1, <3>2 DEF Behind
  <2>13. x.s = l.s /\ x.n = n
    BY <1>3 DEF Inserted
  <2>14. Level(e, th[0].s)' = c /\ queue'[0] = q /\ queue[0]' = q
    BY <1>2, <2>1, <2>2, <2>7, <2>13 DEF Level
  <2>. QED
    BY <1>4, <2>1, <2>6, <2>9, <2>10, <2>11, <2>12, <2>13, <2>14 DEF Breadth
<1>9. THREADS = 1 /\ th'[0].pc \notin Over => error_count' < MAX_ERRORS'
  <2>1. l.pc \notin Over
    BY <1>7 DEF Over
  <2>. QED
    BY <1>1, <1>2, <1>5, <1>6, <2>1 DEF BreadthInv, Threads
<1>. QED
  BY <1>5, <1>8, <1>9 DEF BreadthInv

\* A state is appended that is a level below the one whose rules are run, or left out
\* at the bound.
LEMMA EnqueueBreadth ==
    ASSUME SearchInv, BreadthInv, NEW t \in Threads, Enqueue(t)
    PROVE  BreadthInv'
<1>. USE DEF SearchInv
<1>1. /\ th[t].pc = "enqueue" /\ th \in [Threads -> Locals] /\ ThreadOK(t, th[t])
      /\ queue \in [Threads -> Seq(States)] /\ model \in Models
      /\ UNCHANGED <<model, node, error_count>>
  BY DEF Enqueue, At, Typed, ThreadsOK
<1>2. /\ THREADS' = THREADS /\ MAX_ERRORS' = MAX_ERRORS /\ seen' = seen
      /\ \A s \in seen : node'[s].previous = node[s].previous /\ node'[s].bound = node[s].bound
  BY <1>1, ModelKept DEF seen
<1>3. PICK l : l = th[t]
  OBVIOUS
<1>4. l \in Locals /\ l.n \in seen /\ l.n # NoState /\ l.queue_id \in Threads
  BY <1>1, <1>3 DEF ThreadOK, Shaped, Known, New, Locals
<1>5. ASSUME THREADS = 1
      PROVE  /\ t = 0
             /\ \E x : /\ th'[0] = x /\ x.s = l.s /\ x.n = NoState
                       /\ \/ queue'[0] = Append(queue[0], l.n)
                          \/ queue'[0] = queue[0]
  <2>1. t = 0 /\ l.queue_id = 0 /\ Threads = {0} /\ ~StartsOthers(t, Len(queue[0]) + 1)
    BY <1>1, <1>3, <1>4, <1>5 DEF Threads, StartsOthers
  <2>2. PICK q, y : q = NextQueue(0) /\ y = NextRule(l)
    OBVIOUS
  <2>3. q \in Threads
    BY <1>5, <2>1, <2>2 DEF NextQueue
  <2>4. y \in Locals /\ y.s = l.s /\ y.n = NoState
    BY <1>1, <1>4, <2>2, NextRuleFields
  <2>5. CASE /\ queue' = [queue EXCEPT ![0] = Append(queue[0], l.n)]
             /\ th' = [u \in Threads |->
                         CASE u = 0 -> [y EXCEPT !.queue_id = IF l.s = NoState THEN q ELSE 0,
                                                 !.at = NoState]
                           [] u # 0 /\ FALSE -> StartLocals(u, "top")
                           [] OTHER -> th[u]]
    <3>1. PICK x : x = [y EXCEPT !.queue_id = IF l.s = NoState THEN q ELSE 0, !.at = NoState]
      OBVIOUS
    <3>2. x.s = l.s /\ x.n = NoState
      BY <2>4, <3>1 DEF Locals
    <3>3. th'[0] = x /\ queue'[0] = Append(queue[0], l.n)
      BY <1>1, <2>1, <2>5, <3>1
    <3>. QED
      BY <2>1, <3>2, <3>3
  <2>6. CASE queue' = queue /\ th' = [th EXCEPT ![0] = [y EXCEPT !.at = NoState]]
    <3>1. PICK x : x = [y EXCEPT !.at = NoState]
      OBVIOUS
    <3>2. x.s = l.s /\ x.n = NoState
      BY <2>4, <3>1 DEF Locals
    <3>3. th'[0] = x
      BY <1>1, <2>1, <2>6, <3>1
    <3>. QED
      BY <2>1, <2>6, <3>2, <3>3
  <2>7. (IF l.s = NoState THEN l.queue_id ELSE t) = 0
    BY <2>1
  <2>. QED
    BY <1>3, <2>1, <2>2, <2>5, <2>6, <2>7 DEF Enqueue, Linked
<1>6. ASSUME THREADS = 1, NEW CONSTANT d, Breadth(d, th[0], queue[0])
      PROVE  Breadth(d, th[0], queue[0])'
  <2>1. PICK x : /\ t = 0 /\ th'[0] = x /\ x.s = l.s /\ x.n = NoState
                 /\ \/ queue'[0] = Append(queue[0], l.n)
                    \/ queue'[0] = queue[0]
    BY <1>5, <1>6
  <2>2. PICK c, q, r : c = Level(d, l.s) /\ q = queue[0] /\ r = queue'[0]
    OBVIOUS
  <2>3. /\ Levels(d) /\ (\A s \in seen : d[s] <= c + 1) /\ Ordered(d, q, c) /\ Behind(d, c)
        /\ d[l.n] = c + 1
    BY <1>3, <1>4, <1>6, <2>1, <2>2 DEF Breadth
  <2>4. /\ Levels(d)' <=> Levels(d)
        /\ Ordered(d, r, c)' <=> Ordered(d, r, c)
        /\ Behind(d, c)' <=> Behind(d, c)
    BY <1>1, <1>2, LevelsStay
  <2>5. d \in [seen -> Nat \ {0}] /\ c \in Nat
    <3>1. l.s \in seen \cup {NoState}
      BY <1>1, <1>3 DEF ThreadOK, Known
    <3>. QED
      BY <2>2, <2>3, <3>1 DEF Levels, Level
  <2>6. Ordered(d, r, c)
    <3>1. CASE r = q
      BY <2>3, <3>1
    <3>2. CASE r = Append(q, l.n)
      <4>1. q \in Seq(States) /\ Len(q) \in Nat
        BY <1>1, <2>1, <2>2
      <4>2. /\ Len(r) = Len(q) + 1 /\ r[Len(q)+1] = l.n
            /\ \A i \in 1..Len(q) : r[i] = q[i]
        BY <3>2, <4>1
      <4>3. \A i \in 1..Len(r) : i \in 1..Len(q) \/ i = Len(q) + 1
        BY <4>1, <4>2
      <4>4. \A i \in 1..Len(r) : r[i] \in seen /\ c <= d[r[i]]
        BY <1>4, <2>3, <2>5, <4>2, <4>3 DEF Ordered
      <4>5. ASSUME NEW i \in 1..Len(r), NEW j \in 1..Len(r), i < j PROVE d[r[i]] <= d[r[j]]
        <5>1. i \in 1..Len(q)
          BY <4>1, <4>2, <4>5
        <5>2. CASE j \in 1..Len(q)
          BY <2>3, <4>2, <4>5, <5>1, <5>2 DEF Ordered
        <5>3. CASE j = Len(q) + 1
          BY <2>3, <4>2, <4>4, <5>3
        <5>. QED
          BY <4>3, <5>2, <5>3
      <4>. QED
        BY <4>4, <4>5 DEF Ordered
    <3>. QED
      BY <2>1, <2>2, <3>1, <3>2
  <2>7. Level(d, th[0].s)' = c
    BY <2>1, <2>2 DEF Level
  <2>. QED
    BY <1>2, <2>1, <2>2, <2>3, <2>4, <2>6, <2>7 DEF Breadth
<1>7. THREADS = 1 /\ th'[0].pc \notin Over => error_count' < MAX_ERRORS'
  <2>1. l.pc \notin Over
    BY <1>1, <1>3 DEF Over
  <2>. QED
    BY <1>1, <1>2, <1>3, <1>5, <2>1 DEF BreadthInv
<1>. QED
  BY <1>2, <1>6, <1>7 DEF BreadthInv

\* The levels before m have been explored when the states that the thread has not come
\* to by level have been.
LEMMA ExploredBehind ==
    ASSUME SearchInv, NEW d, Breadth(d, th[0], queue[0]), NEW m \in Nat,
           \A x \in seen \ model.raising :
               d[x] < m => d[x] < Level(d, th[0].s) \/ Explored(x),
           Level(d, th[0].s) > 0 \/ \A i \in 1..Len(model.starts) : Settled(model.starts[i])
    PROVE  Behind(d, m)
<1>. USE DEF SearchInv
<1>1. PICK c : c = Level(d, th[0].s)
  OBVIOUS
<1>2. /\ d \in [seen -> Nat \ {0}] /\ (\A s \in seen : d[s] <= c + 1) /\ Behind(d, c)
  BY <1>1 DEF Breadth, Levels
<1>3. c \in Nat
  <2>1. 0 \in Threads
    BY ModelFields DEF Typed
  <2>2. th[0].s \in seen \cup {NoState}
    BY <2>1 DEF ThreadsOK, ThreadOK, Known
  <2>. QED
    BY <1>1, <1>2, <2>2 DEF Level
<1>4. ASSUME NEW x \in seen \ model.raising, d[x] < m, NEW n \in Successors(x)
      PROVE  n \in seen /\ d[n] <= d[x] + 1
  <2>1. CASE d[x] < c
    BY <1>2, <1>4, <2>1 DEF Behind
  <2>2. CASE ~(d[x] < c)
    <3>1. d[x] \in Nat /\ c <= d[x]
      BY <1>2, <1>3, <2>2
    <3>2. n \in seen
      <4>1. Explored(x)
        BY <1>1, <1>4, <2>2
      <4>2. PICK r \in 1..Rules : n = model.rule[x][r]
        BY DEF Successors, Outcomes
      <4>. QED
        BY <4>1, <4>2 DEF Explored, Settled, Successors
    <3>3. d[n] \in Nat /\ d[n] <= c + 1
      BY <1>2, <3>2
    <3>. QED
      BY <1>3, <3>1, <3>2, <3>3
  <2>. QED
    BY <2>1, <2>2
<1>5. ASSUME NEW s \in StartStates PROVE s \in seen /\ d[s] = 1
  <2>1. CASE c > 0
    BY <1>2, <2>1 DEF Behind
  <2>2. CASE c = 0
    <3>1. \A i \in 1..Len(model.starts) : Settled(model.starts[i])
      BY <1>1, <2>2
    <3>2. s \in seen
      BY <3>1 DEF Settled, StartStates
    <3>. QED
      BY <1>2, <2>2, <3>2
  <2>. QED
    BY <1>3, <2>1, <2>2
<1>. QED
  BY <1>4, <1>5 DEF Behind

\* Before a state of a level is dequeued all states of the levels before it have
\* been explored.
LEMMA DequeueBehind ==
    ASSUME SearchInv, THREADS = 1, th[0].pc = "dequeue", error_count < MAX_ERRORS,
           NEW CONSTANT d, Breadth(d, th[0], queue[0]),
           NEW h \in seen, h = queue[0][1], Len(queue[0]) > 0
    PROVE  Behind(d, d[h])
<1>. USE DEF SearchInv
<1>1. PICK l, q : l = th[0] /\ q = queue[0]
  OBVIOUS
<1>2. /\ Threads = {0} /\ l \in Locals /\ ThreadOK(0, l) /\ q \in Seq(States)
      /\ BOUND \in Nat /\ error_count \in Nat /\ MAX_ERRORS \in Nat
  BY <1>1, ModelFields DEF Typed, ThreadsOK, Threads
<1>3. /\ d \in [seen -> Nat \ {0}]
      /\ \A s \in seen : node[s].bound = IF BOUND = 0 THEN 0 ELSE d[s] - 1
      /\ \A i, j \in 1..Len(q) : i < j => d[q[i]] <= d[q[j]]
  BY <1>1 DEF Breadth, Levels, Ordered
<1>4. d[h] \in Nat \ {0} /\ \A i \in 1..Len(q) : d[h] <= d[q[i]]
  <2>1. Len(q) \in Nat /\ 1 \in 1..Len(q) /\ q[1] = h
    BY <1>1, <1>2
  <2>2. d[h] \in Nat \ {0}
    BY <1>3
  <2>. QED
    BY <1>3, <2>1, <2>2
<1>5. BelowBound(h)
  BY <1>1, <1>2 DEF QueuedExpandable, Elements
<1>6. ~Stopped
  BY <1>2 DEF Stopped
<1>7. ASSUME NEW x \in seen \ model.raising, d[x] < d[h] PROVE Explored(x)
  <2>1. d[x] \in Nat
    BY <1>3
  <2>2. x \notin Elements(q)
    BY <1>4, <1>7, <2>1 DEF Elements
  <2>3. InHand(l) = {}
    BY <1>1, <1>2 DEF InHand, Active, New, ThreadOK, Shaped
  <2>4. Released(x)
    BY <1>1, <1>2, <2>2, <2>3 DEF AllAccounted, Held
  <2>5. BelowBound(x)
    <3>1. CASE BOUND = 0
      BY <3>1 DEF BelowBound
    <3>2. CASE BOUND # 0
      <4>1. d[h] - 1 < BOUND
        BY <1>3, <1>5, <3>2 DEF BelowBound
      <4>2. node[x].bound = d[x] - 1
        BY <1>3, <3>2
      <4>. QED
        BY <1>2, <1>4, <1>7, <2>1, <4>1, <4>2 DEF BelowBound
    <3>. QED
      BY <3>1, <3>2
  <2>. QED
    BY <1>6, <2>4, <2>5 DEF Released
<1>8. \A i \in 1..Len(model.starts) : Settled(model.starts[i])
  <2>1. ~Starting(l)
    BY <1>1 DEF Starting, New
  <2>. QED
    BY <1>1, <1>6, <2>1 DEF StartsSettled
<1>. HIDE DEF SearchInv
<1>. QED
  BY <1>4, <1>7, <1>8, ExploredBehind

\* A state is dequeued: its level, the level of all that are queued or the one before,
\* is the level the thread is on.
LEMMA DequeueBreadth ==
    ASSUME SearchInv, BreadthInv, NEW t \in Threads, Dequeue(t)
    PROVE  BreadthInv'
<1>. USE DEF SearchInv
<1>1. /\ th[t].pc = "dequeue" /\ th \in [Threads -> Locals] /\ ThreadOK(t, th[t])
      /\ queue \in [Threads -> Seq(States)] /\ model \in Models
      /\ UNCHANGED <<model, node, error_count>>
  BY DEF Dequeue, At, Typed, ThreadsOK
<1>2. /\ THREADS' = THREADS /\ MAX_ERRORS' = MAX_ERRORS /\ seen' = seen
      /\ \A s \in seen : node'[s].previous = node[s].previous /\ node'[s].bound = node[s].bound
  BY <1>1, ModelKept DEF seen
<1>3. PICK l, k : l = th[t] /\ k = th[t].queue_id
  OBVIOUS
<1>4. /\ k \in Threads /\ queue[k] # <<>> /\ queue[k] \in Seq(States)
      /\ queue' = [queue EXCEPT ![k] = Tail(queue[k])]
      /\ th' = [th EXCEPT ![t] = [l EXCEPT !.s = Head(queue[k]), !.pc = "rule",
                                           !.possible_deadlock = TRUE, !.rule_taken = 1]]
  BY <1>1, <1>3 DEF Dequeue, Remaining, Dequeued, Locals
<1>5. ASSUME THREADS = 1, NEW CONSTANT d, Breadth(d, th[0], queue[0])
      PROVE  Breadth(d, th[0], queue[0])'
  <2>1. t = 0 /\ k = 0 /\ error_count < MAX_ERRORS
    BY <1>1, <1>4, <1>5 DEF Threads, BreadthInv, Over
  <2>2. PICK q, r, h, x : /\ q = queue[0] /\ r = Tail(q) /\ h = Head(q)
                          /\ x = [l EXCEPT !.s = h, !.pc = "rule",
                                           !.possible_deadlock = TRUE, !.rule_taken = 1]
    OBVIOUS
  <2>3. /\ q \in Seq(States) /\ Len(q) \in Nat /\ Len(q) > 0 /\ h = q[1] /\ h \in Elements(q)
        /\ Len(r) = Len(q) - 1 /\ \A i \in 1..Len(r) : i+1 \in 1..Len(q) /\ r[i] = q[i+1]
    <3>1. q \in Seq(States) /\ q # <<>>
      BY <1>4, <2>1, <2>2
    <3>2. Len(q) \in Nat /\ Len(q) > 0 /\ h = q[1] /\ Len(r) = Len(q) - 1
      BY <2>2, <3>1
    <3>3. \A i \in 1..Len(r) : i+1 \in 1..Len(q) /\ r[i] = q[i+1]
      BY <2>2, <3>1, <3>2
    <3>. QED
      BY <3>1, <3>2, <3>3 DEF Elements
  <2>4. h \in seen /\ h # NoState
    BY <1>4, <2>1, <2>2, <2>3, ModelFields DEF QueuedExpandable, Typed
  <2>5. Behind(d, d[h])
    BY <1>1, <1>5, <2>1, <2>2, <2>3, <2>4, DequeueBehind
  <2>6. PICK c : c = Level(d, l.s)
    OBVIOUS
  <2>7. Levels(d) /\ (\A s \in seen : d[s] <= c + 1) /\ Ordered(d, q, c)
    BY <1>3, <1>5, <2>1, <2>2, <2>6 DEF Breadth
  <2>8. c \in Nat /\ d \in [seen -> Nat \ {0}] /\ c <= d[h]
    <3>1. l.s \in seen \cup {NoState}
      BY <1>1, <1>3 DEF ThreadOK, Known
    <3>2. d \in [seen -> Nat \ {0}]
      BY <2>7 DEF Levels
    <3>3. 1 \in 1..Len(q)
      BY <2>3
    <3>4. c <= d[h]
      BY <2>3, <2>7, <3>3 DEF Ordered
    <3>. QED
      BY <2>6, <3>1, <3>2, <3>4 DEF Level
  <2>9. \A s \in seen : d[s] <= d[h] + 1
    <3>. SUFFICES ASSUME NEW s \in seen PROVE d[s] <= d[h] + 1
      OBVIOUS
    <3>1. d[s] <= c + 1 /\ d[s] \in Nat /\ d[h] \in Nat
      BY <2>4, <2>7, <2>8
    <3>. QED
      BY <2>8, <3>1
  <2>10. Ordered(d, r, d[h])
    <3>1. \A i \in 1..Len(r) : r[i] \in seen /\ d[h] <= d[r[i]]
      <4>. SUFFICES ASSUME NEW i \in 1..Len(r) PROVE r[i] \in seen /\ d[h] <= d[r[i]]
        OBVIOUS
      <4>1. 1 \in 1..Len(q) /\ i+1 \in 1..Len(q) /\ 1 < i+1 /\ r[i] = q[i+1]
        BY <2>3
      <4>. QED
        BY <2>3, <2>7, <4>1 DEF Ordered
    <3>2. ASSUME NEW i \in 1..Len(r), NEW j \in 1..Len(r), i < j PROVE d[r[i]] <= d[r[j]]
      <4>1. /\ i+1 \in 1..Len(q) /\ j+1 \in 1..Len(q) /\ i+1 < j+1
            /\ r[i] = q[i+1] /\ r[j] = q[j+1]
        BY <2>3, <3>2
      <4>. QED
        BY <2>7, <4>1 DEF Ordered
    <3>. QED
      BY <3>1, <3>2 DEF Ordered
  <2>11. x.s = h /\ x.n = NoState
    BY <1>1, <1>3, <2>2 DEF Locals, ThreadOK, Shaped, New
  <2>12. th'[0] = x /\ queue'[0] = r
    BY <1>1, <1>4, <2>1, <2>2
  <2>13. Level(d, th[0].s)' = d[h]
    BY <2>4, <2>11, <2>12 DEF Level
  <2>14. /\ Levels(d)' <=> Levels(d)
         /\ Ordered(d, r, d[h])' <=> Ordered(d, r, d[h])
         /\ Behind(d, d[h])' <=> Behind(d, d[h])
    <3>1. PICK v : v = d[h]
      OBVIOUS
    <3>. QED
      BY <1>1, <1>2, <3>1, LevelsStay
  <2>. QED
    BY <1>2, <2>5, <2>7, <2>9, <2>10, <2>11, <2>12, <2>13, <2>14 DEF Breadth
<1>6. THREADS = 1 /\ th'[0].pc \notin Over => error_count' < MAX_ERRORS'
  BY <1>1, <1>2 DEF BreadthInv, Threads, Over
<1>. QED
  BY <1>2, <1>5, <1>6 DEF BreadthInv

LEMMA BreadthInvInit == Init => BreadthInv
<1>. SUFFICES ASSUME Init, THREADS = 1
              PROVE  /\ \E d : Breadth(d, th[0], queue[0])
                     /\ error_count < MAX_ERRORS
  BY DEF BreadthInv
<1>1. /\ 0 \in Threads /\ seen = {} /\ th[0].s = NoState /\ th[0].n = NoState /\ queue[0] = <<>>
      /\ MAX_ERRORS \in Nat \ {0} /\ error_count = 0
  BY ModelFields DEF Init, Threads, seen, StartLocals
<1>2. PICK d : d = [s \in {} |-> 1]
  OBVIOUS
<1>3. Level(d, NoState) = 0
  BY DEF Level
<1>4. Levels(d)
  BY <1>1, <1>2 DEF Levels
<1>5. Ordered(d, queue[0], 0) /\ Behind(d, 0)
  BY <1>1 DEF Ordered, Behind
<1>. QED
  BY <1>1, <1>3, <1>4, <1>5 DEF Breadth

\* Every step keeps the levels in order.
LEMMA BreadthInvNext == SearchInv /\ BreadthInv /\ [Next]_vars => BreadthInv'
<1>. SUFFICES ASSUME SearchInv, BreadthInv, [Next]_vars PROVE BreadthInv'
  OBVIOUS
<1>1. CASE UNCHANGED vars
  BY <1>1 DEF vars, BreadthInv, Breadth, Levels, Level, Ordered, Behind, THREADS, MAX_ERRORS,
       BOUND, seen, Successors, Outcomes, IsGood, StartStates
<1>2. ASSUME NEW t \in Threads, Step(t) PROVE BreadthInv'
  <2>1. CASE InsertNew(t)
    BY <2>1, InsertNewBreadth
  <2>2. CASE Enqueue(t)
    BY <2>2, EnqueueBreadth
  <2>3. CASE Dequeue(t)
    BY <2>3, DequeueBreadth
  <2>4. CASE ~InsertNew(t) /\ ~Enqueue(t) /\ ~Dequeue(t)
    <3>1. \E x : Calm(t, x)
      BY <1>2, <2>4, CalmRules, CalmLoop, CalmEnd DEF Step
    <3>. QED
      BY <3>1, CalmKeeps
  <2>. QED
    BY <2>1, <2>2, <2>3, <2>4
<1>. QED
  BY <1>1, <1>2 DEF Next, Done

\* What a search of the graph by levels finds.
LEMMA WithinIs ==
    ASSUME NEW S
    PROVE  /\ Cardinality(States) \in Nat /\ Within(S)[0] = S
           /\ \A k \in 1..Cardinality(States) : Within(S)[k] = Wider(Within(S)[k-1])
<1>. DEFINE Body(n, w) == [k \in 0..n |-> IF k = 0 THEN S ELSE Wider(w[k-1])]
            T == {n \in Nat : \E w : w = Body(n, w)}
<1>1. PICK N \in Nat : N = Cardinality(States)
  BY StatesFinite, FS_CardinalityType
<1>2. 0 \in T
  <2>1. PICK w : w = [k \in 0..0 |-> S]
    OBVIOUS
  <2>2. w = Body(0, w)
    BY <2>1
  <2>. QED
    BY <2>2
<1>3. ASSUME NEW n \in Nat, n \in T PROVE n + 1 \in T
  <2>1. PICK w : w = Body(n, w)
    BY <1>3
  <2>2. PICK v : v = [k \in 0..n+1 |-> IF k = n + 1 THEN Wider(w[n]) ELSE w[k]]
    OBVIOUS
  <2>3. v = Body(n + 1, v)
    <3>1. ASSUME NEW k \in 0..n+1
          PROVE  v[k] = IF k = 0 THEN S ELSE Wider(v[k-1])
      <4>1. CASE k = n + 1
        <5>1. k # 0 /\ k - 1 = n /\ n \in 0..n+1 /\ n # n + 1
          BY <4>1
        <5>. QED
          BY <2>2, <4>1, <5>1
      <4>2. CASE k = 0
        BY <2>1, <2>2, <4>2
      <4>3. CASE k # 0 /\ k # n + 1
        <5>1. k \in 0..n /\ k - 1 \in 0..n /\ k - 1 \in 0..n+1 /\ k - 1 # n + 1
          BY <4>3
        <5>2. w[k] = Wider(w[k-1])
          BY <2>1, <4>3, <5>1
        <5>. QED
          BY <2>2, <4>3, <5>1, <5>2
      <4>. QED
        BY <4>1, <4>2, <4>3
    <3>. QED
      BY <2>2, <3>1
  <2>. QED
    BY <2>3
<1>4. N \in T
  <2>. HIDE DEF T
  <2>1. \A k \in 0..N : k \in T
    BY <1>2, <1>3, UpTo
  <2>. QED
    BY <2>1
<1>5. \E w : w = Body(N, w)
  BY <1>4
<1>6. Within(S) = Body(N, Within(S))
  <2>1. Within(S) = CHOOSE w : w = Body(N, w)
    BY <1>1 DEF Within
  <2>. QED
    BY <1>5, <2>1
<1>. HIDE DEF Body
<1>7. \A k \in 0..N : Within(S)[k] = IF k = 0 THEN S ELSE Wider(Within(S)[k-1])
  BY <1>6 DEF Body
<1>. QED
  BY <1>1, <1>7

\* The level of a state is the length of its trace, and no trace is longer than there
\* are states.
LEMMA LevelIsDepth ==
    ASSUME SearchInv, TraceInv, NEW d, Levels(d), NEW s \in seen
    PROVE  d[s] = Depth(s) /\ Depth(s) <= Cardinality(States)
<1>1. PICK a, D : a = Ancestor(s) /\ D = Depth(s)
  OBVIOUS
<1>2. /\ D \in Nat \ {0} /\ a[0] = s /\ a[D] = NoState
      /\ \A i \in 0..D-1 : a[i] \in seen
      /\ \A i \in 1..D : a[i] = node[a[i-1]].previous
  BY <1>1, DepthIs
<1>3. NoState \notin seen
  BY PreviousIs
<1>4. d[s] = D
  <2>. DEFINE T == {k \in 0..D : Level(d, a[D-k]) = k}
  <2>1. 0 \in T
    BY <1>2 DEF Level
  <2>2. ASSUME NEW k \in 0..D-1, k \in T PROVE k + 1 \in T
    <3>1. D - k \in 1..D /\ (D - k) - 1 = D - (k + 1) /\ D - (k + 1) \in 0..D-1
          /\ k + 1 \in 0..D
      BY <1>2
    <3>2. PICK x \in seen : x = a[D - (k + 1)]
      BY <1>2, <3>1
    <3>3. node[x].previous = a[D-k]
      BY <1>2, <3>1, <3>2
    <3>4. d[x] = k + 1
      BY <2>2, <3>2, <3>3 DEF Levels
    <3>. QED
      BY <1>3, <3>1, <3>2, <3>4 DEF Level
  <2>3. \A k \in 0..D : k \in T
    <3>. HIDE DEF T
    <3>. QED
      BY <1>2, <2>1, <2>2, UpTo
  <2>4. D \in 0..D /\ D - D = 0
    BY <1>2
  <2>5. Level(d, s) = D
    BY <1>2, <2>3, <2>4
  <2>. QED
    BY <1>3, <2>5 DEF Level
<1>5. D <= Cardinality(States)
  <2>1. /\ Cardinality(seen) \in Nat /\ Cardinality(States) \in Nat
        /\ Cardinality(seen) <= Cardinality(States)
    BY StatesFinite, FS_Subset, FS_CardinalityType DEF SearchInv, Typed
  <2>2. PICK k \in 0..Cardinality(seen) : a[k] = NoState
    BY <1>1, <2>1, ChainEnds
  <2>3. k \notin 0..D-1
    BY <1>2, <1>3, <2>2
  <2>. QED
    BY <1>2, <2>1, <2>2, <2>3
<1>. QED
  BY <1>1, <1>4, <1>5

\* A state is within as many steps of the start states as its level says.
LEMMA LevelReached ==
    ASSUME SearchInv, NEW d, Levels(d)
    PROVE  \A k \in 0..Cardinality(States) :
               \A s \in seen : d[s] = k + 1 => s \in Within(StartStates)[k]
<1>1. PICK W, N : W = Within(StartStates) /\ N = Cardinality(States)
  OBVIOUS
<1>2. N \in Nat /\ W[0] = StartStates /\ \A k \in 1..N : W[k] = Wider(W[k-1])
  BY <1>1, WithinIs
<1>3. NoState \notin seen /\ (\A s \in seen : Origin(s)) /\ d \in [seen -> Nat \ {0}]
      /\ \A s \in seen : d[s] = Level(d, node[s].previous) + 1
  BY PreviousIs DEF SearchInv, FoundRight, Levels
<1>. DEFINE T == {k \in 0..N : \A s \in seen : d[s] = k + 1 => s \in W[k]}
<1>4. 0 \in T
  <2>1. ASSUME NEW s \in seen, d[s] = 1 PROVE s \in StartStates
    <3>1. CASE node[s].previous = NoState
      BY <1>3, <3>1 DEF Origin
    <3>2. CASE node[s].previous # NoState
      <4>1. node[s].previous \in seen
        BY <1>3, <3>2 DEF Origin
      <4>2. d[node[s].previous] \in Nat \ {0} /\ d[s] = d[node[s].previous] + 1
        BY <1>3, <3>2, <4>1 DEF Level
      <4>. QED
        BY <2>1, <4>2
    <3>. QED
      BY <3>1, <3>2
  <2>. QED
    BY <1>2, <2>1
<1>5. ASSUME NEW k \in 0..N-1, k \in T PROVE k + 1 \in T
  <2>1. k + 1 \in 1..N /\ (k + 1) - 1 = k /\ k \in Nat
    BY <1>2
  <2>2. ASSUME NEW s \in seen, d[s] = (k + 1) + 1 PROVE s \in W[k+1]
    <3>1. PICK x : x = node[s].previous
      OBVIOUS
    <3>2. x # NoState
      BY <1>3, <2>1, <2>2, <3>1 DEF Level
    <3>3. x \in seen \ model.raising /\ s \in Successors(x)
      BY <1>3, <3>1, <3>2 DEF Origin
    <3>4. d[x] \in Nat /\ d[s] = d[x] + 1
      BY <1>3, <3>1, <3>2, <3>3 DEF Level
    <3>5. d[x] = k + 1
      BY <2>1, <2>2, <3>4
    <3>6. x \in W[k]
      BY <1>5, <3>3, <3>5
    <3>7. s \in Wider(W[k])
      BY <3>3, <3>6 DEF Wider
    <3>. QED
      BY <1>2, <2>1, <3>7
  <2>. QED
    BY <2>1, <2>2
<1>6. \A k \in 0..N : k \in T
  <2>. HIDE DEF T
  <2>. QED
    BY <1>2, <1>4, <1>5, UpTo
<1>. QED
  BY <1>1, <1>6

\* What is within fewer steps than the level of a seen state has been seen, at a level
\* that is no further down.
LEMMA LevelsBefore ==
    ASSUME SearchInv, NEW d, Levels(d), NEW c \in Nat, Behind(d, c),
           NEW n \in Nat, n < c, n <= Cardinality(States)
    PROVE  \A k \in 0..n : \A s \in Within(StartStates)[k] : s \in seen /\ d[s] <= k + 1
<1>1. PICK W, N : W = Within(StartStates) /\ N = Cardinality(States)
  OBVIOUS
<1>2. N \in Nat /\ W[0] = StartStates /\ \A k \in 1..N : W[k] = Wider(W[k-1])
  BY <1>1, WithinIs
<1>3. d \in [seen -> Nat \ {0}]
  BY DEF Levels
<1>. DEFINE T == {k \in 0..n : \A s \in W[k] : s \in seen /\ d[s] <= k + 1}
<1>4. 0 \in T
  <2>1. c > 0
    OBVIOUS
  <2>. QED
    BY <1>2, <2>1 DEF Behind
<1>5. ASSUME NEW k \in 0..n-1, k \in T PROVE k + 1 \in T
  <2>1. k + 1 \in 1..N /\ (k + 1) - 1 = k /\ k \in Nat /\ k + 1 \in 0..n
    BY <1>1, <1>2
  <2>2. ASSUME NEW s \in W[k+1] PROVE s \in seen /\ d[s] <= (k + 1) + 1
    <3>1. s \in W[k] \/ \E x \in W[k] \ model.raising : s \in Successors(x)
      BY <1>2, <2>1, <2>2 DEF Wider
    <3>2. CASE s \in W[k]
      <4>1. s \in seen /\ d[s] <= k + 1
        BY <1>5, <3>2
      <4>2. d[s] \in Nat
        BY <1>3, <4>1
      <4>. QED
        BY <2>1, <4>1, <4>2
    <3>3. CASE \E x \in W[k] \ model.raising : s \in Successors(x)
      <4>1. PICK x \in W[k] \ model.raising : s \in Successors(x)
        BY <3>3
      <4>2. x \in seen /\ d[x] <= k + 1
        BY <1>5
      <4>3. d[x] \in Nat /\ d[x] < c
        BY <1>3, <2>1, <4>2
      <4>4. s \in seen /\ d[s] <= d[x] + 1
        BY <4>1, <4>2, <4>3 DEF Behind
      <4>5. d[s] \in Nat
        BY <1>3, <4>4
      <4>. QED
        BY <2>1, <4>2, <4>3, <4>4, <4>5
    <3>. QED
      BY <3>1, <3>2, <3>3
  <2>. QED
    BY <2>1, <2>2
<1>6. \A k \in 0..n : k \in T
  <2>. HIDE DEF T
  <2>. QED
    BY <1>4, <1>5, UpTo
<1>. QED
  BY <1>1, <1>6

LEMMA TracesAreShortest == SearchInv /\ TraceInv /\ BreadthInv => ShortestTraces
<1>. SUFFICES ASSUME SearchInv, TraceInv, BreadthInv, THREADS = 1, NEW s \in seen
              PROVE  /\ s \in Within(StartStates)[Depth(s) - 1]
                     /\ \A k \in 0..Depth(s) - 2 : s \notin Within(StartStates)[k]
  BY DEF ShortestTraces
<1>1. PICK d : Breadth(d, th[0], queue[0])
  BY DEF BreadthInv
<1>2. PICK c, N : c = Level(d, th[0].s) /\ N = Cardinality(States)
  OBVIOUS
<1>3. Levels(d) /\ d[s] <= c + 1 /\ Behind(d, c)
  BY <1>1, <1>2 DEF Breadth
<1>4. d[s] = Depth(s) /\ d[s] <= N /\ d[s] \in Nat \ {0} /\ N \in Nat
  BY <1>2, <1>3, LevelIsDepth, WithinIs DEF Levels
<1>5. c \in Nat
  <2>1. th[0].s \in seen \cup {NoState}
    <3>1. 0 \in Threads
      BY DEF Threads
    <3>. QED
      BY <3>1 DEF SearchInv, ThreadsOK, ThreadOK, Known
  <2>. QED
    BY <1>2, <1>3, <2>1 DEF Level, Levels
<1>6. s \in Within(StartStates)[Depth(s) - 1]
  <2>1. d[s] - 1 \in 0..N /\ d[s] = (d[s] - 1) + 1
    BY <1>4
  <2>. QED
    BY <1>2, <1>3, <1>4, <2>1, LevelReached
<1>7. ASSUME NEW k \in 0..Depth(s) - 2 PROVE s \notin Within(StartStates)[k]
  <2>1. k \in Nat /\ k < c /\ k <= N /\ k \in 0..k /\ ~(d[s] <= k + 1)
    BY <1>3, <1>4, <1>5
  <2>. QED
    BY <1>2, <1>3, <1>5, <2>1, LevelsBefore
<1>. QED
  BY <1>6, <1>7

-----------------------------------------------------------------------------
(***************************************************************************)
(* One thread that stops at a bound finds what is within it.               *)
(***************************************************************************)

\* More steps lead further.
LEMMA WithinGrows ==
    ASSUME NEW S, NEW k \in 0..Cardinality(States), NEW j \in 0..k
    PROVE  Within(S)[j] \subseteq Within(S)[k]
<1>1. PICK W, N : W = Within(S) /\ N = Cardinality(States)
  OBVIOUS
<1>2. N \in Nat /\ \A i \in 1..N : W[i] = Wider(W[i-1])
  BY <1>1, WithinIs
<1>. DEFINE T == {i \in 0..k-j : W[j] \subseteq W[j+i]}
<1>3. k - j \in Nat /\ 0 \in T
  BY <1>1, <1>2
<1>4. ASSUME NEW i \in 0..(k-j)-1, i \in T PROVE i + 1 \in T
  <2>1. j + (i + 1) \in 1..N /\ (j + (i + 1)) - 1 = j + i /\ i + 1 \in 0..k-j
    BY <1>1, <1>2
  <2>2. W[j+i] \subseteq W[j+(i+1)]
    BY <1>2, <2>1 DEF Wider
  <2>. QED
    BY <1>4, <2>1, <2>2
<1>5. \A i \in 0..k-j : i \in T
  <2>. HIDE DEF T
  <2>. QED
    BY <1>3, <1>4, UpTo
<1>6. k - j \in 0..k-j /\ j + (k - j) = k
  BY <1>1, <1>2
<1>. QED
  BY <1>1, <1>5, <1>6

LEMMA LevelWithin ==
    ASSUME SearchInv, NEW d, Levels(d), NEW s \in seen,
           NEW k \in 0..Cardinality(States), d[s] <= k + 1
    PROVE  s \in Within(StartStates)[k]
<1>1. Cardinality(States) \in Nat /\ d[s] \in Nat \ {0}
  BY WithinIs DEF Levels
<1>2. PICK j : j = d[s] - 1
  OBVIOUS
<1>3. j \in 0..k /\ j \in 0..Cardinality(States) /\ d[s] = j + 1
  BY <1>1, <1>2
<1>4. s \in Within(StartStates)[j]
  BY <1>3, LevelReached
<1>. QED
  BY <1>3, <1>4, WithinGrows

LEMMA HorizonIs ==
    ASSUME SearchInv, BOUND # 0
    PROVE  /\ Cardinality(States) \in Nat /\ BOUND \in Nat
           /\ Horizon \in 1..Cardinality(States) /\ Horizon <= BOUND
           /\ Horizon = BOUND \/ Horizon = Cardinality(States)
<1>1. BOUND \in Nat
  BY ModelFields DEF SearchInv, Typed
<1>2. Cardinality(States) \in Nat /\ Cardinality(States) # 0
  BY StatesFinite, FS_CardinalityType, FS_EmptySet
<1>. QED
  BY <1>1, <1>2 DEF Horizon

\* A state that has been seen is within the bound, and what is expanded was to be.
LEMMA SeenWithin ==
    ASSUME SearchInv, TraceInv, NEW d, Levels(d), BOUND # 0, NEW s \in seen
    PROVE  /\ s \in ReachableStates
           /\ s \notin model.raising /\ BelowBound(s) => s \in Expanded
<1>1. PICK N : N = Cardinality(States)
  OBVIOUS
<1>2. /\ N \in Nat /\ BOUND \in Nat /\ Horizon \in 1..N /\ Horizon <= BOUND
      /\ Horizon = BOUND \/ Horizon = N
  BY <1>1, HorizonIs
<1>3. d[s] \in Nat \ {0} /\ d[s] <= N /\ node[s].bound = d[s] - 1
  BY <1>1, LevelIsDepth DEF Levels
<1>4. node[s].bound <= BOUND
  BY DEF SearchInv, Typed, Structs
<1>5. s \in Within(StartStates)[Horizon]
  <2>1. d[s] <= Horizon + 1 /\ Horizon \in 0..N
    BY <1>2, <1>3, <1>4
  <2>. QED
    BY <1>1, <2>1, LevelWithin
<1>6. ASSUME BelowBound(s) PROVE s \in Within(StartStates)[Horizon - 1]
  <2>1. d[s] - 1 < BOUND
    BY <1>3, <1>6 DEF BelowBound
  <2>2. PICK k : k = Horizon - 1
    OBVIOUS
  <2>3. k \in 0..N /\ d[s] <= k + 1
    BY <1>2, <1>3, <2>1, <2>2
  <2>. QED
    BY <1>1, <2>2, <2>3, LevelWithin
<1>. QED
  BY <1>5, <1>6 DEF ReachableStates, Expanded

\* When errors did not stop it the thread has seen all that is within the bound and
\* expanded all that is further inside.
LEMMA BoundedSearch ==
    ASSUME SearchInv, TraceInv, BreadthInv, THREADS = 1, BOUND # 0,
           \A s \in seen : Released(s), ~Stopped,
           \A i \in 1..Len(model.starts) : Settled(model.starts[i])
    PROVE  /\ seen = ReachableStates
           /\ Expanded = {s \in seen \ model.raising : BelowBound(s)}
<1>1. PICK d : Breadth(d, th[0], queue[0])
  BY DEF BreadthInv
<1>2. PICK H, N : H = Horizon /\ N = Cardinality(States)
  OBVIOUS
<1>3. H \in 1..N /\ H <= BOUND /\ N \in Nat /\ BOUND \in Nat
  BY <1>2, HorizonIs
<1>4. Levels(d) /\ d \in [seen -> Nat \ {0}] /\ \A s \in seen : node[s].bound = d[s] - 1
  BY <1>1 DEF Breadth, Levels
<1>5. Behind(d, H + 1)
  <2>1. ASSUME NEW x \in seen \ model.raising, d[x] < H + 1 PROVE Explored(x)
    <3>1. node[x].bound = d[x] - 1 /\ d[x] \in Nat \ {0}
      BY <1>4
    <3>2. BelowBound(x)
      BY <1>3, <2>1, <3>1 DEF BelowBound
    <3>. QED
      BY <3>2 DEF Released
  <2>. QED
    BY <1>1, <1>3, <2>1, ExploredBehind
<1>6. ASSUME NEW k \in 0..H, NEW s \in Within(StartStates)[k]
      PROVE  s \in seen /\ d[s] <= k + 1
  <2>1. H + 1 \in Nat /\ H \in Nat /\ H < H + 1 /\ H <= N
    BY <1>3
  <2>. QED
    BY <1>2, <1>4, <1>5, <2>1, LevelsBefore
<1>7. seen = ReachableStates
  <2>1. Within(StartStates)[H] \subseteq seen
    BY <1>3, <1>6
  <2>. QED
    BY <1>2, <1>4, <2>1, SeenWithin DEF ReachableStates
<1>8. ASSUME NEW s \in Expanded PROVE s \in seen \ model.raising /\ BelowBound(s)
  <2>1. s \in Within(StartStates)[H-1] /\ s \notin model.raising /\ H - 1 \in 0..H
    BY <1>2, <1>3 DEF Expanded
  <2>2. s \in seen /\ d[s] <= (H - 1) + 1
    BY <1>6, <2>1
  <2>3. d[s] \in Nat /\ node[s].bound = d[s] - 1
    BY <1>4, <2>2
  <2>. QED
    BY <1>3, <2>1, <2>2, <2>3 DEF BelowBound
<1>9. \A s \in seen \ model.raising : BelowBound(s) => s \in Expanded
  BY <1>4, SeenWithin
<1>. QED
  BY <1>7, <1>8, <1>9

LEMMA BoundedEnd ==
    ASSUME SearchInv, TraceInv, BreadthInv, THREADS = 1, BOUND # 0, Finished, NotCutShort
    PROVE  /\ seen = ReachableStates
           /\ Expanded = {s \in seen \ model.raising : BelowBound(s)}
<1>1. ~Stopped
  BY ModelFields DEF Stopped, NotCutShort, SearchInv, Typed
<1>2. th[0].pc = "exited" /\ (phase = "run" => \A u \in Threads \ {0} : At(u, "exited"))
  BY DEF SearchInv, Ending, Finished, Joined
<1>. QED
  BY <1>1, <1>2, AllReleased, BoundedSearch

\* Nothing is wrong within the bound when no error was counted.
LEMMA BoundedNoErrors ==
    ASSUME ConclusionInv, TraceInv, BreadthInv, THREADS = 1, BOUND # 0, Liveness = {},
           Finished, error_count = 0
    PROVE  Correct
<1>. USE DEF ConclusionInv
<1>1. th[0].pc = "exited" /\ (phase = "run" => \A u \in Threads \ {0} : At(u, "exited"))
  BY DEF SearchInv, Ending, Finished, Joined
<1>2. /\ \A s \in seen : /\ Released(s) /\ s \notin model.raising
                         /\ BelowBound(s) => Explored(s)
      /\ \A i \in 1..Len(model.starts) : Settled(model.starts[i])
      /\ ~Stopped
  BY <1>1, AtTheEnd
<1>3. seen = ReachableStates /\ Expanded = {s \in seen \ model.raising : BelowBound(s)}
  BY <1>2, BoundedSearch
<1>4. \A i \in 1..Len(model.starts) : ~Violation(model.starts[i])
  BY <1>2 DEF Settled
<1>5. \A s \in Expanded : ~IsDeadlock(s) /\ \A outcome \in Outcomes(s) : ~Violation(outcome)
  BY <1>2, <1>3 DEF Explored, Settled, Outcomes
<1>6. \A i \in Covers : seen \cap model.covers[i] # {}
  BY <1>1 DEF VerdictInv, AllChecked, CoversCounted, Joined
<1>. QED
  BY <1>2, <1>3, <1>4, <1>5, <1>6 DEF Correct

\* What is wrong with a seen state is wrong within the bound.
LEMMA BoundedErrors ==
    ASSUME ConclusionInv, TraceInv, BreadthInv, THREADS = 1, BOUND # 0, Liveness = {},
           Finished, error_count > 0
    PROVE  ~Correct
<1>. USE DEF ConclusionInv, VerdictInv
<1>1. PICK d : Levels(d)
  BY DEF BreadthInv, Breadth
<1>2. \A s \in seen : /\ s \in ReachableStates
                      /\ s \notin model.raising /\ BelowBound(s) => s \in Expanded
  BY <1>1, SeenWithin
<1>3. CASE Flawed
  BY <1>2, <1>3 DEF Flawed, Correct, Outcomes
<1>4. CASE reports = {} /\ covered # Covers
  <2>1. seen = ReachableStates
    BY <1>4, BoundedEnd DEF NotCutShort
  <2>2. PICK i \in Covers : seen \cap model.covers[i] = {}
    BY <1>4 DEF CoversCounted
  <2>. QED
    BY <2>1, <2>2 DEF Correct
<1>5. result.missed = {}
  BY DEF MarksInv, MissedRight, Finished
<1>. QED
  BY <1>3, <1>4, <1>5 DEF ErrorsReal

LEMMA BoundedVerdict ==
    ASSUME ConclusionInv, TraceInv, BreadthInv, THREADS = 1, BOUND # 0, Liveness = {}
    PROVE  VerdictRight
<1>. SUFFICES ASSUME Finished
              PROVE  /\ error_count = 0 <=> Correct
                     /\ MAX_ERRORS = 1 => (result.status = 0 <=> Correct)
  BY DEF VerdictRight
<1>1. error_count \in Nat
  BY DEF ConclusionInv, SearchInv, Typed
<1>2. error_count = 0 <=> Correct
  BY <1>1, BoundedNoErrors, BoundedErrors
<1>. QED
  BY <1>2 DEF ConclusionInv, VerdictInv, StatusKept

LEMMA TraceInvariant == Spec => []TraceInv
<1>1. Init => TraceInv
  BY TraceInvInit
<1>2. SearchInv /\ TraceInv /\ [Next]_vars => TraceInv'
  BY TraceInvNext
<1>. QED
  BY <1>1, <1>2, ExploreSearchInvariant, PTL DEF Spec

LEMMA BreadthInvariant == Spec => []BreadthInv
<1>1. Init => BreadthInv
  BY BreadthInvInit
<1>2. SearchInv /\ BreadthInv /\ [Next]_vars => BreadthInv'
  BY BreadthInvNext
<1>. QED
  BY <1>1, <1>2, ExploreSearchInvariant, PTL DEF Spec

\* With one thread every state is seen with a shortest path, so that every
\* counterexample is a shortest one: queue_enqueue appends, queue_dequeue takes the
\* first, and error() does not go on from MAX_ERRORS errors (explore).
THEOREM ExploreShortestTraces == Spec => []ShortestTraces
BY ExploreSearchInvariant, TraceInvariant, BreadthInvariant, TracesAreShortest, PTL

\* One thread finds what is within the bound, all of it and nothing else, unless errors
\* stop it: no state was found by a detour first, which would have hidden what is
\* behind it (init, explore, queue_enqueue, queue_dequeue).
THEOREM OneThreadSearchComplete == Spec => [](THREADS = 1 => SearchComplete)
<1>1. SearchInv /\ TraceInv /\ BreadthInv => (THREADS = 1 => SearchComplete)
  BY WellTyped, NothingIsLost, SearchIsComplete, BoundedEnd DEF SearchComplete, Complete
<1>. QED
  BY <1>1, ExploreSearchInvariant, TraceInvariant, BreadthInvariant, PTL

\* One thread finds an error exactly when there is one within the bound.  Liveness
\* is left out: a state at the bound is not expanded, so what it leads to is not known
\* (error, explore, exit_with).
THEOREM OneThreadVerdictRight == Spec => [](THREADS = 1 /\ Liveness = {} => VerdictRight)
<1>1. ConclusionInv /\ TraceInv /\ BreadthInv => (THREADS = 1 /\ Liveness = {} => VerdictRight)
  BY VerdictIsRight, BoundedVerdict
<1>. QED
  BY <1>1, ConclusionInvariant, TraceInvariant, BreadthInvariant, PTL

\* What one thread prints of the errors and counts is true at every bound: the rules
\* fired are those of the states before the bound, each run once (error, exit_with).
THEOREM OneThreadReportsTrue == Spec => [](THREADS = 1 => ReportsTrue)
<1>1. SearchInv /\ TraceInv /\ BreadthInv /\ FiredInv => (THREADS = 1 => RulesFiredExact)
  BY FiredUnbounded, BoundedEnd, RulesFiredHold
<1>2. SearchInv /\ TraceInv /\ BreadthInv /\ FiredInv /\ ReportsReal /\ ReportsBounded
        => (THREADS = 1 => ReportsTrue)
  BY <1>1 DEF ReportsTrue
<1>. QED
  BY <1>2, ExploreSearchInvariant, TraceInvariant, BreadthInvariant, FiredInvariant,
     ExploreReportsReal, ExploreReportsBounded, PTL

=============================================================================
