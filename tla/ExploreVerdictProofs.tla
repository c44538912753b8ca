------------------------ MODULE ExploreVerdictProofs ------------------------
(***************************************************************************)
(* Proofs about what the verifier concludes: the liveness properties its   *)
(* states are marked with, and the verdict.                                *)
(***************************************************************************)
EXTENDS ExploreProofs

\* A mark is passed on by the thread that stands at the previous state and is about
\* to make it there, not just one that will come to that property later.
PassedOn(s, p) ==
    \/ node[s].previous = NoState
    \/ p \in node[node[s].previous].liveness
    \/ \E t \in Threads : /\ th[t].pc = "mark" /\ NextMark(th[t]) = p
                          /\ th[t].at = node[s].previous
MarksRight ==
    \A s \in seen : \A p \in node[s].liveness : PassedOn(s, p) /\ CanReach(s, p)

\* It has begun at the new state, and what it marks can reach that.
MarkingRight ==
    \A t \in Threads : th[t].pc = "mark" =>
        /\ th[t].todo \subseteq LiveIn(th[t].n)
        /\ CanReach(th[t].at, NextMark(th[t]))
        /\ th[t].at # th[t].n => NextMark(th[t]) \in node[th[t].n].liveness

\* A state in which a property holds is marked, or will be.
Marking(s, p) == \E t \in Threads : th[t].pc = "mark" /\ th[t].n = s /\ p \in th[t].todo
SelfMarked ==
    \A s \in seen \ model.raising : \A p \in LiveIn(s) :
        p \in node[s].liveness \/ Marking(s, p)

\* Without a bound: a property that some reachable state cannot reach.
Hopeless(p) == \E s \in Reach(StartStates) : ~CanReach(s, p)
MissedRight ==
    IF result.done THEN /\ result.missed \subseteq Liveness
                        /\ BOUND = 0 => \A p \in result.missed : Hopeless(p)
                   ELSE result = NoResult

MarksInv == MarksRight /\ MarkingRight /\ SelfMarked /\ MissedRight

\* Correct, without a bound.
Right ==
    /\ \A i \in 1..Len(model.starts) : ~Violation(model.starts[i])
    /\ \A s \in Reach(StartStates) \ model.raising :
          /\ \A r \in 1..Rules : ~Violation(model.rule[s][r])
          /\ ~IsDeadlock(s)
    /\ Reach(StartStates) \cap model.raising = {}
    /\ \A i \in Covers : Reach(StartStates) \cap model.covers[i] # {}
    /\ \A p \in Liveness : ~Hopeless(p)

\* covered are the covers that some seen state satisfies.
CoversCounted == covered = {i \in Covers : \E s \in seen : s \in model.covers[i]}
\* Something is wrong with what the start states yield or with a seen state.
Flawed ==
    \/ \E i \in 1..Len(model.starts) : Violation(model.starts[i])
    \/ \E s \in seen \ model.raising :
          /\ BelowBound(s)
          /\ IsDeadlock(s) \/ \E r \in 1..Rules : Violation(model.rule[s][r])
    \/ seen \cap model.raising # {}
\* An error that is counted is one of what has been seen, or nothing else was wrong.
ErrorsReal ==
    error_count > 0 =>
        \/ Flawed
        \/ reports = {} /\ Joined /\ (covered # Covers \/ result.missed # {})
AllChecked ==
    /\ Joined /\ error_count = 0 => covered = Covers
    /\ Finished /\ error_count = 0 => \A s \in seen : node[s].liveness = Liveness
StatusKept ==
    MAX_ERRORS = 1 =>
        /\ error_count > 0 /\ ~Joined => Failed
        /\ Finished => (result.status = 0 <=> error_count = 0)

VerdictInv == CoversCounted /\ ErrorsReal /\ AllChecked /\ StatusKept

-----------------------------------------------------------------------------
(***************************************************************************)
(* What can be reached.                                                    *)
(***************************************************************************)

LEMMA CanReachKept ==
    ASSUME model' = model
    PROVE  /\ \A s, p : CanReach(s, p)' <=> CanReach(s, p)
           /\ \A s : LiveIn(s)' = LiveIn(s)
           /\ \A p : Hopeless(p)' <=> Hopeless(p)
<1>1. \A s, p : CanReach(s, p)' <=> CanReach(s, p)
  BY ModelKept DEF CanReach
<1>2. \A s : LiveIn(s)' = LiveIn(s)
  BY ModelKept DEF LiveIn
<1>3. \A p : Hopeless(p)' <=> Hopeless(p)
  BY <1>1, ModelKept DEF Hopeless
<1>. QED
  BY <1>1, <1>2, <1>3

LEMMA FlawedKept ==
    ASSUME model' = model, seen \subseteq seen', Flawed,
           \A s \in seen : node'[s].bound = node[s].bound
    PROVE  Flawed'
<1>1. BOUND' = BOUND /\ (\A o : Violation(o)' <=> Violation(o))
      /\ \A s : IsDeadlock(s)' <=> IsDeadlock(s)
  BY ModelKept
<1>2. \A s \in seen : BelowBound(s) => BelowBound(s)'
  BY <1>1 DEF BelowBound
<1>. QED
  BY <1>1, <1>2 DEF Flawed

LEMMA CanReachSelf ==
    ASSUME model \in Models, NEW s \in States, NEW p, s \in model.liveness[p]
    PROVE  CanReach(s, p)
BY ReachClosed DEF CanReach

LEMMA CanReachBack ==
    ASSUME model \in Models, NEW s \in States \ model.raising, NEW n \in Successors(s),
           NEW p, CanReach(n, p)
    PROVE  CanReach(s, p)
<1>1. n \in Reach({s}) /\ s \in Reach({s})
  BY ReachClosed
<1>2. Reach({n}) \subseteq Reach({s})
  <2>1. ASSUME NEW m \in Reach({n}), NEW C \in SUBSET States, {s} \subseteq C, Wider(C) \subseteq C
        PROVE  m \in C
    <3>1. {n} \subseteq C
      BY <1>1, <2>1 DEF Reach
    <3>. QED
      BY <2>1, <3>1 DEF Reach
  <2>. QED
    BY <2>1 DEF Reach
<1>. QED
  BY <1>2 DEF CanReach

\* Whoever a seen state was reached from can reach what it can.
LEMMA CanReachPrevious ==
    ASSUME SearchInv, NEW s \in seen, node[s].previous # NoState, NEW p, CanReach(s, p)
    PROVE  node[s].previous \in seen /\ CanReach(node[s].previous, p)
<1>1. node[s].previous \in seen \ model.raising /\ s \in Successors(node[s].previous)
  BY DEF SearchInv, FoundRight, Origin
<1>2. model \in Models /\ seen \subseteq States
  BY DEF SearchInv, Typed
<1>. QED
  BY <1>1, <1>2, CanReachBack

LEMMA SeenIsGood ==
    ASSUME SearchInv, NEW s \in seen
    PROVE  IsGood(s)
BY DEF SearchInv, FoundRight, Origin, StartStates, Successors

-----------------------------------------------------------------------------
(***************************************************************************)
(* Steps that neither insert nor mark states, while threads explore.       *)
(***************************************************************************)

Quiet ==
    /\ UNCHANGED <<model, node, covered, result>>
    /\ \A u \in Threads : \/ th'[u] = th[u]
                          \/ th[u].pc # "mark" /\ th'[u].pc # "mark"
    /\ \A u \in Threads : th[u].status = 1 => th'[u].status = 1
    /\ ~Joined /\ ~Joined'

\* An error is counted only if the model has one.
Counting ==
    \/ error_count' = error_count
    \/ /\ error_count' = error_count + 1
       /\ MAX_ERRORS = 1 => Failed'
       /\ Flawed

LEMMA QuietMove ==
    ASSUME SearchInv, NEW t \in Threads, th[t].pc \notin {"unborn", "mark", "learn", "exited"},
           NEW x, th' = [th EXCEPT ![t] = x], x.pc \notin {"mark", "learn"},
           t = 0 => x.pc # "exited", th[t].status = 1 => x.status = 1,
           UNCHANGED <<model, node, covered, result>>
    PROVE  Quiet
<1>1. th \in [Threads -> Locals] /\ 0 \in Threads
  BY ModelFields DEF SearchInv, Typed
<1>2. th'[t] = x /\ \A u \in Threads \ {t} : th'[u] = th[u]
  BY <1>1
<1>3. ~Joined /\ ~Joined'
  BY <1>1, <1>2, NotJoined DEF Joined
<1>. QED
  BY <1>2, <1>3 DEF Quiet

LEMMA ErrorQuiet ==
    ASSUME SearchInv, NEW t \in Threads, th[t].pc \notin Over \cup {"unborn", "mark"},
           NEW kind, NEW trace, NEW y \in Locals, y.pc \in {"init", "rule", "top"},
           Error(t, kind, trace, y), Flawed
    PROVE  Quiet /\ Counting
<1>1. /\ error_count' = error_count + 1
      /\ th' = [th EXCEPT ![t] = IF error_count + 1 < MAX_ERRORS THEN y
                                   ELSE [y EXCEPT !.pc = "exit", !.status = 1]]
      /\ UNCHANGED <<model, node, covered, result>>
  BY DEF Error, Continues
<1>2. th \in [Threads -> Locals] /\ error_count \in Nat /\ th[t].status # 1
  BY DEF SearchInv, Typed, ThreadsOK, ThreadOK, Shaped
<1>3. PICK z : z = IF error_count + 1 < MAX_ERRORS THEN y
                     ELSE [y EXCEPT !.pc = "exit", !.status = 1]
  OBVIOUS
<1>4. CASE error_count + 1 < MAX_ERRORS
  <2>1. Quiet
    BY <1>1, <1>2, <1>4, QuietMove DEF Over
  <2>2. MAX_ERRORS # 1
    BY <1>2, <1>4
  <2>. QED
    BY <1>1, <2>1, <2>2 DEF Counting
<1>5. CASE ~(error_count + 1 < MAX_ERRORS)
  <2>1. z.pc = "exit" /\ z.status = 1 /\ th' = [th EXCEPT ![t] = z]
    BY <1>1, <1>3, <1>5 DEF Locals
  <2>2. Quiet
    BY <1>1, <1>2, <2>1, QuietMove DEF Over
  <2>3. th'[t].status = 1 /\ Threads' = Threads
    BY <1>1, <1>2, <2>1, ModelKept
  <2>4. Failed'
    BY <2>3 DEF Failed
  <2>. QED
    BY <1>1, <2>2, <2>4 DEF Counting
<1>. QED
  BY <1>4, <1>5

LEMMA NextRuleQuiet ==
    ASSUME SearchInv, NEW t \in Threads, th[t].pc \notin Over \cup {"unborn", "mark"},
           NEW l \in Locals, th' = [th EXCEPT ![t] = NextRule(l)],
           UNCHANGED <<model, node, covered, result>>
    PROVE  Quiet
<1>1. PICK x : x = NextRule(l)
  OBVIOUS
<1>2. x.pc \in {"init", "rule"}
  BY <1>1, NextRuleFields DEF SearchInv, Typed
<1>3. th[t].status # 1
  BY DEF SearchInv, ThreadsOK, ThreadOK, Shaped
<1>. QED
  BY <1>1, <1>2, <1>3, QuietMove DEF Over

LEMMA RulesQuiet ==
    ASSUME SearchInv, NEW t \in Threads, DiscardState(t) \/ InsertDuplicate(t)
    PROVE  Quiet /\ Counting
<1>1. /\ InInit(t) \/ InRules(t)
      /\ UNCHANGED <<model, node, error_count, covered, result>>
      /\ \/ th' = [th EXCEPT ![t] = NextRule(th[t])]
         \/ Outcome(t) \in States /\ th' = [th EXCEPT ![t] = NextRule(AfterRule(t))]
  <2>1. CASE DiscardState(t)
    BY <2>1 DEF DiscardState
  <2>2. CASE InsertDuplicate(t)
    BY <2>2 DEF InsertDuplicate, SearchInv, Typed
  <2>. QED
    BY <2>1, <2>2
<1>2. th[t] \in Locals /\ th[t].pc \notin Over \cup {"unborn", "mark"}
  BY <1>1, OutcomeIs DEF Over
<1>3. Outcome(t) \in States => AfterRule(t) \in Locals
  BY <1>1, AfterRuleFields
<1>4. PICK l \in Locals : th' = [th EXCEPT ![t] = NextRule(l)]
  BY <1>1, <1>2, <1>3
<1>. QED
  BY <1>1, <1>2, <1>4, NextRuleQuiet DEF Counting

LEMMA FailRuleQuiet ==
    ASSUME SearchInv, NEW t \in Threads, FailRule(t)
    PROVE  Quiet /\ Counting
<1>. USE DEF SearchInv
<1>1. InInit(t) \/ InRules(t)
  BY DEF FailRule
<1>2. /\ th[t] \in Locals /\ th[t].pc \in {"init", "rule"}
      /\ Outcome(t) \in States \cup NotStates /\ model \in Models
  BY <1>1, OutcomeIs DEF Typed
<1>3. PICK o \in States \cup NotStates : o = Outcome(t)
  BY <1>2
<1>4. PICK kind, trace, l : Error(t, kind, trace, NextRule(l)) /\ l \in Locals /\ Violation(o)
  <2>1. CASE /\ o \in {GuardError, RuleError}
             /\ Error(t, o, NewTrace(t, NoState), NextRule(th[t]))
    BY <1>2, <2>1 DEF Violation
  <2>2. CASE /\ MeetsAssumptions(o) /\ ~MeetsInvariants(o)
             /\ Error(t, "invariant", NewTrace(t, o), NextRule(AfterRule(t)))
    <3>1. o \in States
      BY <1>2, <2>2, OutcomeFacts
    <3>2. AfterRule(t) \in Locals
      BY <1>1, <1>3, <3>1, AfterRuleFields
    <3>. QED
      BY <2>2, <3>2 DEF Violation, MeetsAssumptions, MeetsInvariants
  <2>. QED
    BY <1>3, <2>1, <2>2 DEF FailRule
<1>5. PICK y : y = NextRule(l)
  OBVIOUS
<1>6. y \in Locals /\ y.pc \in {"init", "rule", "top"}
  BY <1>2, <1>4, <1>5, NextRuleFields
<1>7. Flawed
  <2>1. CASE th[t].pc = "init"
    BY <1>1, <1>3, <1>4, <2>1, OutcomeIs DEF Flawed
  <2>2. CASE th[t].pc = "rule"
    <3>1. /\ th[t].rule_taken \in 1..Rules /\ th[t].s \in seen
          /\ o = model.rule[th[t].s][th[t].rule_taken]
      BY <1>1, <1>3, <2>2, OutcomeIs
    <3>2. th[t].s \in seen \ model.raising /\ BelowBound(th[t].s)
      BY <2>2, <3>1 DEF ThreadsOK, ThreadOK, Shaped, Known, Expands, Active
    <3>. QED
      BY <1>4, <3>1, <3>2 DEF Flawed
  <2>. QED
    BY <1>2, <2>1, <2>2
<1>8. th[t].pc \notin Over \cup {"unborn", "mark"}
  BY <1>2 DEF Over
<1>. QED
  BY <1>4, <1>5, <1>6, <1>7, <1>8, ErrorQuiet

LEMMA FailPropertyQuiet ==
    ASSUME SearchInv, NEW t \in Threads, FailProperty(t)
    PROVE  Quiet /\ Counting
<1>. USE DEF SearchInv
<1>1. /\ th[t].pc = "raise" /\ th[t] \in Locals /\ ThreadOK(t, th[t]) /\ model \in Models
      /\ Error(t, "property", Trace(th[t].n), NextRule(th[t]))
  BY DEF FailProperty, At, Typed, ThreadsOK
<1>2. PICK y : y = NextRule(th[t])
  OBVIOUS
<1>3. y \in Locals /\ y.pc \in {"init", "rule", "top"}
  BY <1>1, <1>2, NextRuleFields
<1>4. th[t].n \in seen \cap model.raising
  BY <1>1 DEF ThreadOK, Shaped, Known, New
<1>5. Flawed
  BY <1>4 DEF Flawed
<1>6. th[t].pc \notin Over \cup {"unborn", "mark"}
  BY <1>1 DEF Over
<1>. QED
  BY <1>1, <1>2, <1>3, <1>5, <1>6, ErrorQuiet

LEMMA EndRulesQuiet ==
    ASSUME SearchInv, NEW t \in Threads, EndRules(t)
    PROVE  Quiet /\ Counting
<1>. USE DEF SearchInv
<1>1. /\ th[t].pc = "rule" /\ th[t] \in Locals /\ ThreadOK(t, th[t]) /\ model \in Models
      /\ th[t].rule_taken > Rules
  BY DEF EndRules, At, Typed, ThreadsOK
<1>2. PICK l, x : l = th[t] /\ x = [l EXCEPT !.pc = "top"]
  OBVIOUS
<1>3. x \in Locals /\ x.pc = "top" /\ x.status = l.status
  BY <1>1, <1>2 DEF Locals, Labels
<1>4. th[t].pc \notin Over \cup {"unborn", "mark"}
  BY <1>1 DEF Over
<1>5. CASE DEADLOCK_DETECTION # "off" /\ l.possible_deadlock
  <2>1. Error(t, "deadlock", Trace(th[t].s), x)
    BY <1>2, <1>5 DEF EndRules
  <2>2. Expands(l) /\ l.s \in seen /\ l.s \notin model.raising /\ BelowBound(l.s)
    BY <1>1, <1>2 DEF ThreadOK, Shaped, Known, Expands, Active
  <2>3. \A r \in 1..Rules : Ran(l, r)
    BY <1>1, <1>2, ModelFields DEF Ran, Locals
  <2>4. Moving(l.s) = {}
    <3>1. Moving(l.s) \subseteq 1..Rules
      BY DEF Moving, Firing
    <3>. QED
      BY <1>1, <1>2, <1>5, <2>2, <2>3, <3>1 DEF ThreadOK, Progress
  <2>5. Flawed
    BY <1>5, <2>2, <2>4 DEF Flawed, IsDeadlock
  <2>. QED
    BY <1>3, <1>4, <2>1, <2>5, ErrorQuiet
<1>6. CASE ~(DEADLOCK_DETECTION # "off" /\ l.possible_deadlock)
  <2>1. th' = [th EXCEPT ![t] = x] /\ UNCHANGED <<model, node, error_count, covered, result>>
    BY <1>2, <1>6 DEF EndRules
  <2>. QED
    BY <1>2, <1>3, <1>4, <2>1, QuietMove DEF Over, Counting
<1>. QED
  BY <1>5, <1>6

LEMMA EnqueueQuiet ==
    ASSUME SearchInv, NEW t \in Threads, Enqueue(t)
    PROVE  Quiet /\ Counting
<1>. USE DEF SearchInv
<1>1. /\ th[t].pc = "enqueue" /\ th[t] \in Locals /\ model \in Models
      /\ th \in [Threads -> Locals] /\ th[t].status # 1
      /\ UNCHANGED <<model, node, error_count, covered, result>>
  BY DEF Enqueue, At, Typed, ThreadsOK, ThreadOK, Shaped, Over
<1>2. PICK l, k : l = th[t] /\ k = IF l.s = NoState THEN l.queue_id ELSE t
  OBVIOUS
<1>3. PICK q, y : q = (IF l.s = NoState THEN NextQueue(k) ELSE k) /\ y = NextRule(l)
  OBVIOUS
<1>4. y \in Locals /\ y.pc \in {"init", "rule"}
  BY <1>1, <1>2, <1>3, NextRuleFields
<1>5. CASE th' = [th EXCEPT ![t] = [y EXCEPT !.at = NoState]]
  <2>1. PICK x : x = [y EXCEPT !.at = NoState]
    OBVIOUS
  <2>2. x.pc = y.pc
    BY <1>4, <2>1 DEF Locals
  <2>. QED
    BY <1>1, <1>4, <1>5, <2>1, <2>2, QuietMove DEF Counting
<1>6. ASSUME NEW start \in BOOLEAN, start => t = 0 /\ phase = "warmup",
             NEW x, x = [y EXCEPT !.queue_id = q, !.at = NoState],
             th' = [u \in Threads |-> CASE u = t -> x
                                        [] u # t /\ start -> StartLocals(u, "top")
                                        [] OTHER -> th[u]]
      PROVE  Quiet
  <2>1. x.pc \in {"init", "rule"}
    BY <1>4, <1>6 DEF Locals
  <2>2. CASE ~start
    <3>1. th' = [th EXCEPT ![t] = x]
      BY <1>1, <1>6, <2>2
    <3>. QED
      BY <1>1, <2>1, <3>1, QuietMove
  <2>3. CASE start
    <3>1. /\ t = 0 /\ th'[0] = x
          /\ \A u \in Threads \ {0} : th'[u] = StartLocals(u, "top")
      BY <1>6, <2>3
    <3>2. \A u \in Threads \ {0} : th[u].pc = "unborn" /\ th'[u].pc = "top" /\ th[u].status # 1
      BY <1>6, <2>3, <3>1 DEF ThreadsOK, ThreadOK, Shaped, StartLocals, Over
    <3>3. ~Joined /\ ~Joined'
      BY <1>1, <2>1, <3>1 DEF Joined
    <3>. QED
      BY <1>1, <2>1, <3>1, <3>2, <3>3 DEF Quiet
  <2>. QED
    BY <2>2, <2>3
<1>7. CASE th' # [th EXCEPT ![t] = [y EXCEPT !.at = NoState]]
  <2>1. PICK x, start :
          /\ x = [y EXCEPT !.queue_id = q, !.at = NoState]
          /\ start = StartsOthers(t, Len(queue[k]) + 1)
    OBVIOUS
  <2>2. th' = [u \in Threads |-> CASE u = t -> x
                                   [] u # t /\ start -> StartLocals(u, "top")
                                   [] OTHER -> th[u]]
    BY <1>2, <1>3, <1>7, <2>1 DEF Enqueue
  <2>3. start \in BOOLEAN /\ (start => t = 0 /\ phase = "warmup")
    BY <2>1 DEF StartsOthers
  <2>. QED
    BY <1>1, <1>6, <2>1, <2>2, <2>3 DEF Counting
<1>. QED
  BY <1>1, <1>5, <1>7 DEF Counting

LEMMA LoopQuiet ==
    ASSUME SearchInv, NEW t \in Threads,
           EndInit(t) \/ LoopTop(t) \/ Dequeue(t) \/ DequeueNothing(t) \/ Exit(t)
    PROVE  Quiet /\ Counting
<1>. USE DEF SearchInv
<1>1. th[t] \in Locals /\ th \in [Threads -> Locals] /\ ThreadOK(t, th[t])
  BY DEF Typed, ThreadsOK
<1>2. PICK x : /\ th' = [th EXCEPT ![t] = x]
               /\ x.pc \notin {"mark", "learn"} /\ (t = 0 => x.pc # "exited")
               /\ th[t].pc \in {"init", "top", "dequeue", "exit"}
               /\ th[t].status = 1 => x.status = 1
  <2>1. CASE EndInit(t)
    <3>1. th[t].pc = "init" /\ th' = [th EXCEPT ![t] = StartLocals(t, "top")]
      BY <2>1 DEF EndInit, At
    <3>2. th[t].status # 1
      BY <1>1, <3>1 DEF ThreadOK, Shaped, Over
    <3>3. PICK x : x = StartLocals(t, "top")
      OBVIOUS
    <3>. QED
      BY <3>1, <3>2, <3>3 DEF StartLocals
  <2>2. CASE LoopTop(t)
    <3>1. PICK g : g = IF THREADS > 1 /\ error_count >= MAX_ERRORS THEN "exit" ELSE "dequeue"
      OBVIOUS
    <3>2. PICK x : x = [th[t] EXCEPT !.attempts = 0, !.pc = g]
      OBVIOUS
    <3>3. th[t].pc = "top" /\ th' = [th EXCEPT ![t] = x]
      BY <2>2, <3>1, <3>2 DEF LoopTop, At
    <3>4. x.pc = g /\ x.status = th[t].status
      BY <1>1, <3>2 DEF Locals
    <3>. QED
      BY <3>1, <3>3, <3>4
  <2>3. CASE Dequeue(t)
    <3>1. PICK x : x = [th[t] EXCEPT !.s = Dequeued(th[t].queue_id), !.pc = "rule",
                                     !.possible_deadlock = TRUE, !.rule_taken = 1]
      OBVIOUS
    <3>2. th[t].pc = "dequeue" /\ th' = [th EXCEPT ![t] = x]
      BY <2>3, <3>1 DEF Dequeue, At
    <3>3. x.pc = "rule" /\ x.status = th[t].status
      BY <1>1, <3>1 DEF Locals
    <3>. QED
      BY <3>2, <3>3
  <2>4. CASE DequeueNothing(t)
    <3>1. PICK g : g = IF AllTried(t) THEN "exit" ELSE "dequeue"
      OBVIOUS
    <3>2. PICK x : x = [th[t] EXCEPT !.attempts = NextAttempt(t),
                                     !.queue_id = NextQueue(th[t].queue_id), !.pc = g]
      OBVIOUS
    <3>3. th[t].pc = "dequeue" /\ th' = [th EXCEPT ![t] = x]
      BY <2>4, <3>1, <3>2 DEF DequeueNothing, At
    <3>4. x.pc = g /\ x.status = th[t].status
      BY <1>1, <3>2 DEF Locals
    <3>. QED
      BY <3>1, <3>3, <3>4
  <2>5. CASE Exit(t)
    <3>1. PICK g : g = IF t = 0 THEN "join" ELSE "exited"
      OBVIOUS
    <3>2. PICK x : x = [th[t] EXCEPT !.pc = g]
      OBVIOUS
    <3>3. th[t].pc = "exit" /\ th' = [th EXCEPT ![t] = x]
      BY <2>5, <3>1, <3>2 DEF Exit, At
    <3>4. x.pc = g /\ x.status = th[t].status
      BY <1>1, <3>2 DEF Locals
    <3>. QED
      BY <3>1, <3>3, <3>4
  <2>. QED
    BY <2>1, <2>2, <2>3, <2>4, <2>5
<1>3. UNCHANGED <<model, node, error_count, covered, result>>
  BY DEF EndInit, LoopTop, Dequeue, DequeueNothing, Exit
<1>. QED
  BY <1>2, <1>3, QuietMove DEF Counting

\* All steps of the threads that explore, apart from those of new states.
LEMMA StepsQuiet ==
    ASSUME SearchInv, NEW t \in Threads, Step(t),
           ~(InsertNew(t) \/ MarkLiveness(t) \/ Join(t) \/ Learn(t) \/ Summarise(t))
    PROVE  Quiet /\ Counting
BY RulesQuiet, FailRuleQuiet, FailPropertyQuiet, EnqueueQuiet, LoopQuiet, EndRulesQuiet
DEF Step

LEMMA QuietKeepsMarks ==
    ASSUME SearchInv, MarksInv, UNCHANGED <<model, node>>, MissedRight',
           \A u \in Threads : \/ th'[u] = th[u]
                              \/ th[u].pc # "mark" /\ th'[u].pc # "mark"
    PROVE  MarksInv'
<1>. USE DEF MarksInv
<1>1. seen' = seen /\ Threads' = Threads
  BY ModelKept DEF seen
<1>2. \A u \in Threads : (th[u].pc = "mark" \/ th'[u].pc = "mark") => th'[u] = th[u]
  OBVIOUS
<1>3. MarksRight'
  <2>1. ASSUME NEW s \in seen, NEW p \in node[s].liveness PROVE PassedOn(s, p)'
    <3>1. PassedOn(s, p)
      BY DEF MarksRight
    <3>2. CASE \E t \in Threads : /\ th[t].pc = "mark" /\ NextMark(th[t]) = p
                                  /\ th[t].at = node[s].previous
      <4>1. PICK t \in Threads : /\ th[t].pc = "mark" /\ NextMark(th[t]) = p
                                 /\ th[t].at = node[s].previous
        BY <3>2
      <4>2. th'[t] = th[t]
        BY <1>2, <4>1
      <4>3. /\ th'[t].pc = "mark" /\ NextMark(th'[t]) = p
            /\ th'[t].at = node'[s].previous
        BY <4>1, <4>2
      <4>. QED
        BY <1>1, <4>3 DEF PassedOn
    <3>. QED
      BY <3>1, <3>2 DEF PassedOn
  <2>2. \A s \in seen : \A p \in node[s].liveness : CanReach(s, p)'
    BY CanReachKept DEF MarksRight
  <2>. QED
    BY <1>1, <2>1, <2>2 DEF MarksRight
<1>4. MarkingRight'
  <2>1. ASSUME NEW t \in Threads, th'[t].pc = "mark"
        PROVE  /\ th'[t].todo \subseteq LiveIn(th[t].n)'
               /\ CanReach(th[t].at, NextMark(th[t]))'
               /\ th'[t].at # th'[t].n => NextMark(th'[t]) \in node'[th'[t].n].liveness
    <3>1. th'[t] = th[t]
      BY <1>2, <2>1
    <3>2. PICK l : l = th[t]
      OBVIOUS
    <3>3. /\ l.todo \subseteq LiveIn(l.n) /\ CanReach(l.at, NextMark(l))
          /\ l.at # l.n => NextMark(l) \in node[l.n].liveness
      BY <2>1, <3>1, <3>2 DEF MarkingRight
    <3>4. l.todo \subseteq LiveIn(l.n)' /\ CanReach(l.at, NextMark(l))'
      BY <3>3, CanReachKept
    <3>. QED
      BY <3>1, <3>2, <3>3, <3>4
  <2>. QED
    BY <1>1, <2>1 DEF MarkingRight
<1>5. SelfMarked'
  <2>1. ASSUME NEW s, NEW p, Marking(s, p) PROVE Marking(s, p)'
    BY <1>1, <1>2, <2>1 DEF Marking
  <2>. QED
    BY <1>1, <2>1, CanReachKept DEF SelfMarked
<1>. QED
  BY <1>3, <1>4, <1>5

LEMMA MissedKept ==
    ASSUME SearchInv, MissedRight, UNCHANGED <<model, result>>
    PROVE  MissedRight'
BY CanReachKept, ModelKept DEF MissedRight, NoResult

LEMMA QuietKeeps ==
    ASSUME SearchInv, MarksInv, VerdictInv, Quiet, Counting
    PROVE  MarksInv' /\ VerdictInv'
<1>. USE DEF VerdictInv
<1>1. /\ UNCHANGED <<model, node, covered, result>> /\ seen' = seen /\ ~Joined /\ ~Joined'
      /\ Threads' = Threads /\ Covers' = Covers /\ BOUND' = BOUND /\ MAX_ERRORS' = MAX_ERRORS
  BY ModelKept DEF Quiet, seen
<1>2. MarksInv'
  <2>1. MissedRight'
    BY <1>1, MissedKept DEF MarksInv
  <2>. QED
    BY <1>1, <2>1, QuietKeepsMarks DEF Quiet
<1>3. CoversCounted'
  BY <1>1 DEF CoversCounted
<1>4. error_count \in Nat /\ (error_count' = error_count \/ error_count' = error_count + 1)
  BY DEF Counting, SearchInv, Typed
<1>5. ErrorsReal'
  <2>1. error_count' > 0 => Flawed
    BY <1>1, <1>4 DEF Counting, ErrorsReal
  <2>. QED
    BY <1>1, <2>1, FlawedKept DEF ErrorsReal
<1>6. ~Finished /\ ~Finished'
  BY <1>1 DEF Finished, SearchInv, Ending, Joined
<1>7. AllChecked'
  BY <1>1, <1>6 DEF AllChecked
<1>8. StatusKept'
  <2>1. Failed => Failed'
    BY <1>1 DEF Failed, Quiet
  <2>2. MAX_ERRORS = 1 /\ error_count' > 0 => Failed'
    BY <1>1, <1>4, <2>1 DEF StatusKept, Counting
  <2>. QED
    BY <1>1, <1>6, <2>2 DEF StatusKept
<1>. QED
  BY <1>2, <1>3, <1>5, <1>7, <1>8

-----------------------------------------------------------------------------
(***************************************************************************)
(* New states and marks.                                                   *)
(***************************************************************************)

\* The state a thread marks and the one it marks it for have been seen.
LEMMA MarkingKnown ==
    ASSUME SearchInv, NEW t \in Threads, th[t].pc = "mark"
    PROVE  /\ th[t].at \in seen /\ th[t].n \in seen \ model.raising /\ th[t].todo # {}
           /\ th[t] \in Locals /\ NextMark(th[t]) \in th[t].todo
<1>1. /\ th[t] \in Locals /\ model \in Models
      /\ Shaped(t, th[t]) /\ Known(th[t])
  BY DEF SearchInv, Typed, ThreadsOK, ThreadOK
<1>2. /\ th[t].at \in seen /\ th[t].n \in seen \ model.raising /\ th[t].todo # {}
  BY <1>1 DEF Shaped, Known, New
<1>. QED
  BY <1>1, <1>2, NextMarkIs

LEMMA InsertNewMarks ==
    ASSUME SearchInv, MarksInv, NEW t \in Threads, InsertNew(t)
    PROVE  MarksInv'
<1>. USE DEF MarksInv
<1>1. PICK l, n : l = th[t] /\ n = Outcome(t)
  OBVIOUS
<1>2. /\ InInit(t) \/ InRules(t)
      /\ n \in States \ seen /\ UNCHANGED <<model, result>>
  BY <1>1, InsertNewIs
<1>3. PICK x : Inserted(l, n, x) /\ th' = [th EXCEPT ![t] = x]
  BY <1>1, InsertNewIs
<1>4. PICK struct : struct = [previous |-> l.s, rule_taken |-> l.rule_taken,
                              bound |-> NewBound(t), liveness |-> {}]
  OBVIOUS
<1>5. node' = [z \in seen \cup {n} |-> IF z = n THEN struct ELSE node[z]]
  BY <1>1, <1>4, InsertNewIs
<1>6. /\ seen' = seen \cup {n} /\ node'[n].liveness = {}
      /\ \A z \in seen : node'[z] = node[z]
  BY <1>2, <1>4, <1>5 DEF seen
<1>7. /\ model \in Models /\ Threads' = Threads /\ th \in [Threads -> Locals]
      /\ th'[t] = x /\ \A u \in Threads \ {t} : th'[u] = th[u]
      /\ th[t].pc # "mark"
  BY <1>2, <1>3, OutcomeIs, ModelKept DEF SearchInv, Typed
<1>8. MarksRight'
  <2>1. ASSUME NEW s \in seen, NEW p \in node[s].liveness PROVE PassedOn(s, p)'
    <3>1. PassedOn(s, p) /\ (node[s].previous = NoState \/ node[s].previous \in seen)
      BY DEF MarksRight, SearchInv, FoundRight, Origin
    <3>2. CASE \E u \in Threads : /\ th[u].pc = "mark" /\ NextMark(th[u]) = p
                                  /\ th[u].at = node[s].previous
      <4>1. PICK u \in Threads : /\ th[u].pc = "mark" /\ NextMark(th[u]) = p
                                 /\ th[u].at = node[s].previous
        BY <3>2
      <4>2. th'[u] = th[u]
        BY <1>7, <4>1
      <4>3. /\ th'[u].pc = "mark" /\ NextMark(th'[u]) = p
            /\ th'[u].at = node'[s].previous
        BY <1>6, <4>1, <4>2
      <4>. QED
        BY <1>7, <4>3 DEF PassedOn
    <3>. QED
      BY <1>6, <3>1, <3>2 DEF PassedOn
  <2>2. \A s \in seen : \A p \in node[s].liveness : CanReach(s, p)'
    BY <1>2, CanReachKept DEF MarksRight
  <2>. QED
    BY <1>6, <2>1, <2>2 DEF MarksRight
<1>9. MarkingRight'
  <2>1. ASSUME NEW u \in Threads, th'[u].pc = "mark", NEW y, y = th'[u]
        PROVE  /\ y.todo \subseteq LiveIn(y.n)
               /\ CanReach(y.at, NextMark(y))
               /\ y.at # y.n => NextMark(y) \in node'[y.n].liveness
    <3>1. CASE u = t
      <4>1. /\ y = x /\ y.todo = LiveIn(n) /\ y.n = n /\ y.at = n /\ y \in Locals
            /\ y.todo # {}
        BY <1>3, <1>7, <2>1, <3>1 DEF Inserted
      <4>2. NextMark(y) \in LiveIn(n)
        BY <1>7, <4>1, NextMarkIs
      <4>3. CanReach(n, NextMark(y))
        BY <1>2, <1>7, <4>2, CanReachSelf DEF LiveIn
      <4>. QED
        BY <4>1, <4>3
    <3>2. CASE u # t
      <4>1. y = th[u] /\ th[u].pc = "mark"
        BY <1>7, <2>1, <3>2
      <4>2. y.n \in seen
        BY <4>1, MarkingKnown
      <4>. QED
        BY <1>6, <4>1, <4>2 DEF MarkingRight
    <3>. QED
      BY <3>1, <3>2
  <2>2. ASSUME NEW u \in Threads, th'[u].pc = "mark"
        PROVE  /\ th'[u].todo \subseteq LiveIn(th[u].n)'
               /\ CanReach(th[u].at, NextMark(th[u]))'
               /\ th'[u].at # th'[u].n => NextMark(th'[u]) \in node'[th'[u].n].liveness
    <3>1. PICK y : y = th'[u]
      OBVIOUS
    <3>2. y.todo \subseteq LiveIn(y.n)' /\ CanReach(y.at, NextMark(y))'
      BY <1>2, <2>1, <2>2, <3>1, CanReachKept
    <3>. QED
      BY <2>1, <2>2, <3>1, <3>2
  <2>. QED
    BY <1>7, <2>2 DEF MarkingRight
<1>10. SelfMarked'
  <2>1. ASSUME NEW s, NEW p, Marking(s, p) PROVE Marking(s, p)'
    BY <1>7, <2>1 DEF Marking
  <2>2. ASSUME n \notin model.raising, NEW p \in LiveIn(n) PROVE Marking(n, p)'
    <3>1. x.pc = "mark" /\ x.n = n /\ p \in x.todo
      BY <1>3, <2>2 DEF Inserted, New
    <3>. QED
      BY <1>7, <3>1 DEF Marking
  <2>. QED
    BY <1>2, <1>6, <2>1, <2>2, CanReachKept DEF SelfMarked
<1>11. MissedRight'
  BY <1>2, MissedKept
<1>. QED
  BY <1>8, <1>9, <1>10, <1>11

LEMMA MarkLivenessMarks ==
    ASSUME SearchInv, MarksInv, NEW t \in Threads, MarkLiveness(t)
    PROVE  MarksInv'
<1>. USE DEF MarksInv
<1>1. PICK l, p : l = th[t] /\ p = NextMark(th[t])
  OBVIOUS
<1>2. /\ l.pc = "mark" /\ l \in Locals /\ l.at \in seen /\ l.n \in seen /\ p \in l.todo
      /\ model \in Models /\ th \in [Threads -> Locals] /\ node \in [seen -> Structs]
      /\ seen \subseteq States
  BY <1>1, MarkingKnown DEF MarkLiveness, At, SearchInv, Typed
<1>3. /\ UNCHANGED <<model, result>> /\ Threads' = Threads
      /\ node' = [node EXCEPT ![l.at].liveness = node[l.at].liveness \cup {p}]
  BY <1>1, ModelKept DEF MarkLiveness
<1>4. PICK g : g = IF l.todo = {p} THEN "enqueue" ELSE "mark"
  BY SMTT(30)
<1>5. PICK x : /\ th' = [th EXCEPT ![t] = x]
               /\ IF MarksOn(l.at, p) THEN x = [l EXCEPT !.at = node[l.at].previous]
                    ELSE x = [l EXCEPT !.todo = l.todo \ {p}, !.at = l.n, !.pc = g]
  BY <1>1, <1>4 DEF MarkLiveness
<1>6. th'[t] = x /\ \A u \in Threads \ {t} : th'[u] = th[u]
  BY <1>2, <1>5
<1>7. /\ seen' = seen
      /\ \A z \in seen : /\ node'[z].previous = node[z].previous
                         /\ node'[z].liveness = IF z = l.at THEN node[z].liveness \cup {p}
                                                            ELSE node[z].liveness
  BY <1>2, <1>3 DEF seen, Structs
<1>8. CanReach(l.at, p) /\ l.todo \subseteq LiveIn(l.n)
      /\ (l.at # l.n => p \in node[l.n].liveness)
  BY <1>1, <1>2 DEF MarkingRight
<1>9. p \in node'[l.n].liveness
  BY <1>2, <1>7, <1>8
<1>. DEFINE Onward == /\ x.todo \subseteq LiveIn(x.n) /\ CanReach(x.at, NextMark(x))
                      /\ x.at # x.n => NextMark(x) \in node'[x.n].liveness
<1>10. /\ x.n = l.n /\ PassedOn(l.at, p)' /\ (x.pc = "mark" => Onward)
       /\ \A q \in l.todo : q = p \/ (x.pc = "mark" /\ q \in x.todo)
  <2>1. CASE MarksOn(l.at, p)
    <3>1. x.pc = "mark" /\ x.todo = l.todo /\ x.n = l.n /\ x.at = node[l.at].previous
      BY <1>2, <1>5, <2>1 DEF Locals
    <3>2. NextMark(x) = p
      BY <1>1, <3>1 DEF NextMark
    <3>3. PassedOn(l.at, p)'
      <4>1. th'[t].pc = "mark" /\ NextMark(th'[t]) = p /\ th'[t].at = node'[l.at].previous
        BY <1>2, <1>6, <1>7, <3>1, <3>2
      <4>. QED
        BY <1>3, <4>1 DEF PassedOn
    <3>4. CanReach(node[l.at].previous, p)
      BY <1>2, <1>8, <2>1, CanReachPrevious DEF MarksOn
    <3>5. Onward
      BY <1>8, <1>9, <3>1, <3>2, <3>4
    <3>. QED
      BY <3>1, <3>3, <3>5
  <2>2. CASE ~MarksOn(l.at, p)
    <3>1. x.pc = g /\ x.todo = l.todo \ {p} /\ x.n = l.n /\ x.at = l.n /\ x \in Locals
      <4>1. g \in Labels /\ l.todo \ {p} \in SUBSET Liveness /\ l.n \in SomeState
        BY <1>2, <1>4 DEF Locals, Labels
      <4>2. x = [l EXCEPT !.todo = l.todo \ {p}, !.at = l.n, !.pc = g]
        BY <1>5, <2>2
      <4>. QED
        BY <1>2, <4>1, <4>2 DEF Locals
    <3>2. PassedOn(l.at, p)'
      <4>1. CASE node[l.at].previous = NoState
        BY <1>2, <1>7, <4>1 DEF PassedOn
      <4>2. CASE node[l.at].previous # NoState
        <5>1. PassedOn(l.at, p) /\ node[l.at].previous \in seen
          BY <1>2, <2>2, <4>2 DEF MarksOn, MarksRight, SearchInv, FoundRight, Origin
        <5>2. CASE p \in node[node[l.at].previous].liveness
          BY <1>2, <1>7, <5>1, <5>2 DEF PassedOn
        <5>3. CASE \E u \in Threads : /\ th[u].pc = "mark" /\ NextMark(th[u]) = p
                                      /\ th[u].at = node[l.at].previous
          <6>1. PICK u \in Threads : /\ th[u].pc = "mark" /\ NextMark(th[u]) = p
                                     /\ th[u].at = node[l.at].previous
            BY <5>3
          <6>2. CASE u = t
            BY <1>1, <1>2, <1>7, <5>1, <6>1, <6>2 DEF PassedOn
          <6>3. CASE u # t
            <7>1. th'[u] = th[u]
              BY <1>6, <6>3
            <7>2. th'[u].pc = "mark" /\ NextMark(th'[u]) = p /\ th'[u].at = node'[l.at].previous
              BY <1>2, <1>7, <6>1, <7>1
            <7>. QED
              BY <1>3, <7>2 DEF PassedOn
          <6>. QED
            BY <6>2, <6>3
        <5>. QED
          BY <4>2, <5>1, <5>2, <5>3 DEF PassedOn
      <4>. QED
        BY <4>1, <4>2
    <3>3. \A q \in l.todo : q = p \/ (x.pc = "mark" /\ q \in x.todo)
      BY <1>4, <3>1
    <3>4. ASSUME x.pc = "mark" PROVE Onward
      <4>1. x.todo # {}
        BY <1>2, <1>4, <3>1, <3>4
      <4>2. NextMark(x) \in x.todo
        BY <1>2, <3>1, <4>1, NextMarkIs
      <4>3. CanReach(l.n, NextMark(x))
        BY <1>2, <1>8, <3>1, <4>2, CanReachSelf DEF LiveIn
      <4>. QED
        BY <1>8, <3>1, <4>3
    <3>. QED
      BY <3>1, <3>2, <3>3, <3>4
  <2>. QED
    BY <2>1, <2>2
<1>11. MarksRight'
  <2>1. ASSUME NEW s \in seen, NEW q \in node[s].liveness PROVE PassedOn(s, q)'
    <3>1. PassedOn(s, q) /\ (node[s].previous = NoState \/ node[s].previous \in seen)
      BY DEF MarksRight, SearchInv, FoundRight, Origin
    <3>2. CASE \E u \in Threads : /\ th[u].pc = "mark" /\ NextMark(th[u]) = q
                                  /\ th[u].at = node[s].previous
      <4>1. PICK u \in Threads : /\ th[u].pc = "mark" /\ NextMark(th[u]) = q
                                 /\ th[u].at = node[s].previous
        BY <3>2
      <4>2. CASE u = t
        BY <1>1, <1>2, <1>7, <4>1, <4>2 DEF PassedOn
      <4>3. CASE u # t
        <5>1. th'[u] = th[u]
          BY <1>6, <4>3
        <5>2. th'[u].pc = "mark" /\ NextMark(th'[u]) = q /\ th'[u].at = node'[s].previous
          BY <1>7, <4>1, <5>1
        <5>. QED
          BY <1>3, <5>2 DEF PassedOn
      <4>. QED
        BY <4>2, <4>3
    <3>. QED
      BY <1>7, <3>1, <3>2 DEF PassedOn
  <2>2. \A s \in seen : \A q \in node[s].liveness : CanReach(s, q)'
    BY <1>3, CanReachKept DEF MarksRight
  <2>3. CanReach(l.at, p)'
    BY <1>3, <1>8, CanReachKept
  <2>4. \A s \in seen : \A q \in node'[s].liveness :
           q \in node[s].liveness \/ (s = l.at /\ q = p)
    BY <1>7
  <2>. QED
    BY <1>7, <1>10, <2>1, <2>2, <2>3, <2>4 DEF MarksRight
<1>12. MarkingRight'
  <2>1. ASSUME NEW u \in Threads, th'[u].pc = "mark", NEW y, y = th'[u]
        PROVE  /\ y.todo \subseteq LiveIn(y.n)
               /\ CanReach(y.at, NextMark(y))
               /\ y.at # y.n => NextMark(y) \in node'[y.n].liveness
    <3>1. CASE u = t
      BY <1>6, <1>10, <2>1, <3>1
    <3>2. CASE u # t
      <4>1. y = th[u] /\ th[u].pc = "mark"
        BY <1>6, <2>1, <3>2
      <4>2. y.n \in seen
        BY <4>1, MarkingKnown
      <4>. QED
        BY <1>7, <4>1, <4>2 DEF MarkingRight
    <3>. QED
      BY <3>1, <3>2
  <2>2. ASSUME NEW u \in Threads, th'[u].pc = "mark"
        PROVE  /\ th'[u].todo \subseteq LiveIn(th[u].n)'
               /\ CanReach(th[u].at, NextMark(th[u]))'
               /\ th'[u].at # th'[u].n => NextMark(th'[u]) \in node'[th'[u].n].liveness
    <3>1. PICK y : y = th'[u]
      OBVIOUS
    <3>2. y.todo \subseteq LiveIn(y.n)' /\ CanReach(y.at, NextMark(y))'
      BY <1>3, <2>1, <2>2, <3>1, CanReachKept
    <3>. QED
      BY <2>1, <2>2, <3>1, <3>2
  <2>. QED
    BY <1>3, <2>2 DEF MarkingRight
<1>13. SelfMarked'
  <2>1. ASSUME NEW s \in seen \ model.raising, NEW q \in LiveIn(s)
        PROVE  q \in node'[s].liveness \/ Marking(s, q)'
    <3>1. CASE q \in node[s].liveness
      BY <1>7, <3>1
    <3>2. CASE Marking(s, q)
      <4>1. PICK u \in Threads : th[u].pc = "mark" /\ th[u].n = s /\ q \in th[u].todo
        BY <3>2 DEF Marking
      <4>2. CASE u = t
        BY <1>1, <1>3, <1>6, <1>9, <1>10, <4>1, <4>2 DEF Marking
      <4>3. CASE u # t
        BY <1>3, <1>6, <4>1, <4>3 DEF Marking
      <4>. QED
        BY <4>2, <4>3
    <3>. QED
      BY <3>1, <3>2 DEF SelfMarked
  <2>. QED
    BY <1>3, <1>7, <2>1, CanReachKept DEF SelfMarked
<1>14. MissedRight'
  BY <1>3, MissedKept
<1>. QED
  BY <1>11, <1>12, <1>13, <1>14

-----------------------------------------------------------------------------
(***************************************************************************)
(* The final search, from what the exploration left unmarked.              *)
(***************************************************************************)

\* With nothing wrong so far everything below the bound has been explored.
LEMMA AtTheEnd ==
    ASSUME SearchInv, th[0].pc \in {"join", "learn", "exited"}, error_count = 0,
           phase = "run" => \A u \in Threads \ {0} : At(u, "exited")
    PROVE  /\ \A s \in seen : /\ Released(s) /\ s \notin model.raising
                              /\ BelowBound(s) => Explored(s)
           /\ \A i \in 1..Len(model.starts) : Settled(model.starts[i])
           /\ ~Stopped
<1>1. ~Stopped
  BY ModelFields DEF SearchInv, Typed, Stopped
<1>2. /\ \A s \in seen : Released(s)
      /\ \A i \in 1..Len(model.starts) : Settled(model.starts[i])
  BY <1>1, AllReleased
<1>. QED
  BY <1>1, <1>2 DEF Released

LEMMA AtLearn ==
    ASSUME SearchInv, NEW t \in Threads, th[t].pc = "learn"
    PROVE  /\ t = 0 /\ error_count = 0 /\ ~Stopped
           /\ \A s \in seen : /\ Released(s) /\ s \notin model.raising
                              /\ BelowBound(s) => Explored(s)
           /\ \A i \in 1..Len(model.starts) : Settled(model.starts[i])
<1>1. t = 0
  BY DEF SearchInv, ThreadsOK, ThreadOK, Shaped
<1>2. error_count = 0 /\ (phase = "run" => \A u \in Threads \ {0} : At(u, "exited"))
  BY <1>1 DEF SearchInv, Ending, Joined
<1>. QED
  BY <1>1, <1>2, AtTheEnd

LEMMA ExpandableIsBelow ==
    ASSUME SearchInv, NEW s \in seen, Expandable(s)
    PROVE  BelowBound(s)
<1>1. BOUND \in Nat /\ node[s].bound \in 0..BOUND
  BY ModelFields DEF SearchInv, Typed, Structs
<1>. QED
  BY <1>1 DEF Expandable, BelowBound

LEMMA ReachedIs ==
    ASSUME SearchInv, MarksInv, NEW s \in seen, NEW p, p \notin node[s].liveness, CanReach(s, p)
    PROVE  /\ Reached(s, p) \subseteq Unmarked(p)
           /\ \A x \in Reached(s, p) :
                 /\ CanReach(x, p)
                 /\ node[x].previous \in Unmarked(p) => node[x].previous \in Reached(s, p)
<1>1. Reached(s, p) \subseteq Unmarked(p)
  BY DEF Reached
<1>2. ASSUME NEW x \in Reached(s, p), node[x].previous \in Unmarked(p)
      PROVE  node[x].previous \in Reached(s, p)
  <2>1. ASSUME NEW C \in SUBSET Unmarked(p), s \in C,
               \A y \in C : node[y].previous \in Unmarked(p) => node[y].previous \in C
        PROVE  node[x].previous \in C
    <3>1. x \in C
      BY <1>2, <2>1 DEF Reached
    <3>. QED
      BY <1>2, <2>1, <3>1
  <2>. QED
    BY <1>2, <2>1 DEF Reached
<1>3. ASSUME NEW x \in Reached(s, p) PROVE CanReach(x, p)
  <2>. DEFINE C == {y \in Unmarked(p) : CanReach(y, p)}
  <2>1. C \in SUBSET Unmarked(p) /\ s \in C
    BY DEF Unmarked
  <2>2. ASSUME NEW y \in C, node[y].previous \in Unmarked(p) PROVE node[y].previous \in C
    <3>1. y \in seen /\ CanReach(y, p) /\ node[y].previous \in seen
      BY <2>2 DEF Unmarked
    <3>2. node[y].previous # NoState
      BY <3>1, ModelFields DEF SearchInv, Typed
    <3>. QED
      BY <2>2, <3>1, <3>2, CanReachPrevious
  <2>. HIDE DEF C
  <2>3. x \in C
    BY <1>3, <2>1, <2>2 DEF Reached
  <2>. QED
    BY <2>3 DEF C
<1>. QED
  BY <1>1, <1>2, <1>3

LEMMA LearnMarks ==
    ASSUME SearchInv, MarksInv, NEW t \in Threads, Learn(t)
    PROVE  MarksInv'
<1>. USE DEF MarksInv
<1>1. /\ th[t].pc = "learn" /\ node \in [seen -> Structs] /\ model \in Models
      /\ UNCHANGED <<model, th, result>> /\ Threads' = Threads /\ seen \subseteq States
  BY ModelKept DEF Learn, At, SearchInv, Typed
<1>2. PICK s \in seen, n \in States :
        /\ node' = [x \in seen |->
                      [node[x] EXCEPT !.liveness =
                         node[x].liveness \cup {p \in Learns(s, n) : x \in Reached(s, p)}]]
        /\ Learnable(s, n)
  BY DEF Learn
<1>3. /\ seen' = seen
      /\ \A x \in seen : /\ node'[x].previous = node[x].previous
                         /\ node'[x].liveness =
                              node[x].liveness \cup {p \in Learns(s, n) : x \in Reached(s, p)}
  BY <1>1, <1>2 DEF seen, Structs
<1>4. ASSUME NEW p \in Learns(s, n) PROVE p \notin node[s].liveness /\ CanReach(s, p)
  <2>1. n \in seen /\ p \in node[n].liveness /\ p \notin node[s].liveness
    BY <1>2, <1>4 DEF Learnable, SetFind, Learns
  <2>2. CanReach(n, p)
    BY <2>1 DEF MarksRight
  <2>3. n \in Successors(s)
    BY <1>2, <2>1, SeenIsGood DEF Learnable, Successors, Outcomes
  <2>4. s \in States \ model.raising
    BY <1>1, AtLearn
  <2>. QED
    BY <1>1, <2>1, <2>2, <2>3, <2>4, CanReachBack
<1>5. \A x \in seen : \A p \in node[x].liveness : p \in node'[x].liveness
  BY <1>3
<1>6. MarksRight'
  <2>1. ASSUME NEW x \in seen, NEW p \in node[x].liveness PROVE PassedOn(x, p)' /\ CanReach(x, p)
    <3>1. PassedOn(x, p) /\ CanReach(x, p)
          /\ (node[x].previous = NoState \/ node[x].previous \in seen)
      BY DEF MarksRight, SearchInv, FoundRight, Origin
    <3>2. node[x].previous \in seen /\ p \in node[node[x].previous].liveness =>
            p \in node'[node[x].previous].liveness
      BY <1>5
    <3>. QED
      BY <1>1, <1>3, <3>1, <3>2 DEF PassedOn
  <2>2. ASSUME NEW p \in Learns(s, n), NEW x \in Reached(s, p)
        PROVE  x \in seen /\ PassedOn(x, p)' /\ CanReach(x, p)
    <3>1. /\ x \in Unmarked(p) /\ CanReach(x, p)
          /\ node[x].previous \in Unmarked(p) => node[x].previous \in Reached(s, p)
      BY <1>4, ReachedIs
    <3>2. x \in seen /\ (node[x].previous = NoState \/ node[x].previous \in seen)
      BY <3>1 DEF Unmarked, SearchInv, FoundRight, Origin
    <3>3. CASE node[x].previous = NoState
      BY <1>3, <3>1, <3>2, <3>3 DEF PassedOn
    <3>4. CASE node[x].previous # NoState
      <4>1. p \in node'[node[x].previous].liveness
        BY <1>3, <3>1, <3>2, <3>4 DEF Unmarked
      <4>. QED
        BY <1>3, <3>1, <3>2, <4>1 DEF PassedOn
    <3>. QED
      BY <3>1, <3>2, <3>3, <3>4
  <2>3. \A x \in seen : \A p \in node'[x].liveness :
           p \in node[x].liveness \/ (p \in Learns(s, n) /\ x \in Reached(s, p))
    BY <1>3
  <2>. QED
    BY <1>1, <1>3, <2>1, <2>2, <2>3, CanReachKept DEF MarksRight
<1>7. MarkingRight'
  <2>1. ASSUME NEW u \in Threads, th[u].pc = "mark", NEW y, y = th[u]
        PROVE  /\ y.todo \subseteq LiveIn(y.n)' /\ CanReach(y.at, NextMark(y))'
               /\ y.at # y.n => NextMark(y) \in node'[y.n].liveness
    <3>1. y.n \in seen
      BY <2>1, MarkingKnown
    <3>2. /\ y.todo \subseteq LiveIn(y.n) /\ CanReach(y.at, NextMark(y))
          /\ y.at # y.n => NextMark(y) \in node'[y.n].liveness
      BY <1>5, <2>1, <3>1 DEF MarkingRight
    <3>. QED
      BY <1>1, <3>2, CanReachKept
  <2>2. ASSUME NEW u \in Threads, th'[u].pc = "mark"
        PROVE  /\ th'[u].todo \subseteq LiveIn(th[u].n)'
               /\ CanReach(th[u].at, NextMark(th[u]))'
               /\ th'[u].at # th'[u].n => NextMark(th'[u]) \in node'[th'[u].n].liveness
    <3>1. PICK y : y = th[u] /\ y = th'[u]
      BY <1>1
    <3>. QED
      BY <1>1, <2>1, <2>2, <3>1
  <2>. QED
    BY <1>1, <2>2 DEF MarkingRight
<1>8. SelfMarked'
  <2>1. ASSUME NEW x, NEW p, Marking(x, p) PROVE Marking(x, p)'
    BY <1>1, <2>1 DEF Marking
  <2>. QED
    BY <1>1, <1>3, <1>5, <2>1, CanReachKept DEF SelfMarked
<1>9. MissedRight'
  BY <1>1, MissedKept
<1>. QED
  BY <1>6, <1>7, <1>8, <1>9

LEMMA MissedAreHopeless ==
    ASSUME SearchInv, MarksInv, NEW t \in Threads, th[t].pc = "learn", BOUND = 0,
           \A s \in seen, n \in States : ~Learnable(s, n), NEW p \in Missed
    PROVE  Hopeless(p)
<1>1. PICK s \in seen : p \notin node[s].liveness
  BY DEF Missed
<1>2. /\ p \in Liveness /\ seen \subseteq States /\ model \in Models
      /\ \A i \in Liveness : model.liveness[i] \subseteq States
  BY ModelFields DEF Missed, SearchInv, Typed
<1>3. \A y \in seen : y \notin model.raising /\ Explored(y)
  BY AtLearn DEF BelowBound
<1>4. Wider(Unmarked(p)) \subseteq Unmarked(p)
  <2>1. ASSUME NEW y \in Unmarked(p), NEW n \in Successors(y) PROVE n \in Unmarked(p)
    <3>1. y \in seen /\ p \notin node[y].liveness
      BY DEF Unmarked
    <3>2. /\ n \in States /\ n \in seen /\ MeetsAssumptions(n)
          /\ \E r \in 1..Rules : model.rule[y][r] = n
      BY <1>2, <1>3, <2>1, <3>1, ModelFields
      DEF Explored, Settled, Successors, Outcomes, IsGood, MeetsAssumptions
    <3>3. Learns(y, n) = {}
      BY <3>1, <3>2 DEF Learnable, Expandable, SetFind
    <3>. QED
      BY <3>1, <3>2, <3>3 DEF Learns, Unmarked
  <2>. QED
    BY <2>1 DEF Wider
<1>5. Reach({s}) \subseteq Unmarked(p)
  <2>1. s \in Unmarked(p) /\ Unmarked(p) \in SUBSET States
    BY <1>1, <1>2 DEF Unmarked
  <2>. QED
    BY <1>4, <2>1 DEF Reach
<1>6. ASSUME NEW n \in seen, n \in model.liveness[p] PROVE p \in node[n].liveness
  <2>1. p \in LiveIn(n) /\ n \notin model.raising
    BY <1>2, <1>3, <1>6 DEF LiveIn
  <2>2. ~Marking(n, p)
    <3>1. ASSUME NEW u \in Threads PROVE th[u].pc # "mark"
      <4>1. Shaped(u, th[u]) /\ t = 0
        BY AtLearn DEF SearchInv, ThreadsOK, ThreadOK
      <4>2. phase \in {"warmup", "run"} /\ (phase = "run" => \A v \in Threads \ {0} : At(v, "exited"))
        BY <4>1 DEF SearchInv, Typed, Ending, Joined
      <4>. QED
        BY <4>1, <4>2 DEF Shaped, At
    <3>. QED
      BY <3>1 DEF Marking
  <2>. QED
    BY <2>1, <2>2 DEF MarksInv, SelfMarked
<1>7. ~CanReach(s, p)
  BY <1>5, <1>6 DEF CanReach, Unmarked
<1>. QED
  BY <1>7 DEF Hopeless, SearchInv, FoundRight

LEMMA SummariseIs ==
    ASSUME SearchInv, NEW t \in Threads, Summarise(t)
    PROVE  /\ t = 0 /\ th[0].pc = "learn" /\ th'[0].pc = "exited" /\ error_count = 0
           /\ error_count' = Cardinality(Missed) /\ UNCHANGED <<model, node, covered>>
           /\ Cardinality(Missed) \in Nat /\ (Cardinality(Missed) = 0 <=> Missed = {})
           /\ result' = [done |-> TRUE, status |-> IF Missed # {} THEN 1 ELSE 0,
                         missed |-> Missed]
           /\ \A u \in Threads \ {0} : th'[u] = th[u]
           /\ \A s \in seen, n \in States : ~Learnable(s, n)
<1>1. /\ th[t].pc = "learn" /\ t = 0 /\ error_count = 0 /\ model \in Models
      /\ th \in [Threads -> Locals]
  BY AtLearn DEF Summarise, At, SearchInv, Typed
<1>2. PICK v : v = IF Missed # {} THEN 1 ELSE th[t].status
  OBVIOUS
<1>3. v = IF Missed # {} THEN 1 ELSE 0
  <2>1. th[t].status = 0
    BY <1>1 DEF SearchInv, ThreadsOK, ThreadOK, Exits, Locals
  <2>. QED
    BY <1>2, <2>1
<1>4. PICK x : x = [th[t] EXCEPT !.status = v, !.pc = "exited"]
  OBVIOUS
<1>5. th' = [th EXCEPT ![t] = x]
  BY <1>2, <1>4 DEF Summarise
<1>6. x.pc = "exited" /\ x.status = v
  BY <1>1, <1>4 DEF Locals
<1>7. th'[t] = x /\ \A u \in Threads \ {t} : th'[u] = th[u]
  BY <1>1, <1>5
<1>8. result' = [done |-> TRUE, status |-> v, missed |-> Missed]
  BY <1>6, <1>7 DEF Summarise
<1>9. Cardinality(Missed) \in Nat /\ (Cardinality(Missed) = 0 <=> Missed = {})
  BY <1>1, CoversFinite DEF Missed
<1>10. error_count' = Cardinality(Missed)
  BY <1>1, <1>9 DEF Summarise
<1>. QED
  BY <1>1, <1>3, <1>6, <1>7, <1>8, <1>9, <1>10 DEF Summarise

LEMMA SummariseMarks ==
    ASSUME SearchInv, MarksInv, NEW t \in Threads, Summarise(t)
    PROVE  MarksInv'
<1>1. MissedRight'
  <2>1. Missed \subseteq Liveness /\ (BOUND = 0 => \A p \in Missed : Hopeless(p))
    BY SummariseIs, MissedAreHopeless DEF Missed
  <2>2. model' = model /\ result'.done /\ result'.missed = Missed
    BY SummariseIs
  <2>. QED
    BY <2>1, <2>2, CanReachKept, ModelKept DEF MissedRight
<1>2. \A u \in Threads : th'[u] = th[u] \/ (th[u].pc # "mark" /\ th'[u].pc # "mark")
  BY SummariseIs
<1>. QED
  BY <1>1, <1>2, SummariseIs, QuietKeepsMarks

LEMMA SummariseVerdict ==
    ASSUME SearchInv, MarksInv, VerdictInv, NEW t \in Threads, Summarise(t)
    PROVE  VerdictInv'
<1>. USE DEF VerdictInv
<1>1. /\ t = 0 /\ th[0].pc = "learn" /\ th'[0].pc = "exited" /\ error_count = 0
      /\ error_count' = Cardinality(Missed) /\ UNCHANGED <<model, node, covered>>
      /\ Cardinality(Missed) \in Nat /\ (Cardinality(Missed) = 0 <=> Missed = {})
  BY SummariseIs
<1>2. seen' = seen /\ Covers' = Covers /\ BOUND' = BOUND /\ Liveness' = Liveness
      /\ MAX_ERRORS' = MAX_ERRORS
  BY <1>1, ModelKept DEF seen
<1>3. CoversCounted'
  BY <1>1, <1>2 DEF CoversCounted
<1>4. ErrorsReal'
  <2>1. reports' = {}
    BY <1>1 DEF Summarise, SearchInv, Ending
  <2>2. result'.missed = Missed
    BY SummariseIs
  <2>. QED
    BY <1>1, <2>1, <2>2 DEF ErrorsReal, Joined
<1>5. AllChecked'
  <2>1. covered' = Covers'
    BY <1>1, <1>2 DEF AllChecked, Joined
  <2>2. ASSUME error_count' = 0, NEW s \in seen PROVE node'[s].liveness = Liveness
    <3>1. node[s].liveness \subseteq Liveness
      BY DEF SearchInv, Typed, Structs
    <3>. QED
      BY <1>1, <2>2, <3>1 DEF Missed
  <2>. QED
    BY <1>2, <2>1, <2>2 DEF AllChecked
<1>6. StatusKept'
  <2>1. result'.status = IF Missed # {} THEN 1 ELSE 0
    BY SummariseIs
  <2>. QED
    BY <1>1, <2>1 DEF StatusKept, Joined
<1>. QED
  BY <1>3, <1>4, <1>5, <1>6

-----------------------------------------------------------------------------
(***************************************************************************)
(* exit_with: the covers.                                                  *)
(***************************************************************************)

LEMMA JoinIs ==
    ASSUME SearchInv, NEW t \in Threads, Join(t)
    PROVE  /\ t = 0 /\ th[0].pc = "join" /\ ~Joined
           /\ phase = "run" => \A u \in Threads \ {0} : At(u, "exited")
           /\ UNCHANGED <<model, node, covered>>
           /\ error_count \in Nat /\ Cardinality(NotHit) \in Nat
           /\ Cardinality(NotHit) = 0 <=> NotHit = {}
           /\ error_count' = IF error_count = 0 THEN Cardinality(NotHit) ELSE error_count
           /\ th'[0].pc = IF error_count' = 0 /\ Liveness # {} THEN "learn" ELSE "exited"
           /\ th'[0].status = IF Failed \/ error_count' # error_count THEN 1 ELSE 0
           /\ result' = IF th'[0].pc = "exited"
                          THEN [done |-> TRUE, status |-> th'[0].status, missed |-> {}]
                          ELSE result
           /\ \A u \in Threads \ {0} : th'[u] = th[u]
<1>1. /\ th[t].pc = "join" /\ th[t] \in Locals /\ model \in Models /\ t = 0
      /\ UNCHANGED <<model, node, covered>> /\ error_count \in Nat
      /\ error_count' = IF error_count = 0 THEN Cardinality(NotHit) ELSE error_count
      /\ phase = "run" => \A u \in Threads \ {t} : At(u, "exited")
      /\ th \in [Threads -> Locals]
  BY DEF Join, At, SearchInv, Typed, ThreadsOK, ThreadOK, Shaped
<1>2. PICK l, g, v : /\ l = th[t]
                     /\ g = IF error_count' = 0 /\ Liveness # {} THEN "learn" ELSE "exited"
                     /\ v = IF Failed \/ error_count' # error_count THEN 1 ELSE 0
  OBVIOUS
<1>3. PICK x : x = [l EXCEPT !.status = v, !.pc = g]
  OBVIOUS
<1>4. th' = [th EXCEPT ![t] = x]
  BY <1>2, <1>3 DEF Join
<1>5. th'[t] = x /\ \A u \in Threads \ {t} : th'[u] = th[u]
  BY <1>1, <1>4
<1>6. x.pc = g /\ x.status = v
  BY <1>1, <1>2, <1>3 DEF Locals
<1>7. result' = IF th'[t].pc = "exited"
                  THEN [done |-> TRUE, status |-> th'[t].status, missed |-> {}] ELSE result
  BY DEF Join
<1>8. Cardinality(NotHit) \in Nat /\ (Cardinality(NotHit) = 0 <=> NotHit = {})
  BY <1>1, CoversFinite DEF NotHit
<1>9. ~Joined
  BY <1>1 DEF Joined
<1>. QED
  BY <1>1, <1>2, <1>5, <1>6, <1>7, <1>8, <1>9

LEMMA JoinMarks ==
    ASSUME SearchInv, MarksInv, NEW t \in Threads, Join(t)
    PROVE  MarksInv'
<1>1. MissedRight'
  <2>1. ~result.done /\ result = NoResult
    BY JoinIs DEF MarksInv, MissedRight, SearchInv, Ending, Joined
  <2>2. result' = NoResult \/ (result'.done /\ result'.missed = {})
    BY <2>1, JoinIs
  <2>. QED
    BY <2>2 DEF MissedRight, NoResult
<1>2. \A u \in Threads : th'[u] = th[u] \/ (th[u].pc # "mark" /\ th'[u].pc # "mark")
  BY JoinIs
<1>. QED
  BY <1>1, <1>2, JoinIs, QuietKeepsMarks

LEMMA JoinVerdict ==
    ASSUME SearchInv, VerdictInv, NEW t \in Threads, Join(t)
    PROVE  VerdictInv'
<1>. USE DEF VerdictInv
<1>1. /\ th[0].pc = "join" /\ UNCHANGED <<model, node, covered>> /\ ~Joined
      /\ error_count \in Nat /\ Cardinality(NotHit) \in Nat
      /\ Cardinality(NotHit) = 0 <=> NotHit = {}
      /\ error_count' = IF error_count = 0 THEN Cardinality(NotHit) ELSE error_count
  BY JoinIs
<1>2. seen' = seen /\ Covers' = Covers /\ BOUND' = BOUND /\ Liveness' = Liveness
      /\ MAX_ERRORS' = MAX_ERRORS
  BY <1>1, ModelKept DEF seen
<1>3. CoversCounted'
  BY <1>1, <1>2 DEF CoversCounted
<1>4. ErrorsReal'
  <2>1. CASE error_count = 0
    <3>1. reports' = {} /\ Joined'
      BY <2>1, JoinIs DEF Join, Joined, SearchInv, Ending
    <3>2. error_count' > 0 => covered' # Covers'
      BY <1>1, <1>2, <2>1 DEF NotHit
    <3>. QED
      BY <3>1, <3>2 DEF ErrorsReal
  <2>2. CASE error_count # 0
    <3>1. Flawed
      BY <1>1, <2>2 DEF ErrorsReal
    <3>. QED
      BY <1>1, <1>2, <3>1, FlawedKept DEF ErrorsReal
  <2>. QED
    BY <2>1, <2>2
<1>5. AllChecked'
  <2>1. ASSUME error_count' = 0 PROVE covered = Covers
    BY <1>1, <2>1 DEF NotHit, SearchInv, Typed
  <2>2. ASSUME error_count' = 0, result'.done, NEW s \in seen
        PROVE  node[s].liveness = Liveness
    <3>1. ~result.done
      BY <1>1 DEF SearchInv, Ending, Joined
    <3>2. Liveness = {}
      BY <2>2, <3>1, JoinIs
    <3>. QED
      BY <3>2 DEF SearchInv, Typed, Structs
  <2>. QED
    BY <1>1, <1>2, <2>1, <2>2 DEF AllChecked, Finished
<1>6. StatusKept'
  <2>1. th'[0].pc \in {"learn", "exited"}
    BY JoinIs
  <2>2. ASSUME MAX_ERRORS = 1, result'.done PROVE result'.status = 0 <=> error_count' = 0
    <3>1. ~result.done
      BY <1>1 DEF SearchInv, Ending, Joined
    <3>2. result'.status = IF Failed \/ error_count' # error_count THEN 1 ELSE 0
      BY <2>2, <3>1, JoinIs
    <3>3. Failed => error_count > 0
      BY DEF Failed, SearchInv, ThreadsOK, ThreadOK, Exits
    <3>4. error_count > 0 => Failed
      BY <1>1, <2>2 DEF StatusKept
    <3>. QED
      BY <1>1, <3>2, <3>3, <3>4
  <2>. QED
    BY <1>2, <2>1, <2>2 DEF StatusKept, Finished, Joined
<1>. QED
  BY <1>3, <1>4, <1>5, <1>6

-----------------------------------------------------------------------------
(***************************************************************************)
(* The verdict while states are inserted and marked.                       *)
(***************************************************************************)

LEMMA InsertNewVerdict ==
    ASSUME SearchInv, VerdictInv, NEW t \in Threads, InsertNew(t)
    PROVE  VerdictInv'
<1>. USE DEF VerdictInv
<1>1. PICK l, n : l = th[t] /\ n = Outcome(t)
  OBVIOUS
<1>2. /\ InInit(t) \/ InRules(t)
      /\ covered' = covered \cup CoversHit(n)
      /\ UNCHANGED <<model, error_count, result>>
  BY <1>1, InsertNewIs
<1>3. PICK x : Inserted(l, n, x) /\ th' = [th EXCEPT ![t] = x]
  BY <1>1, InsertNewIs
<1>4. seen' = seen \cup {n}
  BY <1>1, InsertNewIs DEF seen
<1>5. /\ th \in [Threads -> Locals] /\ th[t].pc \in {"init", "rule"} /\ Threads' = Threads
      /\ Covers' = Covers /\ BOUND' = BOUND /\ MAX_ERRORS' = MAX_ERRORS /\ 0 \in Threads
  BY <1>2, OutcomeIs, ModelKept, ModelFields DEF SearchInv, Typed
<1>6. ~Joined /\ ~Joined' /\ ~Finished /\ ~Finished'
  <2>1. ~Joined
    BY <1>5, NotJoined
  <2>2. ~Joined'
    BY <1>3, <1>5, <2>1 DEF Joined, Inserted, New
  <2>. QED
    BY <1>2, <2>1, <2>2 DEF SearchInv, Ending, Joined, Finished
<1>7. CoversCounted'
  BY <1>2, <1>4, <1>5 DEF CoversCounted, CoversHit
<1>8. ErrorsReal'
  <2>1. \A s \in seen : node'[s].bound = node[s].bound
    BY <1>1, <1>4, InsertNewIs
  <2>. QED
    BY <1>2, <1>4, <1>6, <2>1, FlawedKept DEF ErrorsReal
<1>9. StatusKept'
  <2>1. Failed => Failed'
    BY <1>1, <1>3, <1>5 DEF Failed, Inserted
  <2>. QED
    BY <1>2, <1>5, <1>6, <2>1 DEF StatusKept
<1>. QED
  BY <1>6, <1>7, <1>8, <1>9 DEF AllChecked

\* A step that only marks states.
LEMMA MarkingVerdict ==
    ASSUME SearchInv, VerdictInv, NEW t \in Threads, MarkLiveness(t) \/ Learn(t)
    PROVE  VerdictInv'
<1>. USE DEF VerdictInv
<1>1. /\ th[t].pc \in {"mark", "learn"} /\ th \in [Threads -> Locals] /\ 0 \in Threads
      /\ UNCHANGED <<model, error_count, covered, result>>
  BY ModelFields DEF MarkLiveness, Learn, At, SearchInv, Typed
<1>2. seen' = seen
  <2>1. CASE MarkLiveness(t)
    <3>1. \E L : node' = [node EXCEPT ![th[t].at].liveness = L]
      BY <2>1 DEF MarkLiveness
    <3>. QED
      BY <3>1 DEF seen, SearchInv, Typed
  <2>2. CASE Learn(t)
    BY <2>2 DEF Learn, seen
  <2>. QED
    BY <2>1, <2>2
<1>3. /\ Threads' = Threads /\ Covers' = Covers /\ BOUND' = BOUND
      /\ MAX_ERRORS' = MAX_ERRORS
  BY <1>1, ModelKept
<1>4. \A u \in Threads : th'[u].status = th[u].status
                         /\ (th'[u].pc \in {"learn", "exited"} <=> th[u].pc \in {"learn", "exited"})
  <2>1. CASE MarkLiveness(t)
    <3>1. PICK l, p : l = th[t] /\ p = NextMark(th[t])
      OBVIOUS
    <3>2. PICK g : g = IF l.todo = {p} THEN "enqueue" ELSE "mark"
      BY SMTT(30)
    <3>3. PICK x : /\ th' = [th EXCEPT ![t] = x]
                   /\ \/ x = [l EXCEPT !.at = node[l.at].previous]
                      \/ x = [l EXCEPT !.todo = l.todo \ {p}, !.at = l.n, !.pc = g]
      BY <2>1, <3>1, <3>2 DEF MarkLiveness
    <3>4. l.pc = "mark" /\ l \in Locals
      BY <1>1, <2>1, <3>1 DEF MarkLiveness, At
    <3>5. x.status = l.status /\ x.pc \in {"mark", "enqueue"}
      BY <3>2, <3>3, <3>4 DEF Locals
    <3>. QED
      BY <1>1, <3>1, <3>3, <3>4, <3>5
  <2>2. CASE Learn(t)
    BY <2>2 DEF Learn
  <2>. QED
    BY <2>1, <2>2
<1>5. CoversCounted'
  BY <1>1, <1>2, <1>3 DEF CoversCounted
<1>6. ErrorsReal'
  <2>1. CASE MarkLiveness(t)
    <3>1. node \in [seen -> Structs] /\ ~Joined
      BY <1>1, <2>1, NotJoined DEF MarkLiveness, At, SearchInv, Typed
    <3>2. PICK L : node' = [node EXCEPT ![th[t].at].liveness = L]
      BY <2>1 DEF MarkLiveness
    <3>3. \A s \in seen : node'[s].bound = node[s].bound
      BY <3>1, <3>2 DEF Structs
    <3>. QED
      BY <1>1, <1>2, <3>1, <3>3, FlawedKept DEF ErrorsReal
  <2>2. CASE Learn(t)
    BY <1>1, <2>2, AtLearn DEF Learn, At, ErrorsReal
  <2>. QED
    BY <2>1, <2>2
<1>7. (Failed' <=> Failed) /\ (Joined' <=> Joined)
  BY <1>1, <1>3, <1>4 DEF Failed, Joined
<1>8. ~Finished
  <2>1. CASE th[t].pc = "mark"
    BY <2>1, NotJoined DEF SearchInv, Ending, Joined, Finished
  <2>2. CASE th[t].pc = "learn"
    BY <2>2, AtLearn DEF SearchInv, Ending, Finished
  <2>. QED
    BY <1>1, <2>1, <2>2
<1>9. AllChecked'
  BY <1>1, <1>3, <1>7, <1>8 DEF AllChecked, Finished
<1>10. StatusKept'
  BY <1>1, <1>3, <1>7, <1>8 DEF StatusKept, Finished
<1>. QED
  BY <1>5, <1>6, <1>9, <1>10

-----------------------------------------------------------------------------
(***************************************************************************)
(* The invariants, and what they say of the end.                           *)
(***************************************************************************)

ConclusionInv == SearchInv /\ MarksInv /\ VerdictInv

LEMMA ConclusionInvInit == Init => ConclusionInv
<1>. SUFFICES ASSUME Init PROVE ConclusionInv
  OBVIOUS
<1>1. SearchInv
  BY SearchInvInit
<1>2. /\ seen = {} /\ covered = {} /\ error_count = 0 /\ result = NoResult /\ 0 \in Threads
  BY <1>1, ModelFields DEF Init, seen, SearchInv, Typed
<1>3. \A t \in Threads : th[t].pc \in {"init", "unborn"}
  BY DEF Init, StartLocals
<1>4. MarksInv
  BY <1>2, <1>3 DEF MarksInv, MarksRight, MarkingRight, SelfMarked, MissedRight, NoResult
<1>5. ~Joined /\ ~Finished
  BY <1>2, <1>3 DEF Joined, Finished, NoResult
<1>6. VerdictInv
  BY <1>2, <1>5 DEF VerdictInv, CoversCounted, ErrorsReal, AllChecked, StatusKept
<1>. QED
  BY <1>1, <1>4, <1>6 DEF ConclusionInv

LEMMA StutteringKeeps ==
    ASSUME SearchInv, MarksInv, VerdictInv, UNCHANGED vars
    PROVE  MarksInv' /\ VerdictInv'
<1>. USE DEF MarksInv, VerdictInv
<1>1. /\ UNCHANGED <<model, node, error_count, covered, th, result>>
      /\ seen' = seen /\ Threads' = Threads /\ Covers' = Covers /\ BOUND' = BOUND
      /\ Liveness' = Liveness /\ MAX_ERRORS' = MAX_ERRORS
  BY ModelKept DEF vars, seen
<1>2. MarksInv'
  BY <1>1, MissedKept, QuietKeepsMarks
<1>3. CoversCounted'
  BY <1>1 DEF CoversCounted
<1>4. (Joined' <=> Joined) /\ (Failed' <=> Failed) /\ (Finished' <=> Finished)
  BY <1>1 DEF Joined, Failed, Finished
<1>5. ErrorsReal'
  BY <1>1, <1>4, FlawedKept DEF vars, ErrorsReal
<1>. QED
  BY <1>1, <1>2, <1>3, <1>4, <1>5 DEF AllChecked, StatusKept

LEMMA ConclusionInvNext == ConclusionInv /\ [Next]_vars => ConclusionInv'
<1>. SUFFICES ASSUME SearchInv, MarksInv, VerdictInv, [Next]_vars
              PROVE  SearchInv' /\ MarksInv' /\ VerdictInv'
  BY DEF ConclusionInv
<1>1. SearchInv'
  BY SearchInvNext
<1>2. CASE UNCHANGED vars
  BY <1>1, <1>2, StutteringKeeps
<1>3. ASSUME NEW t \in Threads, Step(t) PROVE MarksInv' /\ VerdictInv'
  <2>1. CASE InsertNew(t)
    BY <2>1, InsertNewMarks, InsertNewVerdict
  <2>2. CASE MarkLiveness(t)
    BY <2>2, MarkLivenessMarks, MarkingVerdict
  <2>3. CASE Join(t)
    BY <2>3, JoinMarks, JoinVerdict
  <2>4. CASE Learn(t)
    BY <2>4, LearnMarks, MarkingVerdict
  <2>5. CASE Summarise(t)
    BY <2>5, SummariseMarks, SummariseVerdict
  <2>6. CASE ~(InsertNew(t) \/ MarkLiveness(t) \/ Join(t) \/ Learn(t) \/ Summarise(t))
    BY <1>3, <2>6, StepsQuiet, QuietKeeps
  <2>. QED
    BY <2>1, <2>2, <2>3, <2>4, <2>5, <2>6
<1>. QED
  BY <1>1, <1>2, <1>3 DEF Next, Done

LEMMA ConclusionInvariant == Spec => []ConclusionInv
<1>1. Init => ConclusionInv
  BY ConclusionInvInit
<1>2. ConclusionInv /\ [Next]_vars => ConclusionInv'
  BY ConclusionInvNext
<1>. QED
  BY <1>1, <1>2, PTL DEF Spec

\* Without a bound the properties of the model are those of what can be reached.
LEMMA RightIsCorrect == BOUND = 0 => (Correct <=> Right)
BY DEF Correct, Right, Expanded, ReachableStates, Outcomes, Hopeless

LEMMA NoErrorsIsRight ==
    ASSUME ConclusionInv, Finished, BOUND = 0, error_count = 0
    PROVE  Right
<1>. USE DEF ConclusionInv
<1>1. th[0].pc = "exited" /\ (phase = "run" => \A u \in Threads \ {0} : At(u, "exited"))
  BY DEF SearchInv, Ending, Finished, Joined
<1>2. /\ \A s \in seen : s \notin model.raising /\ Explored(s)
      /\ \A i \in 1..Len(model.starts) : Settled(model.starts[i])
      /\ seen = Reach(StartStates)
  <2>1. /\ \A s \in seen : /\ Released(s) /\ s \notin model.raising
                           /\ BelowBound(s) => Explored(s)
        /\ \A i \in 1..Len(model.starts) : Settled(model.starts[i])
        /\ ~Stopped
    BY <1>1, AtTheEnd
  <2>2. seen = Reach(StartStates)
    BY <2>1, FoundAll
  <2>. QED
    BY <2>1, <2>2 DEF BelowBound
<1>3. \A i \in 1..Len(model.starts) : ~Violation(model.starts[i])
  BY <1>2 DEF Settled
<1>4. \A s \in seen : ~IsDeadlock(s) /\ \A r \in 1..Rules : ~Violation(model.rule[s][r])
  BY <1>2 DEF Explored, Settled
<1>5. \A i \in Covers : seen \cap model.covers[i] # {}
  BY <1>1 DEF VerdictInv, AllChecked, CoversCounted, Joined
<1>6. \A p \in Liveness : ~Hopeless(p)
  BY <1>2 DEF VerdictInv, AllChecked, MarksInv, MarksRight, Hopeless
<1>. QED
  BY <1>2, <1>3, <1>4, <1>5, <1>6 DEF Right

\* What is found without a bound is really wrong.
LEMMA ErrorsAreWrong ==
    ASSUME ConclusionInv, Finished, BOUND = 0, error_count > 0
    PROVE  ~Right
<1>. USE DEF ConclusionInv, VerdictInv
<1>1. CASE Flawed
  BY <1>1 DEF Flawed, Right, SearchInv, FoundRight
<1>2. CASE reports = {} /\ covered # Covers
  <2>1. seen = Reach(StartStates)
    BY <1>2, SearchIsComplete DEF Complete, NotCutShort, ReachableStates
  <2>2. PICK i \in Covers : seen \cap model.covers[i] = {}
    BY <1>2 DEF CoversCounted
  <2>. QED
    BY <2>1, <2>2 DEF Right
<1>3. CASE result.missed # {}
  <2>1. PICK p : p \in result.missed
    BY <1>3
  <2>2. p \in Liveness /\ Hopeless(p)
    BY <2>1 DEF MarksInv, MissedRight, Finished
  <2>. QED
    BY <2>2 DEF Right
<1>. QED
  BY <1>1, <1>2, <1>3 DEF ErrorsReal

LEMMA VerdictIsRight == ConclusionInv /\ BOUND = 0 => VerdictRight
<1>. SUFFICES ASSUME ConclusionInv, BOUND = 0, Finished
              PROVE  /\ error_count = 0 <=> Correct
                     /\ MAX_ERRORS = 1 => (result.status = 0 <=> Correct)
  BY DEF VerdictRight
<1>1. error_count \in Nat
  BY DEF ConclusionInv, SearchInv, Typed
<1>2. error_count = 0 <=> Right
  BY <1>1, NoErrorsIsRight, ErrorsAreWrong
<1>3. error_count = 0 <=> Correct
  BY <1>2, RightIsCorrect
<1>. QED
  BY <1>3 DEF ConclusionInv, VerdictInv, StatusKept

LEMMA LivenessIsSound == ConclusionInv => LivenessSound
<1>. SUFFICES ASSUME SearchInv, MarksInv PROVE LivenessSound
  BY DEF ConclusionInv
<1>1. MarksPassedOn
  <2>1. ASSUME NEW s \in seen, NEW p \in node[s].liveness
        PROVE  \/ node[s].previous = NoState
               \/ p \in node[node[s].previous].liveness
               \/ \E t \in Threads : /\ At(t, "mark") /\ p \in th[t].todo
                                     /\ th[t].at = node[s].previous
    BY MarkingKnown DEF MarksInv, MarksRight, PassedOn, At
  <2>. QED
    BY <2>1 DEF MarksPassedOn
<1>2. LivenessExact
  <2>1. \A s \in seen : \A p \in node[s].liveness : CanReach(s, p)
    BY DEF MarksInv, MarksRight
  <2>2. Finished /\ BOUND = 0 =>
          result.missed \subseteq
              {p \in Liveness : \E s \in ReachableStates : ~CanReach(s, p)}
    BY DEF MarksInv, MissedRight, Finished, Hopeless, ReachableStates
  <2>. QED
    BY <2>1, <2>2 DEF LivenessExact
<1>3. FinalSearchFinds
  <2>1. ASSUME NEW t \in Threads, At(t, "learn"), NEW s \in seen, Expandable(s),
               NEW n \in Outcomes(s) \cap model.assumptions
        PROVE  n \in seen
    <3>1. error_count = 0 /\ Explored(s)
      BY <2>1, AtLearn, ExpandableIsBelow DEF At
    <3>2. Settled(n)
      BY <3>1 DEF Explored, Outcomes
    <3>3. ~Violation(n)
      BY <3>1, <3>2 DEF Settled
    <3>. QED
      BY <3>2, <3>3 DEF Settled, Violation, IsGood
  <2>. QED
    BY <2>1 DEF FinalSearchFinds
<1>. QED
  BY <1>1, <1>2, <1>3 DEF LivenessSound

\* The marks of mark_liveness and of check_liveness_final are those of the graph,
\* whatever the order in which the threads pass them on; the final search looks up
\* nothing that is not in the set, and reports only properties that some state
\* cannot come to (mark_liveness, check_liveness_final, check_liveness_summarise).
THEOREM ExploreLivenessSound == Spec => []LivenessSound
BY ConclusionInvariant, LivenessIsSound, PTL

\* Without a bound the verifier finds an error exactly when the model has one, and
\* with one error allowed exits with 0 exactly when it has none, whatever the
\* threads (error, explore, exit_with, check_liveness_summarise).
THEOREM ExploreVerdictRight == Spec => [](BOUND = 0 => VerdictRight)
<1>1. ConclusionInv => (BOUND = 0 => VerdictRight)
  BY VerdictIsRight
<1>. QED
  BY <1>1, ConclusionInvariant, PTL

-----------------------------------------------------------------------------
(***************************************************************************)
(* How many errors are printed.                                            *)
(***************************************************************************)

ReportsCounted ==
    /\ IsFiniteSet(reports) /\ Cardinality(reports) \in Nat
    /\ Cardinality(reports) <= error_count /\ Cardinality(reports) <= MAX_ERRORS

\* An error takes a number of its own, and is printed if that is small enough.
Reporting ==
    \/ reports' = reports /\ error_count <= error_count'
    \/ /\ error_count < MAX_ERRORS /\ error_count' = error_count + 1
       /\ \E x : reports' = reports \cup {x}

LEMMA StepReports ==
    ASSUME SearchInv, NEW t \in Threads, Step(t)
    PROVE  Reporting /\ model' = model
<1>. DEFINE Same == reports' = reports /\ error_count' = error_count /\ model' = model
<1>1. error_count \in Nat
  BY DEF SearchInv, Typed
<1>2. ASSUME NEW kind, NEW trace, NEW l, Error(t, kind, trace, l)
      PROVE  Reporting /\ model' = model
  <2>1. error_count' = error_count + 1 /\ model' = model
    BY <1>2 DEF Error
  <2>2. CASE error_count < MAX_ERRORS
    <3>1. reports' = reports \cup {[kind |-> kind, trace |-> trace]}
      BY <1>2, <2>2 DEF Error, Prints
    <3>. QED
      BY <2>1, <2>2, <3>1 DEF Reporting
  <2>3. CASE ~(error_count < MAX_ERRORS)
    <3>1. reports' = reports
      BY <1>2, <2>3 DEF Error, Prints
    <3>. QED
      BY <1>1, <2>1, <3>1 DEF Reporting
  <2>. QED
    BY <2>2, <2>3
<1>3. CASE FailRule(t) \/ FailProperty(t)
  BY <1>2, <1>3 DEF FailRule, FailProperty
<1>4. CASE EndRules(t)
  <2>1. Same \/ \E trace, l : Error(t, "deadlock", trace, l)
    BY <1>4 DEF EndRules
  <2>. QED
    BY <1>1, <1>2, <2>1 DEF Reporting
<1>5. CASE DiscardState(t) \/ InsertDuplicate(t) \/ InsertNew(t) \/ MarkLiveness(t)
           \/ Enqueue(t) \/ EndInit(t) \/ LoopTop(t) \/ Dequeue(t) \/ DequeueNothing(t)
           \/ Exit(t) \/ Learn(t)
  <2>1. Same
    BY <1>5 DEF DiscardState, InsertDuplicate, InsertNew, MarkLiveness, Enqueue, EndInit,
                LoopTop, Dequeue, DequeueNothing, Exit, Learn
  <2>. QED
    BY <1>1, <2>1 DEF Reporting
<1>6. CASE Join(t)
  <2>1. /\ UNCHANGED <<model, reports>>
        /\ error_count' = IF error_count = 0 THEN Cardinality(NotHit) ELSE error_count
    BY <1>6 DEF Join
  <2>2. Cardinality(NotHit) \in Nat
    BY <1>6, JoinIs
  <2>. QED
    BY <1>1, <2>1, <2>2 DEF Reporting
<1>7. CASE Summarise(t)
  <2>1. UNCHANGED <<model, reports>> /\ error_count' = error_count + Cardinality(Missed)
    BY <1>7 DEF Summarise
  <2>2. Cardinality(Missed) \in Nat
    BY <1>7, SummariseIs
  <2>. QED
    BY <1>1, <2>1, <2>2 DEF Reporting
<1>. QED
  BY <1>3, <1>4, <1>5, <1>6, <1>7 DEF Step

LEMMA ReportsCountedNext ==
    SearchInv /\ ReportsCounted /\ [Next]_vars => ReportsCounted'
<1>. SUFFICES ASSUME SearchInv, ReportsCounted, [Next]_vars PROVE ReportsCounted'
  OBVIOUS
<1>1. Reporting /\ model' = model
  <2>1. CASE UNCHANGED vars
    BY <2>1 DEF vars, Reporting, SearchInv, Typed
  <2>2. ASSUME NEW t \in Threads, Step(t) PROVE Reporting /\ model' = model
    BY <2>2, StepReports
  <2>. QED
    BY <2>1, <2>2 DEF Next, Done
<1>2. MAX_ERRORS' = MAX_ERRORS /\ MAX_ERRORS \in Nat /\ error_count \in Nat
      /\ error_count' \in Nat
  BY <1>1, ModelKept, ModelFields, SearchInvNext DEF SearchInv, Typed
<1>3. CASE reports' = reports /\ error_count <= error_count'
  BY <1>2, <1>3 DEF ReportsCounted
<1>4. CASE /\ error_count < MAX_ERRORS /\ error_count' = error_count + 1
           /\ \E x : reports' = reports \cup {x}
  <2>1. PICK x : reports' = reports \cup {x}
    BY <1>4
  <2>2. IsFiniteSet(reports \cup {x})
        /\ (Cardinality(reports \cup {x}) = Cardinality(reports)
              \/ Cardinality(reports \cup {x}) = Cardinality(reports) + 1)
    BY FS_AddElement DEF ReportsCounted
  <2>. QED
    BY <1>2, <1>4, <2>1, <2>2 DEF ReportsCounted
<1>. QED
  BY <1>1, <1>3, <1>4 DEF Reporting

\* No more than MAX_ERRORS errors are printed, however many threads are past their
\* last look at error_count, and no thread that may go on is stopped (error).
THEOREM ExploreReportsBounded == Spec => []ReportsBounded
<1>1. Init => ReportsCounted
  <2>1. ASSUME Init PROVE MAX_ERRORS \in Nat /\ reports = {} /\ error_count = 0
    BY <2>1, ModelFields DEF Init
  <2>. QED
    BY <2>1, FS_EmptySet DEF ReportsCounted
<1>2. SearchInv /\ ReportsCounted /\ [Next]_vars => ReportsCounted'
  BY ReportsCountedNext
<1>3. SearchInv /\ ReportsCounted => ReportsBounded
  BY DEF ReportsBounded, ReportsCounted, SearchInv, ThreadsOK, ThreadOK, Exits, Stopped, At
<1>. QED
  BY <1>1, <1>2, <1>3, ExploreSearchInvariant, PTL DEF Spec
=============================================================================
