------------------------------- MODULE Explore -------------------------------
(***************************************************************************)
(* The exploration loop of the generated verifier: init() and explore()    *)
(* (written by rumur/src/generate-model.cc), error(), deadlock(),          *)
(* mark_liveness() and exit_with() (rumur/resources/header.c).             *)
(*                                                                         *)
(* The Murphi model being verified is a finite graph, chosen initially     *)
(* from Models: what each start state and each rule yields, already        *)
(* canonicalised, and which states satisfy which property.  set_insert and *)
(* the queue operations are single steps (modules SeenSet and StateQueue   *)
(* show that they may be), a dequeue that looks at several queues is one   *)
(* step per queue, and every other access to shared memory is a step.      *)
(*                                                                         *)
(*    pc          thread is about to ...                                   *)
(*    "unborn"    be created                                               *)
(*    "init"      run the next start state (initial thread)                *)
(*    "top"       look at error_count      "dequeue"  look into a queue    *)
(*    "rule"      run the next rule        "mark"     mark a state live    *)
(*    "raise"     fail in a cover or liveness property of the new state    *)
(*    "enqueue"   enqueue the new state    "exit"     call exit_with       *)
(*    "join"      (initial thread) pthread_join the others                 *)
(*    "learn"     (initial thread) go on with check_liveness_final         *)
(*    "exited"    nothing                                                  *)
(***************************************************************************)
EXTENDS Naturals, Sequences, FiniteSets

CONSTANTS
    WarmUp,               \* start the other threads at a longer queue (20)
    States, NoState,
    Rules,                \* number of rules, numbered from 1 as rule_taken is
    Models                \* the Murphi models to verify

(***************************************************************************)
(* A model: starts is the sequence of what the start states yield,         *)
(* rule[s][r] is what rule r does in state s, permutes are the <<s, r>>    *)
(* that differ from s only before they are canonicalised, raising are the  *)
(* states in which a cover or liveness property raises an error, and the   *)
(* fields assumptions to liveness are the states that satisfy those, each  *)
(* cover and each liveness property.  The verifier is generated with the   *)
(* options in the other fields: BOUND is 0 for none, DEADLOCK_DETECTION is *)
(* "off", "stuck" or "stuttering".  An outcome is a state or one of:       *)
(***************************************************************************)
Disabled == "guard false"      \* the guard is false
GuardError == "guard error"    \* the guard raised an error
RuleError == "rule error"      \* the guard held and the body raised an error
Assumed == "assume false"      \* ... and an assume statement failed
NotStates == {Disabled, GuardError, RuleError, Assumed}

ASSUME ExploreAssumption ==
    /\ WarmUp \in Nat /\ Rules \in Nat
    /\ NoState \notin States
    /\ States \cap NotStates = {}
    /\ \A m \in Models :
          /\ m.THREADS \in Nat \ {0} /\ m.MAX_ERRORS \in Nat \ {0} /\ m.BOUND \in Nat
          /\ m.DEADLOCK_DETECTION \in {"off", "stuck", "stuttering"}
          /\ m.starts \in Seq(States \cup NotStates)
          /\ m.rule \in [States -> [1..Rules -> States \cup NotStates]]
          /\ m.permutes \subseteq States \X (1..Rules)
          /\ \A S \in {m.assumptions, m.invariants, m.raising} : S \subseteq States
          /\ {m.covers, m.liveness} \subseteq Seq(SUBSET States)

\* A state is a fixed number of bits, if only none.
ASSUME StatesFinite == IsFiniteSet(States) /\ States # {}

VARIABLES
    model,         \* the Murphi model and the options, constant
    node,          \* the structs of the seen states: previous, rule_taken, ...
    queue,         \* queue[k]: states in q[k]
    error_count,
    covered,       \* the covers whose count is not zero
    phase,         \* "warmup", "run"
    th,            \* the threads' local variables
    rules_fired,   \* rules_fired[t], once t has exited
    reports,       \* the errors printed, each with its trace
    result         \* what the verifier exits with, or NoResult

vars == <<model, node, queue, error_count, covered, phase, th, rules_fired,
          reports, result>>

NoResult == [done |-> FALSE, status |-> 0, missed |-> {}]

THREADS == model.THREADS
MAX_ERRORS == model.MAX_ERRORS
BOUND == model.BOUND
DEADLOCK_DETECTION == model.DEADLOCK_DETECTION

Threads == 0..THREADS-1
seen == DOMAIN node
Covers == 1..Len(model.covers)
Liveness == 1..Len(model.liveness)

\* s, rule_taken, queue_id, the queues tried, possible_deadlock and
\* rules_fired_local; n, the liveness properties still to mark for it and the
\* state to mark next; the argument of exit_with.
StartLocals(t, pc) ==
    [pc |-> pc, s |-> NoState, rule_taken |-> 1, queue_id |-> t, attempts |-> 0,
     possible_deadlock |-> TRUE, fired |-> 0, n |-> NoState, todo |-> {},
     at |-> NoState, status |-> 0]

Init ==
    /\ model \in Models
    /\ node = [x \in {} |-> NoState]
    /\ queue = [k \in Threads |-> <<>>]
    /\ error_count = 0
    /\ covered = {}
    /\ phase = "warmup"
    /\ th = [t \in Threads |-> StartLocals(t, IF t = 0 THEN "init" ELSE "unborn")]
    /\ rules_fired = [t \in Threads |-> 0]
    /\ reports = {}
    /\ result = NoResult

At(t, label) == th[t].pc = label

-----------------------------------------------------------------------------
(***************************************************************************)
(* Traces and errors                                                       *)
(***************************************************************************)

\* A state and those it was reached through, back to a start state.
Previous(s) == IF s \in seen THEN node[s].previous ELSE NoState
Ancestor(s) ==
    LET a[i \in 0..Cardinality(seen)] == IF i = 0 THEN s ELSE Previous(a[i-1])
    IN  a
\* The number of states in the trace of s.  The mistake: without the start state.
BugDepth(s) == Cardinality({i \in 1..Cardinality(seen) : Ancestor(s)[i] # NoState})
Depth(s) == Cardinality({i \in 0..Cardinality(seen) : Ancestor(s)[i] # NoState})

\* print_counterexample: the chain of previous states, the other way round.
Trace(s) ==
    LET d == Depth(s)
        a == Ancestor(s)
    IN  [i \in 1..d |-> [rule |-> node[a[d-i]].rule_taken, state |-> a[d-i]]]

\* The thread's local variables when it goes on with the next rule, or the next
\* start state.
BugNextRule(l) == [l EXCEPT !.pc = IF l.s = NoState THEN "init" ELSE "rule",
                            !.rule_taken = @ + 1, !.n = NoState,
                            !.possible_deadlock = TRUE]
NextRule(l) == [l EXCEPT !.pc = IF l.s = NoState THEN "init" ELSE "rule",
                         !.rule_taken = @ + 1, !.n = NoState]

\* error() called by a thread that will have local variables l if it is allowed
\* to go on.
BugPrints(prior) == TRUE
Prints(prior) == prior < MAX_ERRORS
Continues(prior) == prior + 1 < MAX_ERRORS
Error(t, kind, trace, l) ==
    /\ error_count' = error_count + 1
    /\ reports' = IF Prints(error_count)
                    THEN reports \cup {[kind |-> kind, trace |-> trace]}
                    ELSE reports
    /\ th' = [th EXCEPT ![t] = IF Continues(error_count) THEN l
                                 ELSE [l EXCEPT !.pc = "exit", !.status = 1]]
    /\ UNCHANGED <<model, node, queue, covered, phase, rules_fired, result>>

-----------------------------------------------------------------------------
(***************************************************************************)
(* Running a start state or a rule                                         *)
(***************************************************************************)

\* check_assumptions, check_invariants and check_covers of a state.
MeetsAssumptions(n) == n \in model.assumptions
MeetsInvariants(n) == n \in model.invariants
CoversHit(n) == {i \in Covers : n \in model.covers[i]}

InInit(t) == At(t, "init") /\ th[t].rule_taken <= Len(model.starts)
InRules(t) == At(t, "rule") /\ th[t].rule_taken <= Rules

Outcome(t) ==
    IF At(t, "init") THEN model.starts[th[t].rule_taken]
                     ELSE model.rule[th[t].s][th[t].rule_taken]

\* What rules_fired_local and possible_deadlock are after a rule that fired.
BugStutters(s, r) == DEADLOCK_DETECTION = "stuttering" /\ model.rule[s][r] = s
Stutters(s, r) == /\ DEADLOCK_DETECTION = "stuttering"
                  /\ model.rule[s][r] = s /\ <<s, r>> \notin model.permutes
BugAfterRule(t) ==
    IF At(t, "init") \/ ~MeetsInvariants(Outcome(t)) \/ ~MeetsAssumptions(Outcome(t))
    THEN th[t] ELSE [th[t] EXCEPT !.fired = @ + 1, !.possible_deadlock = FALSE]
AfterRule(t) ==
    IF At(t, "init") THEN th[t]
    ELSE [th[t] EXCEPT !.fired = @ + 1,
                       !.possible_deadlock = @ /\ Stutters(th[t].s, th[t].rule_taken)]

\* The trace of the state a rule produced, which is not in the set.
NewTrace(t, n) ==
    Append(IF At(t, "init") THEN <<>> ELSE Trace(th[t].s),
           [rule |-> th[t].rule_taken, state |-> n])

\* The guard is false, an assume statement failed, or check_assumptions did.
DiscardState(t) ==
    /\ InInit(t) \/ InRules(t)
    /\ \/ /\ Outcome(t) \in {Disabled, Assumed}
          /\ th' = [th EXCEPT ![t] = NextRule(@)]
       \/ /\ Outcome(t) \in States /\ ~MeetsAssumptions(Outcome(t))
          /\ th' = [th EXCEPT ![t] = NextRule(AfterRule(t))]
    /\ UNCHANGED <<model, node, queue, error_count, covered, phase, rules_fired,
                   reports, result>>

FailRule(t) ==
    /\ InInit(t) \/ InRules(t)
    /\ \/ /\ Outcome(t) \in {GuardError, RuleError}
          /\ Error(t, Outcome(t), NewTrace(t, NoState), NextRule(th[t]))
       \/ /\ MeetsAssumptions(Outcome(t)) /\ ~MeetsInvariants(Outcome(t))
          /\ Error(t, "invariant", NewTrace(t, Outcome(t)), NextRule(AfterRule(t)))

\* A state to go on with: assumptions and invariants hold.
Good(t) == MeetsAssumptions(Outcome(t)) /\ MeetsInvariants(Outcome(t))

\* set_insert returns false.
InsertDuplicate(t) ==
    /\ InInit(t) \/ InRules(t)
    /\ Good(t)
    /\ Outcome(t) \in seen
    /\ th' = [th EXCEPT ![t] = NextRule(AfterRule(t))]
    /\ UNCHANGED <<model, node, queue, error_count, covered, phase, rules_fired,
                   reports, result>>

\* The bound of a new state, and the properties it satisfies.
NewBound(t) == IF BOUND = 0 \/ At(t, "init") THEN 0 ELSE node[th[t].s].bound + 1
LiveIn(n) == {p \in Liveness : n \in model.liveness[p]}

\* The liveness bits of a new state.  The mistake: those of its predecessor.
BugNewLiveness(t) == IF At(t, "init") THEN {} ELSE node[th[t].s].liveness
NewLiveness(t) == {}

\* set_insert returns true.  check_covers, which follows, only raises counters
\* that are read when all threads have been joined: it is part of this step.
InsertNew(t) ==
    /\ InInit(t) \/ InRules(t)
    /\ Good(t)
    /\ Outcome(t) \notin seen
    /\ LET n == Outcome(t)
           struct == [previous |-> th[t].s, rule_taken |-> th[t].rule_taken,
                      bound |-> NewBound(t), liveness |-> NewLiveness(t)]
       IN  /\ node' = [x \in seen \cup {n} |-> IF x = n THEN struct ELSE node[x]]
           /\ covered' = covered \cup CoversHit(n)
           /\ th' = [th EXCEPT ![t] = [AfterRule(t) EXCEPT
                        !.n = n, !.todo = LiveIn(n), !.at = n,
                        !.pc = CASE n \in model.raising -> "raise"
                                 [] n \notin model.raising /\ LiveIn(n) = {} -> "enqueue"
                                 [] OTHER -> "mark"]]
    /\ UNCHANGED <<model, queue, error_count, phase, rules_fired, reports, result>>

\* A cover or liveness property raises an error: the state stays in the set and
\* is not enqueued.
FailProperty(t) ==
    /\ At(t, "raise")
    /\ Error(t, "property", Trace(th[t].n), NextRule(th[t]))

\* mark_liveness: one state, then its predecessor unless the state was marked
\* already.  The mistake: the walk stops at the first shared state.
BugMarksOn(s, p) == FALSE
MarksOn(s, p) == p \notin node[s].liveness /\ node[s].previous # NoState
NextMark(l) == CHOOSE p \in l.todo : \A x \in l.todo : p <= x
MarkLiveness(t) ==
    /\ At(t, "mark")
    /\ LET l == th[t]
           p == NextMark(l)
       IN  /\ node' = [node EXCEPT ![l.at].liveness = @ \cup {p}]
           /\ th' = [th EXCEPT ![t] =
                IF MarksOn(l.at, p) THEN [l EXCEPT !.at = node[l.at].previous]
                ELSE [l EXCEPT !.todo = @ \ {p}, !.at = l.n,
                               !.pc = IF l.todo = {p} THEN "enqueue" ELSE "mark"]]
    /\ UNCHANGED <<model, queue, error_count, covered, phase, rules_fired,
                   reports, result>>

\* A state at the bound is not expanded.
BugBelowBound(n) == TRUE
BelowBound(n) == BOUND = 0 \/ node[n].bound < BOUND

\* init() deals the start states out to the queues, explore() enqueues to the
\* thread's own; the initial thread starts the others once its queue is long.
StartsOthers(t, size) ==
    THREADS > 1 /\ t = 0 /\ th[t].s # NoState /\ phase = "warmup" /\ size > WarmUp

\* queue_enqueue: at the other end the search would be depth-first.
BugLinked(q, n) == <<n>> \o q
Linked(q, n) == Append(q, n)

BugNextQueue(k) == k + 1
NextQueue(k) == (k + 1) % THREADS

Enqueue(t) ==
    /\ At(t, "enqueue")
    /\ LET l == th[t]
           k == IF l.s = NoState THEN l.queue_id ELSE t
           next == [NextRule(l) EXCEPT
                      !.queue_id = IF l.s = NoState THEN NextQueue(k) ELSE k,
                      !.at = NoState]
           start == StartsOthers(t, Len(queue[k]) + 1)
       IN  \/ /\ l.s = NoState \/ BelowBound(l.n)
              /\ queue' = [queue EXCEPT ![k] = Linked(@, l.n)]
              /\ phase' = IF start THEN "run" ELSE phase
              /\ th' = [u \in Threads |->
                          CASE u = t -> next
                            [] u # t /\ start -> StartLocals(u, "top")
                            [] OTHER -> th[u]]
           \/ /\ l.s # NoState /\ ~BelowBound(l.n)
              /\ th' = [th EXCEPT ![t] = [NextRule(l) EXCEPT !.at = NoState]]
              /\ UNCHANGED <<queue, phase>>
    /\ UNCHANGED <<model, node, error_count, covered, rules_fired, reports, result>>

-----------------------------------------------------------------------------
(***************************************************************************)
(* The loop of explore()                                                   *)
(***************************************************************************)

EndInit(t) ==
    /\ At(t, "init")
    /\ th[t].rule_taken > Len(model.starts)
    /\ th' = [th EXCEPT ![t] = StartLocals(t, "top")]
    /\ UNCHANGED <<model, node, queue, error_count, covered, phase, rules_fired,
                   reports, result>>

LoopTop(t) ==
    /\ At(t, "top")
    /\ th' = [th EXCEPT ![t].attempts = 0,
                        ![t].pc = IF THREADS > 1 /\ error_count >= MAX_ERRORS
                                    THEN "exit" ELSE "dequeue"]
    /\ UNCHANGED <<model, node, queue, error_count, covered, phase, rules_fired,
                   reports, result>>

\* queue_dequeue: what it returns, and what it leaves (the mistake: all).
Dequeued(k) == Head(queue[k])
BugRemaining(k) == queue[k]
Remaining(k) == Tail(queue[k])

Dequeue(t) ==
    /\ At(t, "dequeue")
    /\ LET k == th[t].queue_id
       IN  /\ queue[k] # <<>>
           /\ queue' = [queue EXCEPT ![k] = Remaining(k)]
           /\ th' = [th EXCEPT ![t].s = Dequeued(k), ![t].pc = "rule",
                               ![t].possible_deadlock = TRUE,
                               ![t].rule_taken = 1]
    /\ UNCHANGED <<model, node, error_count, covered, phase, rules_fired, reports,
                   result>>

\* The queue is empty: try the next one, and exit when all have been tried.
BugNextAttempt(t) == 0
NextAttempt(t) == th[t].attempts + 1
BugAllTriedAtOnce(t) == TRUE
AllTried(t) == NextAttempt(t) = THREADS
DequeueNothing(t) ==
    /\ At(t, "dequeue")
    /\ queue[th[t].queue_id] = <<>>
    /\ th' = [th EXCEPT ![t].attempts = NextAttempt(t), ![t].queue_id = NextQueue(@),
                        ![t].pc = IF AllTried(t) THEN "exit" ELSE "dequeue"]
    /\ UNCHANGED <<model, node, queue, error_count, covered, phase, rules_fired,
                   reports, result>>

\* All rules have been tried on s.
EndRules(t) ==
    /\ At(t, "rule")
    /\ th[t].rule_taken > Rules
    /\ IF DEADLOCK_DETECTION # "off" /\ th[t].possible_deadlock
         THEN Error(t, "deadlock", Trace(th[t].s), [th[t] EXCEPT !.pc = "top"])
         ELSE /\ th' = [th EXCEPT ![t].pc = "top"]
              /\ UNCHANGED <<model, node, queue, error_count, covered, phase,
                             rules_fired, reports, result>>

-----------------------------------------------------------------------------
(***************************************************************************)
(* exit_with                                                               *)
(***************************************************************************)

Exit(t) ==
    /\ At(t, "exit")
    /\ rules_fired' = [rules_fired EXCEPT ![t] = th[t].fired]
    /\ th' = [th EXCEPT ![t].pc = IF t = 0 THEN "join" ELSE "exited"]
    /\ UNCHANGED <<model, node, queue, error_count, covered, phase, reports, result>>

\* The initial thread has joined the others: an uncovered cover is an error of
\* its own if there was no other.
NotHit == Covers \ covered
BugFailed == th[0].status = 1
Failed == 1 \in {th[t].status : t \in Threads}
Join(t) ==
    /\ At(t, "join")
    /\ phase = "run" => \A u \in Threads \ {t} : At(u, "exited")
    /\ error_count' = IF error_count = 0 THEN Cardinality(NotHit) ELSE error_count
    /\ th' = [th EXCEPT
                ![t].status = IF Failed \/ error_count' # error_count THEN 1 ELSE 0,
                ![t].pc = IF error_count' = 0 /\ Liveness # {} THEN "learn" ELSE "exited"]
    /\ result' = IF th'[t].pc = "exited"
                   THEN [done |-> TRUE, status |-> th'[t].status, missed |-> {}] ELSE result
    /\ UNCHANGED <<model, node, queue, covered, phase, rules_fired, reports>>

\* check_liveness_final: s learns from a successor, which is looked up in the
\* set, and passes it on to its predecessors.
Learns(s, n) == node[n].liveness \ node[s].liveness
Expandable(s) == BOUND = 0 \/ node[s].bound # BOUND
SetFind(n) == n \in seen
Learnable(s, n) ==
    /\ Expandable(s)
    /\ \E r \in 1..Rules : model.rule[s][r] = n
    /\ MeetsAssumptions(n)
    /\ SetFind(n)
    /\ Learns(s, n) # {}

\* The states mark_liveness(s, p) marks: the unmarked ones it comes to from s, each
\* from one it has marked.
Unmarked(p) == {x \in seen : p \notin node[x].liveness}
Reached(s, p) ==
    {x \in Unmarked(p) : \A C \in SUBSET Unmarked(p) :
        /\ s \in C
        /\ \A y \in C : node[y].previous \in Unmarked(p) => node[y].previous \in C
        => x \in C}

Learn(t) ==
    /\ At(t, "learn")
    /\ \E s \in seen, n \in States :
          /\ Learnable(s, n)
          /\ node' = [x \in seen |->
                        [node[x] EXCEPT !.liveness =
                           @ \cup {p \in Learns(s, n) : x \in Reached(s, p)}]]
    /\ UNCHANGED <<model, queue, error_count, covered, phase, th, rules_fired,
                   reports, result>>

\* No pass over the set makes progress any more: check_liveness_summarise.
BugMissed == {p \in Liveness : \A s \in seen : p \notin node[s].liveness}
Missed == {p \in Liveness : \E s \in seen : p \notin node[s].liveness}
Summarise(t) ==
    /\ At(t, "learn")
    /\ \A s \in seen, n \in States : ~Learnable(s, n)
    /\ error_count' = error_count + Cardinality(Missed)
    /\ th' = [th EXCEPT ![t].status = IF Missed # {} THEN 1 ELSE @,
                        ![t].pc = "exited"]
    /\ result' = [done |-> TRUE, status |-> th'[t].status, missed |-> Missed]
    /\ UNCHANGED <<model, node, queue, covered, phase, rules_fired, reports>>

-----------------------------------------------------------------------------

Step(t) ==
    \/ DiscardState(t)
    \/ FailRule(t)
    \/ InsertDuplicate(t)
    \/ InsertNew(t)
    \/ FailProperty(t)
    \/ MarkLiveness(t)
    \/ Enqueue(t)
    \/ EndInit(t)
    \/ LoopTop(t)
    \/ Dequeue(t)
    \/ DequeueNothing(t)
    \/ EndRules(t)
    \/ Exit(t)
    \/ Join(t)
    \/ Learn(t)
    \/ Summarise(t)

Finished == result.done
Done == Finished /\ UNCHANGED vars

Next == Done \/ \E t \in Threads : ~Finished /\ Step(t)

\* The scheduler runs every thread.
ThreadIds == UNION {0..m.THREADS-1 : m \in Models}
Fairness == \A t \in ThreadIds : WF_vars(t \in Threads /\ ~Finished /\ Step(t))

Spec == Init /\ [][Next]_vars
FairSpec == Spec /\ Fairness

-----------------------------------------------------------------------------
(***************************************************************************)
(* What the exploration should find, defined on the graph                  *)
(***************************************************************************)

IsGood(n) == n \in model.assumptions \cap model.invariants
Outcomes(s) == {model.rule[s][r] : r \in 1..Rules}
Successors(s) == {n \in Outcomes(s) : IsGood(n)}

\* The states within a step of S.
Wider(S) == S \cup UNION {Successors(s) : s \in S \ model.raising}

\* The states within any number of steps: in every set that has S and is closed.
Reach(S) == {n \in States : \A C \in SUBSET States :
                                S \subseteq C /\ Wider(C) \subseteq C => n \in C}

\* The states within k steps of S.
Within(S) ==
    LET within[k \in 0..Cardinality(States)] == IF k = 0 THEN S ELSE Wider(within[k-1])
    IN  within

StartStates == {n \in {model.starts[i] : i \in 1..Len(model.starts)} : IsGood(n)}
Horizon == IF BOUND \in 1..Cardinality(States) THEN BOUND ELSE Cardinality(States)
ReachableStates ==
    IF BOUND = 0 THEN Reach(StartStates) ELSE Within(StartStates)[Horizon]

\* The reachable states that are to be expanded.
Expanded ==
    (IF BOUND = 0 THEN ReachableStates ELSE Within(StartStates)[Horizon - 1])
        \ model.raising

Violation(outcome) ==
    outcome \in {GuardError, RuleError} \cup (model.assumptions \ model.invariants)

\* The rules that run to their end, and those of them that count as progress.
Firing(s) == {r \in 1..Rules : model.rule[s][r] \in States}
Moving(s) ==
    {r \in Firing(s) : DEADLOCK_DETECTION = "stuttering" =>
                          model.rule[s][r] # s \/ <<s, r>> \in model.permutes}
IsDeadlock(s) == DEADLOCK_DETECTION # "off" /\ Moving(s) = {}

CanReach(s, p) ==
    \E n \in Reach({s}) : n \in model.liveness[p]

\* The model satisfies all of its properties.
Correct ==
    /\ \A i \in 1..Len(model.starts) : ~Violation(model.starts[i])
    /\ \A s \in Expanded : /\ \A outcome \in Outcomes(s) : ~Violation(outcome)
                           /\ ~IsDeadlock(s)
    /\ ReachableStates \cap model.raising = {}
    /\ \A i \in Covers : ReachableStates \cap model.covers[i] # {}
    /\ \A p \in Liveness, s \in ReachableStates : CanReach(s, p)

-----------------------------------------------------------------------------
(***************************************************************************)
(* Properties                                                              *)
(***************************************************************************)

TypeOK ==
    /\ node \in [seen -> [previous : States \cup {NoState}, rule_taken : Nat \ {0},
                          bound : 0..BOUND, liveness : SUBSET Liveness]]
    /\ queue \in [Threads -> Seq(seen)]
    /\ error_count \in Nat
    /\ covered \subseteq Covers
    /\ phase \in {"warmup", "run"}
    /\ \A t \in Threads :
          /\ th[t].pc \in {"unborn", "init", "top", "dequeue", "rule", "mark", "raise",
                           "enqueue", "exit", "join", "learn", "exited"}
          /\ {th[t].s, th[t].n, th[t].at} \subseteq seen \cup {NoState}
          /\ th[t].queue_id \in Threads /\ th[t].status \in {0, 1}
    /\ rules_fired \in [Threads -> Nat]

\* The threads in possession of s: running its rules, or about to enqueue it.
Expanding(s) == {t \in Threads : th[t].s = s /\ th[t].pc \in {"rule", "raise", "mark", "enqueue"}}
Inserting(s) == {t \in Threads : th[t].n = s}
Queued(s) ==
    UNION {{<<k, i>> : i \in {j \in 1..Len(queue[k]) : queue[k][j] = s}} : k \in Threads}
Closed(s) == Successors(s) \subseteq seen

\* A state in the seen set is in one place only: on its way into a queue, in one
\* queue once, or with the one thread that expands it; and when it is in none of
\* them all its successors are in the set, unless it is at the bound, or errors
\* stopped its expansion.  What is inserted by set_insert is expanded exactly
\* once, whichever threads find and steal it (explore, queue_dequeue).
NothingLost ==
    \A s \in seen :
        LET places == Cardinality(Expanding(s)) + Cardinality(Inserting(s))
                        + Cardinality(Queued(s))
        IN  /\ places <= 1
            /\ \/ places = 1 \/ Closed(s) \/ s \in model.raising
               \/ ~BelowBound(s)
               \/ error_count >= MAX_ERRORS

\* Errors did not stop the search: fewer than MAX_ERRORS were found (those of exit_with
\* do not count).
NotCutShort == reports = {} \/ error_count < MAX_ERRORS

\* When errors did not stop the search the set of seen states at the end is the set
\* of reachable states, or of those within the bound: no thread leaves explore() while
\* there is something it would have had to do.
Complete == Finished /\ NotCutShort => seen = ReachableStates

\* Nothing is lost on the way, and nothing is missing at the end (explore,
\* queue_dequeue, error).
SearchComplete == TypeOK /\ NothingLost /\ Complete

\* The verifier counts no error exactly when the model is correct: every kind of
\* violation is found (init, explore, exit_with, check_liveness_summarise) and
\* none is invented.  With one error allowed that is also the exit status, even
\* if several threads find errors at once (error, exit_with).  BOUND is left out
\* when there are more threads, which may miss states within it (BoundCovered).
VerdictRight ==
    Finished => /\ error_count = 0 <=> Correct
                /\ MAX_ERRORS = 1 => (result.status = 0 <=> Correct)

\* An error is reported with a trace that the model can follow from a start state
\* and that ends in that error (error, print_counterexample).
ReportsReal ==
    \A report \in reports :
        LET trace == report.trace
            last == Len(trace)
            before(i) == IF i = 1 THEN NoState ELSE trace[i-1].state
            outcome(i) == IF i = 1 THEN model.starts[trace[i].rule]
                                   ELSE model.rule[before(i)][trace[i].rule]
        IN  /\ last > 0
            /\ \A i \in 1..last-1 : outcome(i) = trace[i].state /\ IsGood(trace[i].state)
            /\ CASE report.kind = "invariant" -> outcome(last) = trace[last].state
                                                 /\ Violation(trace[last].state)
                 [] report.kind = "property"  -> trace[last].state \in model.raising
                 [] report.kind = "deadlock"  -> IsDeadlock(trace[last].state)
                 [] OTHER                     -> outcome(last) = report.kind

\* No more than MAX_ERRORS errors are printed although every thread may be past
\* the check of error_count, and no thread that could go on stops before them.
ReportsBounded ==
    /\ Cardinality(reports) <= MAX_ERRORS
    /\ \A t \in Threads : th[t].status = 1 /\ At(t, "exit") => error_count >= MAX_ERRORS

\* The printed number of rules fired is the number of rules of expanded states
\* that ran to their end, each counted by one thread (exit_with, rules_fired).
TotalFired ==
    LET total[k \in 0..THREADS] == IF k = 0 THEN 0 ELSE total[k-1] + rules_fired[k-1]
    IN  total
RulesFiredExact ==
    Finished /\ NotCutShort =>
        TotalFired[THREADS] = Cardinality({sr \in Expanded \X (1..Rules) :
                                              sr[2] \in Firing(sr[1])})

\* All that the verifier prints of its errors and counts is true.
ReportsTrue == ReportsReal /\ ReportsBounded /\ RulesFiredExact

\* A state marked live has its predecessor marked, or a thread is about to mark
\* it: mark_liveness may stop at a state that is marked already although the
\* thread that marked it has not come to its predecessors yet.
MarksPassedOn ==
    \A s \in seen : \A p \in node[s].liveness :
        \/ node[s].previous = NoState
        \/ p \in node[node[s].previous].liveness
        \/ \E t \in Threads : /\ At(t, "mark") /\ p \in th[t].todo
                              /\ th[t].at = node[s].previous

\* A state marked live can reach a state in which the property holds; and at the
\* end, with nothing else wrong, exactly the properties that some state cannot
\* reach are reported (mark_liveness, check_liveness_final).
LivenessExact ==
    /\ \A s \in seen : \A p \in node[s].liveness : CanReach(s, p)
    /\ Finished /\ BOUND = 0 =>
          result.missed \subseteq
              {p \in Liveness : \E s \in ReachableStates : ~CanReach(s, p)}

\* Every successor check_liveness_final looks up is in the set: the assertion
\* after its call of set_find.
FinalSearchFinds ==
    \A t \in Threads : At(t, "learn") =>
        \A s \in seen : Expandable(s) =>
            \A n \in Outcomes(s) \cap model.assumptions : n \in seen

\* Both halves of the liveness check, the marks passed on during the search and
\* the final search from what was left unmarked, find what the graph says.
LivenessSound == MarksPassedOn /\ LivenessExact /\ FinalSearchFinds

\* With one thread the search is breadth-first: every state is seen with a
\* shortest path, so that every counterexample is a shortest one.
ShortestTraces ==
    THREADS = 1 =>
        \A s \in seen : /\ s \in Within(StartStates)[Depth(s) - 1]
                        /\ \A k \in 0..Depth(s) - 2 : s \notin Within(StartStates)[k]

\* The verifier comes to an end, whatever the threads find (explore, exit_with).
Terminates == <>Finished

\* A violation within the bound is found (tests/bound-limit2.m).
BoundCovered ==
    Finished /\ error_count = 0 =>
        \A s \in Expanded : \A outcome \in Outcomes(s) : ~Violation(outcome)

\* A model with errors has exit status 1 (tests/multiple-errors.m).
ErrorsExitOne == Finished /\ error_count > 0 => result.status = 1

=============================================================================
