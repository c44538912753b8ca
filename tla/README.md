# TLA+ models and proofs for rumur

[Rumur](../src/README.rst) turns a Murphi model into a C program, the
*verifier*, that explores the model's state space with several threads and
reports violated properties. A wrong answer of the verifier is worse than none.
The parts that decide it, and those a test suite reaches least, are modelled
here: lock-free containers, a rendezvous that shrinks while threads leave it, an
exploration loop whose result must not depend on the schedule, a bit-packed
store with C's arithmetic, an SMT solver run as a child process, and the
translators, which must keep a model's meaning while they rewrite its text or
write it out in a language with other scopes.

All paths below are relative to `src/`; `header.c` is
`rumur/resources/header.c`, the fixed part of every verifier, and
`generate-model.cc` is `rumur/src/generate-model.cc`, which writes the rest.

## The system

### Components of the verifier (run time)

| component | state | operations | what makes it correct |
|---|---|---|---|
| exploration loop (`generate-model.cc`: `init`, `explore`; `header.c`: `error`, `deadlock`, `exit_with`) | `error_count`, `phase`, `covers`, `rules_fired`, each thread's `s`, `n`, `queue_id`, `possible_deadlock` | run start states, dequeue, run rules, insert, enqueue, report, exit, join | every reachable state is expanded exactly once; the verdict is that of the graph; traces are real |
| liveness (`mark_liveness`, `learn_liveness`, `check_liveness_final`, `check_liveness_summarise`) | liveness bits and `previous` pointers of the seen states | mark backwards while exploring, fixpoint at the end | a bit is set only when the property can be reached, and at the end exactly then |
| seen-state set (`set_*`) | `global_seen`, `next_global_seen`, `seen_count`, `next_migration`, `set_expand_mutex`, each thread's `local_seen` | insert by compare-and-swap, expand, migrate in chunks, update | linearizable set; a state is stored once; no table is used after it was freed |
| reference-counted pointers (`refcounted_ptr_*`) | pointer and count in one double word | get, put, shift, peek | the count is the number of holders |
| rendezvous (`rendezvous_*`) | mutex, condition variable, `running_count`, `rendezvous_pending` | arrive, depart, opt out | a barrier: the leader is alone, nobody leaves early or is left behind |
| pending queues (`queue_*`) and hazard pointers (`hazard`, `unhazard`, `reclaim`) | `q[k].ends`, `q[k].count`, linked 4 KiB nodes, `hazarded`, each thread's `deferred` list | enqueue, dequeue, reclaim | linearizable FIFO queues; no node is read after it was freed |
| handles and arithmetic (`read_raw`, `write_raw`, `handle_*`, `add` ... `lsh`) | the packed state | read and write bit fields, checked arithmetic | a write is read back and touches nothing else; overflow is reported |
| loops of quantifiers (`generate-quantifier.cc`) | a counter of a C type | enter, test, body, step | every value once, in order, and an end |
| state allocation (`state_new`, `state_free`) | per-thread arena | bump, give back the last | frees are in stack order |
| symmetry reduction (`symmetry-reduction.cc`, `index_to_permutation`, `permutation_to_index`) | schedule fields | canonicalise, compose permutations | equivalent states get one representative; names in traces are those of the run |

The threads share the set, the queues, `error_count` and the liveness bits. A
thread that finds the set too full or full leads or joins a migration, which
ends in a rendezvous of all running threads; a thread that exits opts out of the
rendezvous and may thereby become the one that completes it. Thread 0 starts the
others when its queue has grown long (`WARMUP`, `RUN`), joins them in
`exit_with`, and then runs the final liveness pass alone.

### Components of the translators (compile time)

| component | state | operations | what makes it correct |
|---|---|---|---|
| `librumur`: tree, traversals, `indexer.cc`, `resolve-symbols.cc`, `Rule.cc` | scopes of the symbol table, the numbers of nodes | visit, declare, look up, open and close a scope, flatten nested rules | a name is resolved to the declaration the text says |
| types (`TypeExpr.cc`, `ValueType.cc`, `optimise-field-ordering.cc`) | | widths, counts, coercion; the C types for a model; the order of fields | the C types hold every value of every variable |
| simplification (`rumur/src/smt`) | the solver's scopes, the budget of time | declare, assert, ask | the solver knows every name it is asked about, and is told nothing contradictory |
| solver process (`process.cc`, `solver.cc`) | pipes, a pipe for SIGCHLD, the child | spawn, select, read, write, wait | no verdict the solver did not give; nothing leaks; no wait without an end |
| `murphi2c`, `murphi2uclid`, `murphi2smv` | what each generator remembers: macros, variables so far, parameters to hand back, types seen | check, then write node by node | what the check lets through the generator can write, completely, and a name means what it meant |
| `murphi2murphi` | a pipeline of stages, each with pending characters and messages to itself | copy, skip, insert, replace | what is not asked for is not changed: comments, strings, conditions |
| `murphi2xml` | the place in the text, open elements | copy, open, close | every token in the element of its node |
| the rest: scanner, parser, validation, drivers, options, `murphi-format` | | | see *Not modelled* |

The translators are sequential, but for `process.cc`, whose event loop races with
the child and with SIGCHLD. What makes them hard is not interleaving but long
legal sequences: scopes opened and closed in step with another walk's, a check
and a generator that must agree on what is supported, stages that rewrite a text
while another stage holds back a part of it.

Hard behaviours of the whole: interleavings of threads; a slot, a queue end or a
table that changes between a read and the compare-and-swap that relies on it;
memory freed while another thread holds a pointer; threads that are late,
asleep, leaving; errors raised by several threads at once and `siglongjmp`
back into the loop; counters read while they lag behind; C's integer
conversions. Nothing is persisted and nothing is sent over a network, so there
is no crash recovery and no message loss. `PROJECT.json` lists the hazards of
all parts at their lines.

## Modules

| module | models | composes |
|---|---|---|
| `AbstractBarrier` | what the rendezvous promises: a round of all members ends with one of them leading alone | |
| `Rendezvous` | `rendezvous_*`, `start_secondary_threads`, `thread_main` | implements `AbstractBarrier` |
| `RendezvousProofs` | theorems about `Rendezvous` | |
| `AbstractSeenSet` | an atomic set of states | |
| `SeenSet` | `set_*`, the references to the tables, the rendezvous as used by a migration, `exit_with`'s first lines | extends `Rendezvous`, implements `AbstractSeenSet` |
| `SeenSetProofs` | theorems about the memory of `SeenSet`: references, tables, types | extends `SeenSet`, `RendezvousProofs` |
| `SeenSetTableProofs` | theorems about what the tables hold, and the refinement of `AbstractSeenSet` | extends `SeenSetProofs` |
| `AbstractQueues` | FIFO queues with atomic operations | |
| `StateQueue` | `queue_*`, `hazard`, `unhazard`, `reclaim` | implements `AbstractQueues` |
| `StateQueueProofs` | theorems about `StateQueue`: its nodes and hazard pointers, the order and count of the states, the refinement of `AbstractQueues` | extends `StateQueue` |
| `Explore` | `init`, `explore`, `error`, `deadlock`, liveness, `exit_with` | uses the set and the queues as atomic, which the modules above justify |
| `ExploreProofs` | theorems about the search of `Explore`: what is in whose hands, completeness | |
| `ExploreVerdictProofs` | theorems about what it concludes: liveness marks, the verdict, the number of reports | extends `ExploreProofs` |
| `ExploreReportsProofs` | theorems about what it prints: errors with their traces, the number of rules fired; with one thread, shortest traces and all that is within a bound | extends `ExploreVerdictProofs` |
| `Types` | widths, counts and equality of types, `get_value_type`, the order of fields | |
| `AbstractStore` | what a statement of Murphi means: integers, parts of variables, errors | |
| `Values` | `read_raw`, `write_raw`, `handle_*`, the arithmetic of `header.c`, and the C the generator writes around them | extends `Types`, implements `AbstractStore` |
| `Loops` | `generate_quantifier_header` and `_footer` | extends `Types` |
| `Process` | `run()` of `process.cc`, `Solver::solve`, the child, SIGCHLD | |
| `ProcessProofs` | theorems about `Process` | |
| `Syntax` | the tree, the default traversals, `indexer.cc`, flattening of rules | |
| `Resolver`, `CTranslation`, `UclidTranslation`, `SMVTranslation`, `Simplification` | each visitor, as a script per node | each extends `Syntax` |
| `Walks` | the tools at work: one step per instruction of a script, on the scopes of the language that is written | extends the five above |
| `Transcription` | the stages of `murphi2murphi`, and `murphi2xml`, on a text of tokens | extends `Syntax` |
| `MC...` | instances for TLC | |

Names of actions and variables are the source's where it has one.

**Rendezvous.** The mutex is explicit only through what it protects: a critical
section of `rendezvous_lock` is one action (`Arrive`, `Depart`, `OptOut`), except
that the leader keeps the lock while it runs its action, so the leader's section
is two steps (`Arrive` and `LeaderAction`, then `Depart`) during which no other
section can start. `pthread_cond_wait` is `Wait`, `Leave`: release and sleep, wake
and retake. `SpuriousSpec` adds the wakeups POSIX allows.

**SeenSet.** A table is a function from slots to states, `Empty`, `Tombstone`. Each
load, compare-and-swap and fetch-and-add of `set_insert`, `set_expand` and
`set_migrate` is an action; a thread's program counter has one value per access
to shared memory, and local computation belongs to the step before or after it.
References are counted per table; get, put and shift are atomic steps here. Hash
values are a constant function, so that collisions can be provoked.

**StateQueue.** Memory is a set of nodes with a status; a queue handle is a node and
a slot. Every load, store and compare-and-swap of `queue_enqueue`,
`queue_dequeue` and `reclaim` is an action; memory is sequentially consistent.
A node that was freed may be allocated again, so the ABA problem is in the model.

**Explore.** The Murphi model under verification is a parameter: a graph with
outcomes (a state, guard false, an error in guard or body, a failed `assume`
statement) per state and rule, chosen at the start from the set `Models`. States
are taken as canonicalised, and `permutes` says which rules differ from a stutter
before canonicalisation only. `WarmUp` stands for the queue length (20) at which
the other threads are started. Rules that both raise an error and are
re-evaluated by the final pass cannot occur together (the pass runs only without
errors). `check_covers`, which only raises relaxed counters that are read after
all joins, is part of the insertion; a cover statement inside a rule is treated
as a cover of the resulting state.

**Types, Values.** A word and a byte are the set of their one bits; the widths of
byte, word, `int` and of the C types are constants, so that a whole type fits
into a run. An operation is the C expression, with its promotions, conversions
and wrapping, and the checks around it. One step is one statement of a rule
against the packed state. `AbstractStore` says what the statement means on
integers; `Values` is shown to implement it, with `Decoded` as the mapping.

**Loops.** The counter is a `raw_value_t`, in which the smallest value of the type is
1, and an `int` inside an expression when it is narrower than one.

**Process.** Every system call of the parent is a step, with each of its failures,
short counts and EINTR; the handler of SIGCHLD runs between any two steps. The
child reads, writes and exits as it likes, and may leave a descendant behind
that keeps its descriptors. It runs on its own wherever the parent is: `run` neither
kills nor waits for the child of a run that failed early, so it goes on beside
`done:`, sees the end of a query that was cut short there, and may outlive the call
(`orphans` counts such children; what they do later concerns nobody, as nothing
of theirs is open any more). Verdicts are computed from the output as `solve` does.

**Syntax, Walks.** A visitor is a *script*: for a node, the sequence of visits to
its parts and of effects on names (open and close a scope, declare, use, define
and undefine a macro, hand to the solver). A script is what the handler does, in
its order; `Walks` runs it an instruction per step. Names are looked up in the
scopes of the target language at the place they are written, so a temporary that
captures a name, or a macro that outlives its statement, is a state of the model.
What a visitor remembers (its members) is `kept`. Of the text of a type what is kept
are the names in it: typedef names and enum members, wherever a generator
writes a type in place of a declaration, an expression or a cast. Names of rules and
functions are names like others where the target declares them. Operators and
numbers are left out.

**Transcription.** A text is a sequence of tokens; what can begin or end a comment
or a string is a token of its own, blanks and newlines too. `sync_to` and
`skip_to` move through the text; a token that is written goes through the stages,
each with its state, to the Printer. `murphi2murphi`'s stages are composed in the
order `main` adds them. The message a stage sends itself passes only stages that
hand it on at once, so it is one step. `LexedFrom` and `Parsed` are the scanner
and the precedences of the parser, applied to what was written. Indentation is
left out, and so are XML's attributes and escapes.

## Runs

| run | instance | shows |
|---|---|---|
| `MCRendezvous` | 4 threads, weak fairness | `CountersAgree`, `LeaderAlone`, `WaiterReleased`; implements the barrier |
| `MCSeenSet` | 2 threads, 3 states of which 2 collide, initial size 2, chunks of 1 slot, weak fairness | linearizable set; `TableSound`: a state is stored once and can be found, the count agrees with the table, every slot is migrated once; `PublishedOnly`: at most two tables, whose counts are those of their holders; `NoUseAfterFree`: insertions, migrations and threads that begin to exit use allocated tables, and only one of the two known ways leads to a double free or an overrun; insertions and exits return |
| `MCSeenSetExit` | the same, chunks of 2 slots | **violated**: a thread opting out twice frees a table twice |
| `MCStateQueue` | 2 threads, 5 nodes of 2 slots, 4 states, each thread enqueues to its own queue as `explore` does, symmetric nodes | linearizable queues; `NodesSafe`: no use after free, nodes freed once; `QueuesAccounted`: nothing is left when all have stopped, counts agree when nobody is in between |
| `MCStateQueueShared` | 2 threads, one queue, 3 nodes, weak fairness | a slot undone is the thread's own; every call returns |
| `MCExplore` | 4-state models: 405 with every kind of property and 2 threads, some 300 with 2 threads and `MAX_ERRORS` 2, 768 with 1 thread and a bound, all 4096 graphs of 3 states with 1 thread; weak fairness | `SearchComplete`: nothing is lost and at the end all is expanded; `VerdictRight`; `ReportsTrue`: reports are real, bounded, and the rules fired are counted exactly; `LivenessSound`: marks are passed on and at the end exact, and the final search finds what it asserts to find; traces of 1 thread are shortest; termination |
| `MCProcess` | a query of 3 bytes, pipes of 2, 3 possible answers, 2 calls, a budget of 1 | `WholeOrFailed`: only a run that failed, and is over, gives the child the end of its input before the end of the query, and there is no verdict then; `NothingLeaks`; `VerdictSound`; `RunReturns` |
| `MCValues` | bytes of 2 bits, words of 2 bytes, C types of 3 to 6 bits; every operator on every pair of numbers of a small C type; fields at every offset and across words, records, arrays | `AutoTypesFit`: the C types chosen hold all values and the undefined one; `StoresWhatIsMeant`: implements `AbstractStore` |
| `MCLoops` | bounds from -8 to 7 and 10 steps, and bounds evaluated at run time up to ±31, in C types of 3 to 6 bits; but for three kinds of loops that go wrong, below | `VisitsAll`: the body runs for the right values, in order; `LoopEnds` |
| `MCWalks` | 9 models and 64 + 16 that choose between two names wherever one is declared inside of another's scope (the 16 have no aliases, see Bounds); 4 plans: `murphi2c`, `murphi2uclid`, `murphi2smv`, simplification | `Lexical`: a name is resolved to the declaration the text says; `NamesMean`: what is written means the same in the target; `RejectedFirst`: no generator meets what its check should have refused; `KnownToSolver`; `Translated`: everything is written, initialisation comes before the rules, and a return is last where the target has none |
| `MCWalksSimplify` | a model that counts down | **violated**: contradictory bounds are asserted |
| `MCTranscription` | 6 texts, 9 choices of stages | `LexedAlike`: comments, strings and names stay what they were; `SameConditions`: a rewritten condition is parsed as meant; `NothingElseLost`; `Semicoloned`; `InOwnElement`: each token in the XML element of its node |

A property that is a conjunction has its parts named in the module, where each is
stated. `TypeOK` of a module is a part of the first of them.

### Bounds

Four threads in the rendezvous allow a leader, a waiter, a newcomer and one that
leaves at once. Two threads suffice for every two-party race in the set and the
queues. Three states and a table of two slots make the set full, expand
and migrate twice, with a collision. Nodes of two slots make a queue cross node
boundaries at every other operation. Graphs of three and four states have
shortcuts, joins, cycles, self loops, sinks and unreachable states; with two
rules a state can have two different successors. Larger instances, too slow to
repeat routinely, were checked once without a violation: the set with three
threads and three states (7.0 million states), and the queues with three threads
and single-slot nodes. A query longer than a pipe makes the parent write in
pieces and wait; two calls let the first one leave something to the second. Words of two
bytes of two bits let a field of one to four bits begin at every bit, end in the
next word and be wider than what is left of this one; the C types keep the ratios
of the real ones, `int` lies between the narrow and the wide ones, as on the
machines rumur runs on. The small models of `MCWalks` hold every kind of node
and every nesting of two scopes. `murphi2uclid` refuses aliases, so naming in Uclid
rests on the four other models it accepts and on the 16 that choose names without
aliases; these have no locals in procedures either, as the `modifies` clauses name
those of earlier procedures (below). The only bounds in guards are `MaxCalls` and
`MaxTime` of `Process` (how often `solve` is called, how long a solver takes) and
`LONGEST` of `Loops`, the number of iterations at which a loop is taken to be
endless; it is greater than the number of values of the widest counter.

### Fairness

Weak fairness of each thread's next step: the operating system schedules every
runnable thread, and a blocked thread (asleep on the condition variable, waiting
for a mutex or for `pthread_join`) is not enabled. Retries of compare-and-swap
loops need no more, because a retry is always caused by the progress of another
thread, of which there is finitely much. Nothing is assumed about mutexes beyond
their being released. In `Process`, weak fairness of the parent, of the delivery
of a pending signal and of the child, in the event loop and out of it, which every
solver given a time limit owes: a child that never ends makes `run` wait for it, as
it should. In `Loops`, weak
fairness of the one thread there is.

`CHECK_DEADLOCK FALSE` is set where the modelled program ends: a tool that has
written its output, a loop that is done, a statement that was executed.

### What the violated runs mean

Each checks one statement of the repository's comments; `PROJECT.json` quotes the
line under `findings`.

* `MCSeenSetExit`: a thread that has put its reference back and opts out as the
  last arrival leads `set_update` and tries again; if it leads a second migration
  it frees the same table again, since its `local_seen` is unchanged. In
  `MCSeenSet` the process aborts at that point (`aborted`), as an allocator that
  notices does, and everything else is checked up to it.
* `MCWalksSimplify`: `visit_quantifier` asserts `from <= v` and `v <= to` whatever
  the direction of the step. The body of `for i := 3 to 1 by -1` is then
  simplified under a contradiction, and every condition in it becomes `true`.

### Further configurations

These are kept beside the runs: each is violated, and shows where the code
leaves what the runs check. The constants and models of the passing runs are chosen so
that everything else can be checked beyond these points (chunks of one slot, no
spurious wakeups, and so on).

| configuration | violates | because |
|---|---|---|
| `MCRendezvousSpurious` | `NobodyStillToArrive` | `pthread_cond_wait` is not in a loop (`header.c:3183`): a follower that wakes spuriously runs on with the old set while the leader frees it |
| `MCSeenSetChunk` | `MigrationInBounds` | `--set-capacity` small enough to make the table shorter than a chunk lets the migration loop run past it (`header.c:3437`) |
| `MCStateQueueDeferred` | `DeferredListSuffices` | the scan for deferred nodes and the scan for the new node are two scans, and a hazard pointer may move from one to the other in between (`header.c:2431`) |
| `MCExploreBound` | `BoundCovered` | with several threads a state's recorded bound is that of the first path found, not of the shortest (`generate-model.cc:1037`) |
| `MCExplore` with `Models <- FewErrorModels` | `ErrorsExitOne` | the loop leaves through `exit_with(EXIT_SUCCESS)` when errors stayed below `MAX_ERRORS` (`generate-model.cc:1121`) |
| `MCProcessOutput` | `OutputComplete` | what the child writes between the last empty read and `waitpid` is dropped (`process.cc:271`); the verdict is then "unknown", never a wrong one |
| `MCValues` with `Models <- NarrowModels` | `StoresWhatIsMeant` | under `auto` the type of raw values is the narrowest for the *number* of values, so that for a range such as `-1..200` it is narrower than the signed type of values; `lsh` and `bnot` convert a negative operand to it (`header.c:2120`), and bring back another number than was meant |
| `MCLoopsTop` | `LoopEnds` | a step past the greatest value of the type wraps around below the bound |
| `MCWalksUclid` | `RejectedFirst` | the check of `murphi2uclid` does not go down into some nodes, so that a division under them reaches an assertion (`codegen.cc:161`) |
| `MCWalksCapture` | `NamesMean` | the bounds of `for x := 1 to x` are written inside of the scope of the C loop's `x` (`CLikeGenerator.cc:696`) |
| `MCWalks` with `Sources <- MCNamesake`, `Plans <- MCC` | `NamesMean` | a property becomes a C function of its name, in the scope of the variables (`generate_c.cc:87`), while in Murphi the names of rules and properties are texts that clash with nothing |
| `MCWalks` with `Sources <- MCEnumConstant`, `Plans <- MCUclid` | `NamesMean` | a constant without a type is written with the type of its value, and for a value of a named enum that is the enum once more (`codegen.cc:147`), whose members are then declared twice |
| `MCTranscriptionDecompose` | `SameConditions` | the brackets of a comparison are part of its place in the text, and are lost when it is decomposed (`DecomposeComplexComparisons.cc:124`) |

### Modelled as they are, for a reader to know

While writing the modules we met behaviour of the code that the properties do
not speak of, or that the runs keep out of their models:

* `Union::width` counts the values of a union, while they are stored as offsets from
  its lower bound, so that a union of distant ranges does not keep what it is given.
* A loop downward to the smallest value of the type of its counter runs past its
  end, and the narrow type that `auto` may choose (see above) is also that of the counters.
* `raw_type` throws for `int64_t` and `uint64_t`, which `rumur/doc/rumur.1` lists
  for `--value-type`.
* The comparison `optimise-field-ordering.cc` sorts by is no strict weak order
  when there are fields of width zero.
* The operators `&`, `|` and `^` are left out of `Values`, and its instance has no raw type
  narrower than an `int`, so promotion is met through `value_t` only. An undefined
  variable passed as an argument is passed on undefined (`generate-expr.cc:364`): no error.
* `VerdictRight` states the exit status for `MAX_ERRORS` = 1 only (`ErrorsExitOne`, above).
* `generate-expr.cc` gives the index of an array over an enum an upper bound that
  is one too large (`:102`); the index is an enum's value, which never reaches it.
* SMT: division and remainder by zero or of negative numbers, `bvsmod`'s sign and
  shifts by negative numbers differ from Murphi's; `visit_model` ends with
  `open_scope` where it should close; aliases and functions are always
  unsupported; an enum in a return type is unknown to the solver.
* `murphi2uclid`: `forall` conditions are joined by `&&` where an implication is
  meant; `modifies` names the locals of earlier procedures (`vars` is added to at
  `codegen.cc:969`, never taken from, and written at `:331`); a return at the end
  of a loop's body passes the check.
* `murphi2c`: a scalarset's counter runs to its bound inclusively; an `exists` over
  an enum declared in place does not write it; aliases of functions keep their
  macros.
* `murphi2smv`: type declarations are not forgotten at the end of their scope;
  comments inside of comments; a bracket is missing after a scalarset.
* `murphi2murphi`: `switch` with an unbracketed single match is rewritten without
  regard to precedence, and one with nothing but an `else` loses its condition; `ToAscii`
  remembers a star inside a comment until the next slash, and ∧ and ∨ become
  operators that bind differently; a function's semicolon is written twice.
* Nested rules are flattened in another order than that of the text; traces number
  rules by the flattened order.

## Proofs

`RendezvousProofs` proves, for every finite set of threads and every one of them
as the initial one (`ThreadsAssumption`), that `Rendezvous` keeps its types
(`RendezvousTypeCorrect`), that the two counters count what their comments say
(`RendezvousCountersAgree`), that a leader is alone while it runs its action
(`RendezvousLeaderAlone`), and that the whole implements `AbstractBarrier`
(`RendezvousImplementsBarrier`). None of these is inductive: "the leader is
alone" holds because `rendezvous_pending` reached zero, which says something
about the other threads only while the counter agrees with their program
counters, which in turn survives a departure only because every follower is
asleep when the leader resets it. The inductive invariant `RendezvousInv` is
the conjunction of the types, the agreement of both counters with the sets of
threads they count, that the lock is held exactly by the thread between its
arrival and its sleep or departure (`LockOwner`), that a leader took the last
token (`LeaderTookLast`), and that nobody but the initial thread is active before
the others are started (`AloneOrStarted`). Cardinalities of the sets
counted change by one per step; that is what the lemmas at the top of the module
establish with the finite-set theorems of the library.

`ProcessProofs` proves, for queries, pipes, answers and budgets of any size and
any number of calls (`ProcessAssumption`), that a solver which sees the end
of its input before the end of the query belongs to a run that has failed and is
over, and gives no verdict (`ProcessWholeOrFailed`), and that `run`
returns with nothing open (`ProcessClosesAll`). What a child has read by the end
of its input is otherwise the whole query, because every byte written is in the pipe
or has been read (`BytesAccounted`), the parent's end of the pipe is closed in
the loop only when nothing is due any more (`OpenWhileDue`), a run does not
start with the counters of the last one (`FreshBeforeSpawn`), and one that succeeds has
waited for its child, which cannot read any more when `done:` closes the
pipe (`WaitedFor`); the inductive
invariant `ProcessInv` is the conjunction of these with the types. That a
verdict of the solver is one it gave (`ProcessVerdictSound`) needs more than the
code provides: output may be lost between the last empty read and `waitpid`, and
of an answer such as `sat-like` what is left may end in a line the solver did
not write. The theorem states what it takes of the solver as its hypothesis,
`CutsHarmless`: no answer that is cut short ends in `sat` or `unsat` unless the
whole answer does. `MCProcess` assumes, and TLC evaluates, that its answers are
such. What is proved of the code (`OutputInv`): what was read and what is in the
pipe are a beginning of what this child wrote (`OutputAccounted`), with nothing
left over from an earlier run (`SilentBeforeSpawn`), so that a verdict is what
the child had said by some point (`VerdictHeard`).

`SeenSetProofs` proves, for every finite set of threads and states, every hash
function and size of the first table, that what insertions and migrations work on, what
the leader of its own migration frees and what a thread begins to exit with
is allocated (`SeenSetNoUseAfterFree`), that the allocated tables are the published ones and their
counts the threads that hold them (`SeenSetPublishedOnly`), and the types
(`SeenSetTypeCorrect`). The inductive invariant `MemoryInv` contains
`RendezvousInv`: that the leader may free the old table rests on everybody else being
at the meeting without a pointer into it. The theorem does not speak of a thread that leads
while it opts out: that one goes by a `local_seen` whose reference it has put back, and
frees a table twice (`MCSeenSetExit`). What it says instead is that only this, or a
migration beyond the last slot of a table smaller than a chunk (`MCSeenSetChunk`), ends
in `aborted` (`AbortExplained`); up to there nobody else is affected. The invariant says, per position of the set's
code, which of the two tables a thread's pointers name (`OldPointers`,
`NewPointers`), how the position in the set's code and the one in the rendezvous
agree (`ControlAgrees`), which threads the counts count (`CountsRight`), that a
table is expanded by the owner of the lock alone (`ExpandLocked`), and that a
state taken from the old table is in the taker's hands (`ThreadsCarry`,
`TombstonesTell`).

`SeenSetTableProofs` goes on to what the tables hold: a state is stored once, linear
probing finds it, the occupancy counts it, no slot is migrated twice
(`SeenSetTableSound`), and the whole implements the atomic set of `AbstractSeenSet`
(`SeenSetImplementsSet`). The invariant `TableInv` counts, for each table, the
chunks that were handed out (`ChunksClaimed`) and says that slots behind them are
tombstones or in a thread's hands (`TombstonesMigrated`); that no slot between where
a state hashes to and where it is stored is empty (`StatesReachable`), nor any
between there and a thread's position of probing (`ProbedInVain`); and that a state is in
one table, slot or hand (`OnePlace`). Probing wraps around, so the module begins
with lemmas on remainders. For the refinement, a step of the tables is a call, a
linearisation point (the compare-and-swap, or the probe that finds the state), a
return, or a stutter; the steps of a migration are stutters since what moves stays
in the union of tables and hands.

`StateQueueProofs` proves, for any number of threads, queues, nodes and slots per node, that
no thread dereferences a node that another has freed and that a node is freed once
(`StateQueueNodesSafe`), and the assertion of `queue_enqueue` that what is undone is the
thread's own write (`StateQueueUndoesOwnWrite`). The invariant `NodesInv` says there
is a set of nodes per queue that the chained pointers map one to one into itself from the
head's node to the tail's; the code keeps no such set, so it is bound by an
existential quantifier, and each step is shown to preserve the body for the old
sets or for sets with one node more or less. `Scanned` is what makes the hazard
pointers work: those a scan has passed do not protect the node it is for, because
protection counts only after the second check, which the ends of the queue fail once the
node is removed.

The module goes on to the states. That they are accounted for
(`StateQueueAccounted`: none is lost, nothing is left and no node leaks when every
`queue_dequeue` has returned NULL, the counts follow) and that the queues implement
those of `AbstractQueues` (`StateQueueImplementsQueues`) rest on two more invariants.
`OrderInv` is the order: each queue has a walk, a sequence of seats
(slots of nodes) from head to tail each of which is where the one before leads.
The code keeps no such sequence either, and `Contents`, which the runs compute by
following the pointers, is shown to find it (`StatesOfWalk`). Each seat is `Firm`: no
enqueuer that may still take back its write has written there. A dequeuer reads
the state only after it has moved the head off it, hence `Loading`: that seat is firm too, for
the thread protects the node, and nobody writes in a slot before the tail. `Filled`
is about nodes not yet added, and `NoLeak` that what is allocated is on a list or in
somebody's hands. `BooksInv` is the accounting: `Placed` says that each state is in exactly
one place (fresh, offered, in a queue, removed, explored), `CallAgrees` how the
local variables go with the progress of a call. The end of a thread is the hard
part: `queue_dequeue` tries the queues one after the other, and those it has found empty may be
filled behind its back. `StillAhead` says that a queue which holds a state is one that
some thread has not `Visited` in its call, which holds as whoever fills a
queue calls `queue_dequeue` afterwards. With these, each step appends a state to a queue, removes the first,
returns one, or moves none (`Moves`); the linearisation points are the
compare-and-swaps of `EnqueueFirst`, `EnqueueCAS` and `DequeueCAS`.

Three assumptions on constants are used. The addresses are finite, as those of a machine
are. The start states are distinct, for `init` inserts each into the set and
enqueues it only if it was not there; a state found later is enqueued once for the
same reason (`Enqueue` takes fresh states). There are at least two
threads and queues, as with one the deferred list has no entries. Memory is
sequentially consistent in the model and so in the theorems.

`ExploreProofs` proves, for every set of finite models and their options, that a state
which was inserted is in one place only (`ExploreNothingLost`), and, without a bound,
that the search finds what is reachable (`ExploreSearchComplete`). What can be reached
is defined as the least set that has the start states and is closed, which needs no
recursion. The invariant `SearchInv` says of each thread which start states or rules
it has dealt with (`Progress`) and which queues it has found empty (`Tried`, `Exits`):
only its own stays empty, since everybody else's may be filled behind its back
(`Kept`), and what makes the end right is that whoever fills a queue looks into it before
leaving. Of each seen state it says that a thread or a queue holds it, or that
its rules have been run (`AllAccounted`). Start states are dealt out by the initial
thread alone, before there are others (`Starting`), which is why queues it fills for
others are not forgotten.

`ExploreVerdictProofs` proves that the liveness marks are right whatever the order of the
threads that pass them on (`ExploreLivenessSound`), that the verdict is
(`ExploreVerdictRight`), and that no more than `MAX_ERRORS` errors are printed
(`ExploreReportsBounded`). A thread may stop at a mark which another has just made and
not passed on; `MarksRight` says who will, and strengthens the property to the thread that makes that
very mark next. `SelfMarked` is what the final search rests on: when
it makes no progress any more the states without a mark are closed under
successors and the property holds in none of them (`MissedAreHopeless`). `ErrorsReal`
and `AllChecked` are the two halves of the verdict, `StatusKept` how the exit
status follows the counter.

`ExploreReportsProofs` proves that every error that is printed is one of the model, with a
trace that leads to it from a start state by the rules it names (`ExploreReportsReal`,
for every bound), and with `ExploreReportsBounded` and the count of the rules
fired all of `ReportsTrue` (`ExploreReportsTrue`, without a bound). A trace is a chain of predecessors
of any length. That each link is right is a fact about single states (`TraceInv`: the
rule a struct names leads from the state's predecessor to it, and a new state's is the one
its finder runs); that the chain comes to an end needs that it has no
cycle: the invariant says that of every set of seen states at least one has its predecessor outside of
the set (`Acyclic`). What `Trace` builds is a recursive function over
that chain; as the library's induction theorems take operators, which the provers
cannot instantiate, the module argues by a least counterexample (`LeastOf`, `UpTo`).
The number of rules fired is a sum over the threads. The code has no record of who ran
which rule, so `FiredRight` says that there is a share per thread: a set of pairs
of a state and a rule, disjoint from those of the others, as large as the thread's
count, and together all pairs that nobody waits for any more (`Waits`, `RunOn`).
Every step passes pairs from a queue to a hand and on (`Passes`), and the one that
takes a pair from a hand is the one that counts it (`Tally`).

`ExploreSearchComplete`, `ExploreVerdictRight` and `ExploreReportsTrue` are about
verifiers without a bound: with one, several threads may miss states within it
(`MCExploreBound`). One thread does not, see below.

`ExploreShortestTraces` proves `ShortestTraces`, for every bound: with one thread each
state is seen with a shortest path, and so every counterexample is a shortest one. The code keeps no
level of a state; `BreadthInv` says that there are levels which agree with the
pointers to previous states and with the bounds (`Levels`), and that relative to the level
of the state whose rules are run the queue holds that level and then the next
(`Ordered`), nothing further down has been seen, and all levels before are explored
(`Behind`). What is hard is the last: when a state is dequeued the levels before
its own are neither queued nor in hand, so `AllAccounted` has their successors in the set
(`DequeueBehind`), unless errors stopped the search, after which nothing is dequeued any
more. Two of the model's operators are recursive functions over the number of states,
`Within` and `Ancestor`; the level of a state is the length of its trace
(`LevelIsDepth`), it is within as many steps (`LevelReached`) and not within fewer
(`LevelsBefore`). The proof uses the assumption (`StatesFinite`) that a model has
finitely many states and at least one: a state is a fixed number of bits, if only none.

`OneThreadSearchComplete`, `OneThreadVerdictRight` and `OneThreadReportsTrue` prove the
same three properties of verifiers with one thread, at every bound. The bound in a state's struct is
its level less one (`Levels`), so a state at the bound is within as many steps and no
shorter path leads past it (`SeenWithin`); at the end nothing is held, so all levels
before the bound are explored (`ExploredBehind`, `BoundedSearch`). `ErrorsReal`, the half of the
verdict that invents nothing, speaks of what has been seen (`Flawed`), which is why it serves
with and without a bound. The verdict at a bound is proved for models without liveness
properties; with them the verifier may count an error where there is none, as the states at
the bound are not expanded and what they lead to is not known (`check_liveness_final`).

Only model-checked: `WaiterReleased`, `InsertReturns`, `CallsReturn` and all
other liveness (the prover does not do fairness); and the modules
about values, loops and text. `Syntax` and the modules that extend it walk trees with RECURSIVE
operators, which the prover does not support.

## Not modelled

* `pthread_create`, `malloc` and `calloc` failing (the verifier exits).
* Weak memory: every access is sequentially consistent. The hazard pointers rely
  on orderings that a store-buffer model would check.
* The double-word compare-and-swap loops inside `refcounted_ptr_get` and `_put`,
  which `SeenSet` takes as atomic; `state_new`'s arena; symmetry reduction and the
  indices of permutations.
* The sandbox (system calls that give up privileges), the drivers and their
  options, `rumur-run`, `murphi-format`: input, output and processes, with no state a
  property could be about, except the formatter's scanner.
* Scanner, parser, validation and constant folding of `librumur`: they look at a
  token or a node at a time, and their results are inputs here.
* The header `murphi2c` writes (`generate_h.cc`), the choice of numeric types for
  Uclid and SMV, the printing of states and traces, the text of types and numbers.

## Plan

1. Done: the concurrent parts of the verifier with their abstract
   specifications, `Rendezvous` with its proofs; bit fields, arithmetic and
   loops; the solver process with its proofs; the translators.
2. Proofs. Done: the references, chunks and slots of `SeenSet` and its refinement,
   the hazard pointers, order and counts of `StateQueue` and its refinement, the search, marks, verdict, reports and
   shortest traces of `Explore`, the verdict of `Process`.
   Left: `VisitsAll` of `Loops` and `AutoTypesFit`.
3. `RefcountedPtr`: the compare-and-swap loops refine the atomic get and put of
   `SeenSet`; a version of the hazard pointers with store buffers; the arena;
   permutations.
