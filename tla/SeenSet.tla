------------------------------- MODULE SeenSet -------------------------------
(***************************************************************************)
(* The set of seen states of the generated verifier ("State set" in        *)
(* rumur/resources/header.c): an open-addressing hash table that all       *)
(* threads insert into without a lock, that any of them may decide to      *)
(* double, and whose contents they then move together, chunk by chunk, to  *)
(* the new table before they meet at the rendezvous and drop the old one.  *)
(*                                                                         *)
(* Tables live in heap, in the order of their allocation: a pointer is an  *)
(* index into it and Null is 0.  Each step performs one atomic access to   *)
(* shared memory.  The compare-and-swap loops of refcounted_ptr_get and    *)
(* _put are single steps here.                                             *)
(*                                                                         *)
(*    pc[t]      thread t is about to ...                                  *)
(*    "unborn"   be created                                                *)
(*    "idle"     return to explore() (set_insert is not running)           *)
(*    "check"    compare the occupancy with the threshold (restart:)       *)
(*    "probe"    load a slot               "cas"     fill an empty one     *)
(*    "count"    raise seen_count                                          *)
(*    "expand"   look for an expansion under way                           *)
(*    "lock"     take set_expand_mutex     "alloc"   allocate, with it     *)
(*    "get"      take a reference to next_global_seen (set_migrate)        *)
(*    "chunk"    claim a chunk             "take"    take a slot's state   *)
(*    "place"    put the state in hand into the new table                  *)
(*    "put"      give up the old table     "meet"    go to the rendezvous  *)
(*    "optout"   opt out of the rendezvous                                 *)
(*    "joining"  (initial thread) pthread_join the others                  *)
(*    "done"     nothing                                                   *)
(***************************************************************************)
EXTENDS Rendezvous, Sequences

CONSTANTS
    States,                \* the states explore() may insert
    Hash,                  \* state_hash, a function from States to Nat
    Empty, Tombstone,      \* slot_empty(), slot_tombstone()
    InitialSize,           \* 2 ^ INITIAL_SET_SIZE_EXPONENT
    ChunkSize,             \* CHUNK_SIZE, slots migrated at a time
    Threshold              \* SET_EXPAND_THRESHOLD, per cent

ASSUME SeenSetAssumption ==
    /\ Hash \in [States -> Nat]
    /\ Empty \notin States /\ Tombstone \notin States /\ Empty # Tombstone
    /\ InitialSize \in Nat \ {0}
    /\ ChunkSize \in Nat \ {0}
    /\ Threshold \in 1..100

VARIABLES
    heap,               \* every table ever allocated
    global_seen,        \* [ptr, count]
    next_global_seen,   \* [ptr, count]
    next_migration,     \* the next chunk to migrate
    seen_count,         \* occupancy
    set_expand_mutex,   \* owner
    pc, local_seen,     \* per thread: program counter, thread-local pointer
    next,               \* per thread: set_migrate's next
    arg,                \* per thread: set_insert's s, or Empty
    pos,                \* per thread: set_insert's attempts, set_migrate's i
    hand,               \* per thread: the slot_t s of set_migrate
    target,             \* per thread: the slot j of set_migrate
    resume,             \* per thread: where to go on after the rendezvous
    aborted             \* the program has freed memory twice, or strayed
                        \* outside its tables: nothing can be said any more

setState == <<heap, global_seen, next_global_seen, next_migration, seen_count,
              set_expand_mutex>>
threadState == <<pc, local_seen, next, arg, pos, hand, target, resume>>
vars == <<setState, threadState, aborted, rendezvousVars>>

Null == 0

EmptyTable(size) == [size |-> size, bucket |-> [i \in 0..size-1 |-> Empty],
                     freed |-> FALSE]

\* The operators named Bug... are mistakes the properties below must catch.

\* refcounted_ptr_get and refcounted_ptr_put
BugRefcountedPtrGet(p) == p
RefcountedPtrGet(p) == [p EXCEPT !.count = @ + 1]
BugRefcountedPtrPut(p) == p
RefcountedPtrPut(p) == [p EXCEPT !.count = @ - 1]

\* set_index
SetIndex(set, index) == index % heap[set].size

\* set_init and the initial thread's set_thread_init.
Init ==
    /\ RendezvousInit
    /\ heap = <<EmptyTable(InitialSize)>>
    /\ global_seen = [ptr |-> 1, count |-> 1]
    /\ next_global_seen = [ptr |-> Null, count |-> 0]
    /\ next_migration = 0
    /\ seen_count = 0
    /\ set_expand_mutex = NoThread
    /\ pc = [t \in Threads |-> IF t = Main THEN "idle" ELSE "unborn"]
    /\ local_seen = [t \in Threads |-> IF t = Main THEN 1 ELSE Null]
    /\ next = [t \in Threads |-> Null]
    /\ arg = [t \in Threads |-> Empty]
    /\ pos = [t \in Threads |-> 0]
    /\ hand = [t \in Threads |-> Empty]
    /\ target = [t \in Threads |-> 0]
    /\ resume = [t \in Threads |-> "idle"]
    /\ aborted = FALSE

Goto(t, label) == pc' = [pc EXCEPT ![t] = label]

-----------------------------------------------------------------------------
(***************************************************************************)
(* Threads come to life.                                                   *)
(***************************************************************************)

\* explore() starts the other threads between two insertions.
StartThreads(t) ==
    /\ pc[t] = "idle"
    /\ StartSecondaryThreads(t)
    /\ UNCHANGED <<setState, threadState>>

\* thread_main and set_thread_init.
SetThreadInit(t) ==
    /\ ThreadMain(t)
    /\ Goto(t, "idle")
    /\ local_seen' = [local_seen EXCEPT ![t] = global_seen.ptr]
    /\ global_seen' = RefcountedPtrGet(global_seen)
    /\ UNCHANGED <<heap, next_global_seen, next_migration, seen_count,
                   set_expand_mutex, next, arg, pos, hand, target, resume>>

-----------------------------------------------------------------------------
(***************************************************************************)
(* set_insert                                                              *)
(***************************************************************************)

Insert(t, s) ==
    /\ pc[t] = "idle"
    /\ rpc[t] = "run"
    /\ Goto(t, "check")
    /\ arg' = [arg EXCEPT ![t] = s]
    /\ UNCHANGED <<setState, local_seen, next, pos, hand, target, resume,
                   rendezvousVars>>

CheckOccupancy(t) ==
    /\ pc[t] = "check"
    /\ Goto(t, IF (seen_count * 100) \div heap[local_seen[t]].size >= Threshold
                 THEN "expand" ELSE "probe")
    /\ resume' = [resume EXCEPT ![t] = "probe"]
    /\ pos' = [pos EXCEPT ![t] = 0]
    /\ UNCHANGED <<setState, local_seen, next, arg, hand, target, rendezvousVars>>

ProbedSlot(t) == SetIndex(local_seen[t], Hash[arg[t]] + pos[t])

\* state_eq of s and the slot's state (the mistakes: on a slot lost to another
\* thread it is not called; it trusts the hash).
BugSameStateSkipped(t, c) == pc[t] = "probe" /\ c = arg[t]
BugSameStateHash(t, c) == c \in States /\ Hash[c] = Hash[arg[t]]
SameState(t, c) == c = arg[t]

\* What set_insert does about the occupied slot it has read.
Occupied(t, c) ==
    \/ /\ c = Tombstone
       /\ Goto(t, "get")
       /\ resume' = [resume EXCEPT ![t] = "check"]
       /\ UNCHANGED <<arg, pos>>
    \/ /\ SameState(t, c)
       /\ Goto(t, "idle")
       /\ arg' = [arg EXCEPT ![t] = Empty]
       /\ pos' = [pos EXCEPT ![t] = 0]
       /\ UNCHANGED resume
    \/ /\ c \in States
       /\ ~SameState(t, c)
       /\ pos' = [pos EXCEPT ![t] = @ + 1]
       /\ IF pos'[t] < heap[local_seen[t]].size
            THEN Goto(t, "probe") /\ UNCHANGED resume
            ELSE Goto(t, "expand") /\ resume' = [resume EXCEPT ![t] = "check"]
       /\ UNCHANGED arg

Probe(t) ==
    /\ pc[t] = "probe"
    /\ LET c == heap[local_seen[t]].bucket[ProbedSlot(t)]
       IN  \/ /\ c = Empty
              /\ Goto(t, "cas")
              /\ UNCHANGED <<arg, pos, resume>>
           \/ Occupied(t, c)
    /\ UNCHANGED <<setState, local_seen, next, hand, target, rendezvousVars>>

\* A failed compare-and-swap leaves the slot's value in c.
CompareAndSwap(t) ==
    /\ pc[t] = "cas"
    /\ LET c == heap[local_seen[t]].bucket[ProbedSlot(t)]
       IN  \/ /\ c = Empty
              /\ heap' = [heap EXCEPT ![local_seen[t]].bucket[ProbedSlot(t)] = arg[t]]
              /\ Goto(t, "count")
              /\ UNCHANGED <<arg, pos, resume>>
           \/ Occupied(t, c) /\ UNCHANGED heap
    /\ UNCHANGED <<global_seen, next_global_seen, next_migration, seen_count,
                   set_expand_mutex, local_seen, next, hand, target, rendezvousVars>>

CountInsertion(t) ==
    /\ pc[t] = "count"
    /\ seen_count' = seen_count + 1
    /\ Goto(t, "idle")
    /\ arg' = [arg EXCEPT ![t] = Empty]
    /\ pos' = [pos EXCEPT ![t] = 0]
    /\ UNCHANGED <<heap, global_seen, next_global_seen, next_migration,
                   set_expand_mutex, local_seen, next, hand, target, resume,
                   rendezvousVars>>

-----------------------------------------------------------------------------
(***************************************************************************)
(* set_expand                                                              *)
(***************************************************************************)

SetExpand(t) ==
    /\ pc[t] = "expand"
    /\ Goto(t, IF next_global_seen.ptr # Null THEN "get" ELSE "lock")
    /\ UNCHANGED <<setState, local_seen, next, arg, pos, hand, target, resume,
                   rendezvousVars>>

\* The mistake: no second check.
BugSetExpandLock(t) ==
    /\ pc[t] = "lock"
    /\ set_expand_mutex = NoThread
    /\ Goto(t, "alloc")
    /\ set_expand_mutex' = t
    /\ UNCHANGED <<heap, global_seen, next_global_seen, next_migration, seen_count,
                   local_seen, next, arg, pos, hand, target, resume, rendezvousVars>>

\* The second check is made with the mutex, which is given up when it fails.
SetExpandLock(t) ==
    /\ pc[t] = "lock"
    /\ set_expand_mutex = NoThread
    /\ IF next_global_seen.ptr # Null
         THEN Goto(t, "get") /\ UNCHANGED set_expand_mutex
         ELSE Goto(t, "alloc") /\ set_expand_mutex' = t
    /\ UNCHANGED <<heap, global_seen, next_global_seen, next_migration, seen_count,
                   local_seen, next, arg, pos, hand, target, resume, rendezvousVars>>

SetExpandAllocate(t) ==
    /\ pc[t] = "alloc"
    /\ heap' = Append(heap, EmptyTable(2 * heap[local_seen[t]].size))
    /\ next_global_seen' = [ptr |-> Len(heap'), count |-> 0]
    /\ set_expand_mutex' = NoThread
    /\ Goto(t, "get")
    /\ UNCHANGED <<global_seen, next_migration, seen_count, local_seen, next, arg,
                   pos, hand, target, resume, rendezvousVars>>

-----------------------------------------------------------------------------
(***************************************************************************)
(* set_migrate                                                             *)
(***************************************************************************)

MigrateGet(t) ==
    /\ pc[t] = "get"
    /\ next' = [next EXCEPT ![t] = next_global_seen.ptr]
    /\ next_global_seen' = RefcountedPtrGet(next_global_seen)
    /\ Goto(t, "chunk")
    /\ UNCHANGED <<heap, global_seen, next_migration, seen_count, set_expand_mutex,
                   local_seen, arg, pos, hand, target, resume, rendezvousVars>>

MigrateChunk(t) ==
    /\ pc[t] = "chunk"
    /\ next_migration' = next_migration + 1
    /\ LET start == next_migration * ChunkSize
       IN  IF start >= heap[local_seen[t]].size
             THEN Goto(t, "put") /\ pos' = [pos EXCEPT ![t] = 0]
             ELSE Goto(t, "take") /\ pos' = [pos EXCEPT ![t] = start]
    /\ UNCHANGED <<heap, global_seen, next_global_seen, seen_count, set_expand_mutex,
                   local_seen, next, arg, hand, target, resume, rendezvousVars>>

\* i < end
BugChunkEnd(i) == i % (ChunkSize + 1) = 0
ChunkEnd(i) == i % ChunkSize = 0

\* The loop over the slots of a chunk goes on to the next slot.
NextSlot(t) ==
    /\ pos' = [pos EXCEPT ![t] = @ + 1]
    /\ Goto(t, IF ChunkEnd(pos'[t]) THEN "chunk" ELSE "take")

\* The first slot to try in the new table (the mistake: the old table's).
BugFirstTarget(t, s) == SetIndex(local_seen[t], Hash[s])
FirstTarget(t, s) == SetIndex(next[t], Hash[s])

\* A slot after the last one is not part of the table.
MigrateTake(t) ==
    /\ pc[t] = "take"
    /\ pos[t] < heap[local_seen[t]].size
    /\ LET s == heap[local_seen[t]].bucket[pos[t]]
       IN  /\ heap' = [heap EXCEPT ![local_seen[t]].bucket[pos[t]] = Tombstone]
           /\ IF s \in States
                THEN /\ hand' = [hand EXCEPT ![t] = s]
                     /\ target' = [target EXCEPT ![t] = FirstTarget(t, s)]
                     /\ Goto(t, "place")
                     /\ UNCHANGED pos
                ELSE NextSlot(t) /\ UNCHANGED <<hand, target>>
    /\ UNCHANGED <<global_seen, next_global_seen, next_migration, seen_count,
                   set_expand_mutex, local_seen, next, arg, resume, rendezvousVars>>

\* Nothing was displaced from the slot (the mistake: what was is forgotten).
BugSettled(s) == TRUE
Settled(s) == s = Empty

\* Insert, and shuffle any colliding entry one along.
MigratePlace(t) ==
    /\ pc[t] = "place"
    /\ LET s == heap[next[t]].bucket[target[t]]
       IN  /\ heap' = [heap EXCEPT ![next[t]].bucket[target[t]] = hand[t]]
           /\ hand' = [hand EXCEPT ![t] = s]
           /\ IF Settled(s)
                THEN NextSlot(t) /\ target' = [target EXCEPT ![t] = 0]
                ELSE /\ target' = [target EXCEPT ![t] = SetIndex(next[t], @ + 1)]
                     /\ UNCHANGED <<pc, pos>>
    /\ UNCHANGED <<global_seen, next_global_seen, next_migration, seen_count,
                   set_expand_mutex, local_seen, next, arg, resume, rendezvousVars>>

MigratePut(t) ==
    /\ pc[t] = "put"
    /\ global_seen' = RefcountedPtrPut(global_seen)
    /\ Goto(t, "meet")
    /\ UNCHANGED <<heap, next_global_seen, next_migration, seen_count,
                   set_expand_mutex, local_seen, next, arg, pos, hand, target,
                   resume, rendezvousVars>>

\* The end of set_migrate, once the rendezvous lets the thread go.
MigrateDone(t) ==
    /\ local_seen' = [local_seen EXCEPT ![t] = next[t]]
    /\ next' = [next EXCEPT ![t] = Null]
    /\ resume' = [resume EXCEPT ![t] = "idle"]
    /\ pos' = [pos EXCEPT ![t] = 0]
    /\ Goto(t, resume[t])
    /\ UNCHANGED <<arg, hand, target>>

-----------------------------------------------------------------------------
(***************************************************************************)
(* The rendezvous, with set_update as the leader's action.                 *)
(***************************************************************************)

MeetArrive(t) ==
    /\ pc[t] = "meet"
    /\ Arrive(t)
    /\ UNCHANGED <<setState, threadState>>

MeetWait(t) == Wait(t) /\ UNCHANGED <<setState, threadState>>

\* free(local_seen) of a table that was freed before.
FreesTwice(t) ==
    next_global_seen.ptr # Null /\ heap[local_seen[t]].freed

\* A freed table's contents are forgotten.
SetUpdate(t) ==
    IF next_global_seen.ptr # Null
      THEN /\ heap' = [heap EXCEPT ![local_seen[t]] = [@ EXCEPT !.freed = TRUE,
                                                                !.bucket = <<>>]]
           /\ next_migration' = 0
           /\ global_seen' = next_global_seen
           /\ next_global_seen' = [ptr |-> Null, count |-> 0]
           /\ UNCHANGED <<seen_count, set_expand_mutex>>
      ELSE UNCHANGED setState

MeetLead(t) ==
    /\ LeaderAction(t)
    /\ ~FreesTwice(t)
    /\ SetUpdate(t)
    /\ UNCHANGED threadState

MeetDepart(t) ==
    /\ Depart(t)
    /\ IF rpc[t] = "led" THEN MigrateDone(t) ELSE UNCHANGED threadState
    /\ UNCHANGED setState

MeetLeave(t) ==
    /\ Leave(t)
    /\ MigrateDone(t)
    /\ UNCHANGED setState

-----------------------------------------------------------------------------
(***************************************************************************)
(* exit_with                                                               *)
(***************************************************************************)

Exit(t) ==
    /\ pc[t] = "idle"
    /\ rpc[t] = "run"
    /\ global_seen' = RefcountedPtrPut(global_seen)
    /\ Goto(t, "optout")
    /\ UNCHANGED <<heap, next_global_seen, next_migration, seen_count,
                   set_expand_mutex, local_seen, next, arg, pos, hand, target,
                   resume, rendezvousVars>>

ExitOptOut(t) ==
    /\ pc[t] = "optout"
    /\ OptOut(t)
    /\ IF rpc'[t] = "out"
         THEN /\ Goto(t, IF t = Main THEN "joining" ELSE "done")
              /\ local_seen' = [local_seen EXCEPT ![t] = Null]
         ELSE UNCHANGED <<pc, local_seen>>
    /\ UNCHANGED <<setState, next, arg, pos, hand, target, resume>>

\* The initial thread has joined all others and takes the set back.
Reacquire(t) ==
    /\ pc[t] = "joining"
    /\ \A u \in Threads \ {t} : rpc[u] \in {"out", "idle"}
    /\ local_seen' = [local_seen EXCEPT ![t] = global_seen.ptr]
    /\ global_seen' = RefcountedPtrGet(global_seen)
    /\ Goto(t, "done")
    /\ UNCHANGED <<heap, next_global_seen, next_migration, seen_count,
                   set_expand_mutex, next, arg, pos, hand, target, resume,
                   rendezvousVars>>

-----------------------------------------------------------------------------

\* Undefined behaviour: a second free of the same table, or an access outside a
\* table's slots.  The model stops there.
Abort(t) ==
    /\ \/ rpc[t] \in {"lead", "outlead"} /\ FreesTwice(t)
       \/ pc[t] = "take" /\ pos[t] >= heap[local_seen[t]].size
    /\ aborted' = TRUE
    /\ UNCHANGED <<setState, threadState, rendezvousVars>>

InsertStep(t) ==
    \/ CheckOccupancy(t)
    \/ Probe(t)
    \/ CompareAndSwap(t)
    \/ CountInsertion(t)
    \/ SetExpand(t)
    \/ SetExpandLock(t)
    \/ SetExpandAllocate(t)
    \/ MigrateGet(t)
    \/ MigrateChunk(t)
    \/ MigrateTake(t)
    \/ MigratePlace(t)
    \/ MigratePut(t)
    \/ MeetArrive(t)
    \/ MeetWait(t)
    \/ MeetLead(t)
    \/ MeetDepart(t)
    \/ MeetLeave(t)
    \/ ExitOptOut(t)
    \/ Reacquire(t)

\* What the caller decides: insert a state or finish.
CallerStep(t) == Exit(t) \/ \E s \in States : Insert(t, s)

ThreadStep(t) ==
    /\ ~aborted
    /\ \/ SetThreadInit(t) /\ UNCHANGED aborted
       \/ InsertStep(t) /\ UNCHANGED aborted
       \/ Abort(t)

ExploreStep(t) ==
    /\ ~aborted
    /\ UNCHANGED aborted
    /\ CallerStep(t)

Finished ==
    /\ aborted \/ pc[Main] = "done"
    /\ UNCHANGED vars

Next ==
    \/ \E t \in Threads :
          \/ ThreadStep(t)
          \/ ExploreStep(t)
          \/ ~aborted /\ UNCHANGED aborted /\ StartThreads(t)
    \/ Finished

\* A created thread runs, a thread inside set_insert or exit_with goes on, and
\* one that explores inserts more states or exits.
Fairness ==
    \A t \in Threads :
        /\ WF_vars(ThreadStep(t))
        /\ WF_vars(ExploreStep(t))

Spec == Init /\ [][Next]_vars
FairSpec == Spec /\ Fairness

-----------------------------------------------------------------------------
(***************************************************************************)
(* Properties                                                              *)
(***************************************************************************)

Slots == States \cup {Empty, Tombstone}
Pointers == 0..Len(heap)
Labels == {"unborn", "idle", "check", "probe", "cas", "count", "expand", "lock",
           "alloc", "get", "chunk", "take", "place", "put", "meet", "optout",
           "joining", "done"}

\* Every variable holds a value of its C type; a live table has one slot value
\* per index.
TypeOK ==
    /\ RendezvousTypeOK
    /\ \A k \in 1..Len(heap) :
          /\ heap[k].size \in Nat
          /\ heap[k].freed \in BOOLEAN
          /\ ~heap[k].freed => heap[k].bucket \in [0..heap[k].size-1 -> Slots]
    /\ {global_seen, next_global_seen} \subseteq [ptr : Pointers, count : Nat]
    /\ {next_migration, seen_count} \subseteq Nat
    /\ set_expand_mutex \in Threads \cup {NoThread}
    /\ pc \in [Threads -> Labels]
    /\ {local_seen, next} \subseteq [Threads -> Pointers]
    /\ arg \in [Threads -> States \cup {Empty}]
    /\ hand \in [Threads -> States \cup {Empty}]
    /\ {pos, target} \subseteq [Threads -> Nat]
    /\ resume \in [Threads -> {"idle", "check", "probe"}]
    /\ aborted \in BOOLEAN

\* The tables that are still allocated, and where state s is: in slots of them,
\* or in the hands of threads that are moving it.
Live == {k \in 1..Len(heap) : ~heap[k].freed}
Places(s) ==
    {p \in Live \X (0..heap[Len(heap)].size - 1) :
        p[2] < heap[p[1]].size /\ heap[p[1]].bucket[p[2]] = s}
    \cup {t \in Threads : hand[t] = s}
Stored == {s \in States : Places(s) # {}}

\* set_migrate's comment "we know everything in the old set is unique": however
\* insertions, migrations and exits interleave, a state is in one place only, so
\* it is explored once and counted once.
StoredOnce == \A s \in States : Cardinality(Places(s)) <= 1

\* "seen set count is inconsistent at exit" (the assertion in exit_with): the
\* occupancy lags behind the table by the insertions not yet counted.
CountConsistent ==
    seen_count + Cardinality({t \in Threads : pc[t] = "count"}) = Cardinality(Stored)

\* A state in a table can be found by linear probing: no slot between the one
\* its hash selects and its own is empty, also while several threads shuffle
\* entries of the new table along.
Reachable ==
    \A k \in Live : \A i \in 0..heap[k].size - 1 :
        heap[k].bucket[i] \in States =>
            \A d \in 0..heap[k].size - 1 :
                LET from == SetIndex(k, Hash[heap[k].bucket[i]])
                IN  d <= (i + heap[k].size - from) % heap[k].size
                      => heap[k].bucket[SetIndex(k, from + d)] # Empty

UsesOld == {"check", "probe", "cas", "expand", "lock", "alloc", "get", "chunk",
            "take", "place", "put"}
UsesNew == {"chunk", "take", "place", "put", "meet"}

\* set_update frees the old table only when nobody can touch it any more, and
\* no table is freed while it is published or about to be used: a thread inside
\* set_insert, one that leads there and one that has just begun to exit have
\* tables that are allocated.  Whoever frees or touches anything else is a thread
\* that leads while it opts out in exit_with (see UpdateFreesCurrent) or one that
\* migrates beyond the last slot (see MigrationInBounds), and no other.
NoUseAfterFree ==
    /\ global_seen.ptr \in Live
    /\ next_global_seen.ptr \in Live \cup {Null}
    /\ \A t \in Threads :
          /\ \/ pc[t] \in UsesOld \cup {"idle"}
             \/ rpc[t] = "lead"
             \/ pc[t] = "optout" /\ rpc[t] = "run"
             => local_seen[t] \in Live
          /\ pc[t] \in UsesNew => next[t] \in Live
    /\ aborted => \E t \in Threads :
          \/ rpc[t] = "outlead" /\ FreesTwice(t)
          \/ pc[t] = "take" /\ pos[t] >= heap[local_seen[t]].size

\* set_migrate: "guarantee we only ever have at most two seen sets in flight".
\* Together with NoUseAfterFree: what is allocated is exactly what is published.
TwoInFlight == Live = {global_seen.ptr, next_global_seen.ptr} \ {Null}

\* refcounted_ptr_set, _put and _shift assert that counts are what the callers
\* think: each count is the number of threads that own a reference, so shift
\* never overwrites a pointer that is still referenced.
RefcountsAgree ==
    /\ global_seen.count =
         Cardinality({t \in Threads :
             \/ pc[t] \in UsesOld \cup {"idle", "count"}
             \/ t = Main /\ pc[t] = "done"
             \/ pc[t] = "meet" /\ next[t] = global_seen.ptr})
    /\ next_global_seen.count =
         Cardinality({t \in Threads :
             next[t] # Null /\ next[t] = next_global_seen.ptr})

\* "attempted double slot migration" (the assertion in set_migrate): a slot to
\* be taken has not been taken before.
MigratedOnce ==
    \A t \in Threads :
        pc[t] = "take" /\ pos[t] < heap[local_seen[t]].size
            => heap[local_seen[t]].bucket[pos[t]] # Tombstone

\* What set_insert, set_migrate and set_find rely on of the tables, however their
\* loops interleave.
TableSound == TypeOK /\ StoredOnce /\ CountConsistent /\ Reachable /\ MigratedOnce

\* The tables that exist are those the two shared pointers publish, and the counts
\* of these are the threads that hold them (refcounted_ptr_get, _put, _shift).
PublishedOnly == TwoInFlight /\ RefcountsAgree

\* set_update: "we rely on the caller to ensure this access is safe": the leader
\* frees the table that is current, and frees it once.
UpdateFreesCurrent ==
    \A t \in Threads :
        rpc[t] \in {"lead", "outlead"} /\ next_global_seen.ptr # Null
            => local_seen[t] = global_seen.ptr

\* set_migrate: the slots of a chunk are slots of the table.
MigrationInBounds ==
    \A t \in Threads : pc[t] = "take" => pos[t] < heap[local_seen[t]].size

\* Every insertion returns, although the thread may have to wait for all others
\* to come to the rendezvous and none of them is told to.
InsertReturns == \A t \in Threads : pc[t] = "check" ~> (pc[t] = "idle" \/ aborted)

\* exit_with gets past the rendezvous: a thread that exits while others migrate
\* cannot be made to lead their rendezvous for ever.
ExitReturns == \A t \in Threads : pc[t] = "optout" ~> (rpc[t] = "out" \/ aborted)

\* set_insert is linearizable: it takes effect at its compare-and-swap, or at
\* the load of the slot that holds the state already.
A == INSTANCE AbstractSeenSet
        WITH Callers <- Threads, Elements <- States, NoElement <- Empty,
             seen <- Stored,
             op <- [t \in Threads |-> [arg |-> arg[t], added |-> pc[t] = "count"]]

ImplementsSet == A!SetSpec
=============================================================================
