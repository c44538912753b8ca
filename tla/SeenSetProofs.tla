--------------------------- MODULE SeenSetProofs ---------------------------
(***************************************************************************)
(* Proofs about SeenSet, for every finite set of threads, every set of     *)
(* states and hash, and every size of the first table and of a chunk.      *)
(*                                                                         *)
(* NoUseAfterFree and PublishedOnly are not inductive: that the leader's   *)
(* free is the last use of the old table rests on where every other thread *)
(* is at the rendezvous (ControlAgrees), on which of the two tables each   *)
(* thread's pointers name at each of those points (OldPointers,            *)
(* NewPointers), and on what a tombstone in the current table tells the    *)
(* thread that reads it: that a migration is under way (TombstonesTell).   *)
(***************************************************************************)
EXTENDS SeenSet, RendezvousProofs

\* What a table is made of, freed or not.
Buckets == {<<>>} \cup UNION {[0..n-1 -> Slots] : n \in Nat}
Tables == [size : Nat \ {0}, bucket : Buckets, freed : BOOLEAN]

HeapTyped ==
    /\ heap \in Seq(Tables)
    /\ \A k \in 1..Len(heap) :
          ~heap[k].freed => heap[k].bucket \in [0..heap[k].size-1 -> Slots]

VarsTyped ==
    /\ global_seen \in [ptr : Nat, count : Nat]
    /\ next_global_seen \in [ptr : Nat, count : Nat]
    /\ next_migration \in Nat
    /\ seen_count \in Nat
    /\ set_expand_mutex \in Threads \cup {NoThread}
    /\ pc \in [Threads -> Labels]
    /\ local_seen \in [Threads -> Nat]
    /\ next \in [Threads -> Nat]
    /\ arg \in [Threads -> States \cup {Empty}]
    /\ pos \in [Threads -> Nat]
    /\ hand \in [Threads -> States \cup {Empty}]
    /\ target \in [Threads -> Nat]
    /\ resume \in [Threads -> {"idle", "check", "probe"}]
    /\ aborted \in BOOLEAN

\* A table is allocated exactly while one of the two shared pointers names it.
Published ==
    /\ global_seen.ptr \in 1..Len(heap)
    /\ next_global_seen.ptr \in 0..Len(heap)
    /\ global_seen.ptr # next_global_seen.ptr
    /\ \A k \in 1..Len(heap) :
          heap[k].freed <=> k # global_seen.ptr /\ k # next_global_seen.ptr

Migrating == {"chunk", "take", "place", "put"}
Inserting == {"check", "probe", "cas", "expand", "lock", "alloc", "get", "meet"}
                 \cup Migrating

\* Where a thread is in the rendezvous, and where in set_insert or exit_with.
ControlAgrees ==
    /\ \A t \in Threads :
          /\ rpc[t] \in {"idle", "new"} <=> pc[t] = "unborn"
          /\ rpc[t] \in {"follow", "wait", "woken", "lead", "led"} => pc[t] = "meet"
          /\ rpc[t] \in {"outlead", "outled", "outretry"} => pc[t] = "optout"
          /\ rpc[t] = "out" <=> pc[t] \in {"joining", "done"}
          /\ pc[t] = "joining" => t = Main
    /\ pc[Main] = "done" => \A t \in Threads : rpc[t] \in {"out", "idle"}

\* The leader has run set_update and not left the rendezvous yet.
UpdateDone == \E u \in Threads : rpc[u] \in {"led", "outled"}

\* Thread t holds a reference to the table it migrates to, and set_update has
\* not made that table the current one yet.
BeforeUpdate(t) ==
    \/ pc[t] \in Migrating
    \/ pc[t] = "meet" /\ rpc[t] \in {"run", "follow", "lead"}
    \/ pc[t] = "meet" /\ rpc[t] = "wait" /\ ~UpdateDone

\* ... or it has.
AfterUpdate(t) ==
    \/ pc[t] = "meet" /\ rpc[t] \in {"woken", "led"}
    \/ pc[t] = "meet" /\ rpc[t] = "wait" /\ UpdateDone

\* A thread that has opted out of the set may keep a stale pointer, to a table
\* that is freed for good.
OldPointers ==
    \A t \in Threads :
        /\ local_seen[t] \in 0..Len(heap)
        /\ pc[t] \in UsesOld \cup {"idle", "count"} => local_seen[t] = global_seen.ptr
        /\ pc[t] = "meet" /\ rpc[t] \in {"run", "follow", "lead"}
              => local_seen[t] = global_seen.ptr
        /\ pc[t] = "optout" /\ rpc[t] = "run" => local_seen[t] = global_seen.ptr
        /\ pc[t] = "optout" =>
              /\ local_seen[t] \in 1..Len(heap)
              /\ local_seen[t] # next_global_seen.ptr

NewPointers ==
    /\ \A t \in Threads :
          /\ pc[t] = "get" => next_global_seen.ptr # Null
          /\ BeforeUpdate(t) =>
                next[t] = next_global_seen.ptr /\ next_global_seen.ptr # Null
          /\ AfterUpdate(t) => next[t] = global_seen.ptr
          /\ pc[t] \notin Migrating \cup {"meet"} => next[t] = Null
    /\ UpdateDone => next_global_seen.ptr = Null

\* set_expand_mutex is held by the thread that allocates, and no table is under
\* way while it does.
ExpandLocked ==
    \A t \in Threads :
        /\ pc[t] = "alloc" <=> set_expand_mutex = t
        /\ pc[t] = "alloc" => next_global_seen.ptr = Null

\* What the thread is inserting, and what it carries to the new table.
ThreadsCarry ==
    \A t \in Threads :
        /\ pc[t] \in Inserting => arg[t] \in States
        /\ pc[t] \in {"expand", "lock", "alloc", "get", "meet"} \cup Migrating
              /\ rpc[t] \in {"run", "follow", "wait", "woken", "lead", "led"}
              => resume[t] \in {"check", "probe"}
        /\ pc[t] = "place" =>
              hand[t] \in States /\ target[t] < heap[next[t]].size
        /\ pc[t] # "place" => hand[t] = Empty

\* A tombstone in the current table is seen only during a migration, and there is
\* none in the next one.
TombstonesTell ==
    /\ next_global_seen.ptr = Null =>
          \A i \in 0..heap[global_seen.ptr].size - 1 :
              heap[global_seen.ptr].bucket[i] # Tombstone
    /\ next_global_seen.ptr # Null =>
          \A i \in 0..heap[next_global_seen.ptr].size - 1 :
              heap[next_global_seen.ptr].bucket[i] # Tombstone

\* The threads that hold a reference to either table.
OldHolders ==
    {t \in Threads :
        \/ pc[t] \in UsesOld \cup {"idle", "count"}
        \/ t = Main /\ pc[t] = "done"
        \/ pc[t] = "meet" /\ next[t] = global_seen.ptr}
NewHolders == {t \in Threads : next[t] # Null /\ next[t] = next_global_seen.ptr}

CountsRight ==
    /\ global_seen.count = Cardinality(OldHolders)
    /\ next_global_seen.count = Cardinality(NewHolders)

MemoryInv ==
    /\ RendezvousInv
    /\ HeapTyped
    /\ VarsTyped
    /\ Published
    /\ ControlAgrees
    /\ OldPointers
    /\ NewPointers
    /\ ExpandLocked
    /\ ThreadsCarry
    /\ TombstonesTell
    /\ CountsRight

-----------------------------------------------------------------------------
(***************************************************************************)
(* Facts about the model's operators.                                      *)
(***************************************************************************)

\* The index of a slot is in range.
LEMMA RemainderInRange ==
    \A a \in Nat : \A b \in Nat \ {0} : a % b \in 0..b-1
OBVIOUS

LEMMA TableFields ==
    ASSUME HeapTyped, NEW k \in 1..Len(heap)
    PROVE  /\ heap[k] \in Tables
           /\ heap[k].size \in Nat \ {0}
           /\ heap[k].freed \in BOOLEAN
<1>1. heap[k] \in Tables
  BY DEF HeapTyped
<1>. QED
  BY <1>1 DEF Tables

WritesSlot(k, i, v) == heap' = [heap EXCEPT ![k].bucket[i] = v]

OnlySlotChanges(k, i, v) ==
    /\ HeapTyped'
    /\ Len(heap') = Len(heap)
    /\ \A j \in 1..Len(heap) :
          heap'[j].size = heap[j].size /\ heap'[j].freed = heap[j].freed
    /\ \A j \in 1..Len(heap) \ {k} : heap'[j] = heap[j]
    /\ heap'[k].bucket \in [0..heap[k].size-1 -> Slots]
    /\ heap'[k].bucket[i] = v
    /\ \A j \in 0..heap[k].size - 1 :
          j # i => heap'[k].bucket[j] = heap[k].bucket[j]

\* A write to a slot of a table that is allocated changes that slot only.
LEMMA SlotWrite ==
    ASSUME HeapTyped, NEW k \in 1..Len(heap), ~heap[k].freed,
           NEW i \in 0..heap[k].size - 1, NEW v \in Slots,
           WritesSlot(k, i, v)
    PROVE  OnlySlotChanges(k, i, v)
<1>1. heap[k] \in Tables /\ heap[k].size \in Nat
  BY TableFields
<1>2. heap[k].bucket \in [0..heap[k].size-1 -> Slots]
  BY DEF HeapTyped
<1>3. PICK b : b = [heap[k].bucket EXCEPT ![i] = v]
  OBVIOUS
<1>4. b \in [0..heap[k].size-1 -> Slots] /\ b \in Buckets
  BY <1>1, <1>2, <1>3 DEF Buckets
<1>5. PICK x : x = [heap[k] EXCEPT !.bucket = b]
  OBVIOUS
<1>6. x \in Tables /\ x.bucket = b /\ x.size = heap[k].size /\ x.freed = heap[k].freed
  BY <1>1, <1>4, <1>5 DEF Tables
<1>7. heap' = [heap EXCEPT ![k] = x]
  BY <1>3, <1>5 DEF WritesSlot
<1>8. heap \in Seq(Tables)
  BY DEF HeapTyped
<1>9. /\ heap' \in Seq(Tables) /\ Len(heap') = Len(heap)
      /\ \A j \in 1..Len(heap) \ {k} : heap'[j] = heap[j]
      /\ heap'[k] = x
  BY <1>6, <1>7, <1>8
<1>10. HeapTyped'
  BY <1>4, <1>6, <1>9 DEF HeapTyped
<1>. QED
  BY <1>2, <1>3, <1>4, <1>6, <1>9, <1>10 DEF OnlySlotChanges

-----------------------------------------------------------------------------
(***************************************************************************)
(* Where a thread can be.                                                  *)
(***************************************************************************)

\* A thread inside set_insert is outside the rendezvous, until it meets the
\* others there, and no leader is between set_update and its departure then.
LEMMA RunsOutside ==
    ASSUME MemoryInv, NEW t \in Threads, pc[t] \in UsesOld \cup {"idle", "count"}
    PROVE  rpc[t] = "run" /\ ~UpdateDone
<1>1. rpc[t] \in RPC
  BY DEF MemoryInv, RendezvousInv, RendezvousTypeOK
<1>2. rpc[t] = "run"
  BY <1>1 DEF MemoryInv, ControlAgrees, RPC, UsesOld
<1>3. LeaderAlone
  BY InvImpliesLeaderAlone DEF MemoryInv
<1>. QED
  BY <1>2, <1>3 DEF LeaderAlone, UpdateDone, Leading

\* The tables a thread inside set_insert works on are allocated.
LEMMA OldTableLive ==
    ASSUME MemoryInv, NEW t \in Threads, pc[t] \in UsesOld \cup {"idle", "count"}
    PROVE  /\ local_seen[t] = global_seen.ptr
           /\ local_seen[t] \in 1..Len(heap)
           /\ ~heap[local_seen[t]].freed
           /\ heap[local_seen[t]].size \in Nat \ {0}
           /\ heap[local_seen[t]].bucket \in [0..heap[local_seen[t]].size-1 -> Slots]
<1>1. local_seen[t] = global_seen.ptr /\ global_seen.ptr \in 1..Len(heap)
  BY DEF MemoryInv, OldPointers, Published
<1>2. ~heap[global_seen.ptr].freed
  BY DEF MemoryInv, Published
<1>3. HeapTyped
  BY DEF MemoryInv
<1>. QED
  BY <1>1, <1>2, <1>3, TableFields DEF HeapTyped

LEMMA NewTableLive ==
    ASSUME MemoryInv, NEW t \in Threads, BeforeUpdate(t)
    PROVE  /\ next[t] = next_global_seen.ptr
           /\ next[t] \in 1..Len(heap)
           /\ next[t] # global_seen.ptr
           /\ ~heap[next[t]].freed
           /\ heap[next[t]].size \in Nat \ {0}
           /\ heap[next[t]].bucket \in [0..heap[next[t]].size-1 -> Slots]
<1>1. /\ next[t] = next_global_seen.ptr /\ next_global_seen.ptr \in 1..Len(heap)
      /\ next_global_seen.ptr # global_seen.ptr
  BY DEF MemoryInv, NewPointers, Published, Null
<1>2. ~heap[next_global_seen.ptr].freed
  BY <1>1 DEF MemoryInv, Published
<1>3. HeapTyped
  BY DEF MemoryInv
<1>. QED
  BY <1>1, <1>2, <1>3, TableFields DEF HeapTyped

\* The slot set_insert looks at is a slot of the current table.
LEMMA ProbedSlotInRange ==
    ASSUME MemoryInv, NEW t \in Threads, pc[t] \in {"probe", "cas"}
    PROVE  /\ ProbedSlot(t) \in 0..heap[local_seen[t]].size - 1
           /\ heap[local_seen[t]].bucket[ProbedSlot(t)] \in Slots
           /\ arg[t] \in States
<1>1. heap[local_seen[t]].size \in Nat \ {0}
      /\ heap[local_seen[t]].bucket \in [0..heap[local_seen[t]].size-1 -> Slots]
  BY OldTableLive DEF UsesOld
<1>2. arg[t] \in States /\ pos[t] \in Nat
  BY DEF MemoryInv, ThreadsCarry, Inserting, VarsTyped
<1>3. Hash[arg[t]] + pos[t] \in Nat
  BY <1>2, SeenSetAssumption
<1>4. ProbedSlot(t) \in 0..heap[local_seen[t]].size - 1
  BY <1>1, <1>3, RemainderInRange DEF ProbedSlot, SetIndex
<1>. QED
  BY <1>1, <1>2, <1>4

LEMMA HoldersFinite ==
    /\ IsFiniteSet(OldHolders) /\ Cardinality(OldHolders) \in Nat
    /\ IsFiniteSet(NewHolders) /\ Cardinality(NewHolders) \in Nat
<1>1. OldHolders \subseteq Threads /\ NewHolders \subseteq Threads
  BY DEF OldHolders, NewHolders
<1>2. IsFiniteSet(OldHolders) /\ IsFiniteSet(NewHolders)
  BY <1>1, ThreadsAssumption, FS_Subset
<1>. QED
  BY <1>2, FS_CardinalityType

\* set_insert before it joins a migration.
OutsideMigration == (UsesOld \cup {"idle", "count"}) \ (Migrating \cup {"alloc"})

\* A step of a thread from one point of set_insert to another, where it neither
\* migrates nor holds set_expand_mutex, gets and gives up no reference.
LEMMA StaysOutsideMigration ==
    ASSUME MemoryInv, NEW t \in Threads, NEW l \in OutsideMigration,
           pc[t] \in OutsideMigration, pc' = [pc EXCEPT ![t] = l],
           l = "get" => next_global_seen.ptr # Null,
           Len(heap') = Len(heap),
           UNCHANGED <<global_seen, next_global_seen, set_expand_mutex, local_seen,
                       next, rendezvousVars>>
    PROVE  /\ RendezvousInv' /\ ControlAgrees' /\ OldPointers' /\ NewPointers'
           /\ ExpandLocked' /\ CountsRight'
<1>. USE DEF MemoryInv, rendezvousVars
<1>1. RendezvousInv'
  BY NextPreserves
<1>2. ControlAgrees'
  BY SMTT(30) DEF ControlAgrees, VarsTyped, OutsideMigration, UsesOld
<1>3. OldPointers'
  BY DEF OldPointers, VarsTyped, OutsideMigration, UsesOld
<1>4. NewPointers'
  BY SMTT(30) DEF NewPointers, VarsTyped, BeforeUpdate, AfterUpdate, UpdateDone, Migrating,
         OutsideMigration, UsesOld
<1>5. ExpandLocked'
  BY DEF ExpandLocked, VarsTyped, OutsideMigration
<1>6. OldHolders' = OldHolders /\ NewHolders' = NewHolders
  BY SMTT(30) DEF OldHolders, NewHolders, VarsTyped, OutsideMigration, UsesOld
<1>7. CountsRight'
  BY <1>6 DEF CountsRight
<1>. QED
  BY <1>1, <1>2, <1>3, <1>4, <1>5, <1>7

\* A step that leaves the tables and the shared pointers alone.
LEMMA TablesUntouched ==
    ASSUME MemoryInv, UNCHANGED <<heap, global_seen, next_global_seen>>
    PROVE  HeapTyped' /\ Published' /\ TombstonesTell'
BY DEF MemoryInv, HeapTyped, Published, TombstonesTell

LEMMA InsertPreserves ==
    ASSUME MemoryInv, NEW t \in Threads, NEW s \in States, Insert(t, s), UNCHANGED aborted
    PROVE  MemoryInv'
<1>. USE DEF Insert, Goto, setState
<1>1. VarsTyped'
  BY DEF MemoryInv, VarsTyped, Labels
<1>2. RendezvousInv' /\ ControlAgrees' /\ OldPointers' /\ NewPointers'
      /\ ExpandLocked' /\ CountsRight'
  BY StaysOutsideMigration DEF OutsideMigration, UsesOld, Migrating
<1>3. ThreadsCarry'
  BY DEF MemoryInv, ThreadsCarry, VarsTyped, Inserting, Migrating, rendezvousVars
<1>. QED
  BY <1>1, <1>2, <1>3, TablesUntouched DEF MemoryInv

LEMMA CheckOccupancyPreserves ==
    ASSUME MemoryInv, NEW t \in Threads, CheckOccupancy(t), UNCHANGED aborted
    PROVE  MemoryInv'
<1>. USE DEF CheckOccupancy, Goto, setState
<1>0. PICK l \in {"expand", "probe"} : pc' = [pc EXCEPT ![t] = l]
  OBVIOUS
<1>1. VarsTyped'
  BY DEF MemoryInv, VarsTyped, Labels
<1>2. RendezvousInv' /\ ControlAgrees' /\ OldPointers' /\ NewPointers'
      /\ ExpandLocked' /\ CountsRight'
  BY <1>0, StaysOutsideMigration DEF OutsideMigration, UsesOld, Migrating
<1>3. ThreadsCarry'
  BY <1>0 DEF MemoryInv, ThreadsCarry, VarsTyped, Inserting, Migrating, rendezvousVars
<1>. QED
  BY <1>1, <1>2, <1>3, TablesUntouched DEF MemoryInv

\* What a thread does about an occupied slot: it leaves the slot alone, and goes
\* to migrate only if there is something to migrate to.
LEMMA OccupiedPreserves ==
    ASSUME MemoryInv, NEW t \in Threads, pc[t] \in {"probe", "cas"},
           NEW c \in Slots, c = heap[local_seen[t]].bucket[ProbedSlot(t)],
           Occupied(t, c),
           UNCHANGED <<setState, local_seen, next, hand, target, rendezvousVars>>,
           UNCHANGED aborted
    PROVE  MemoryInv'
<1>. USE DEF Goto, setState
<1>1. PICK l \in {"get", "idle", "probe", "expand"} :
        /\ pc' = [pc EXCEPT ![t] = l]
        /\ l = "get" => c = Tombstone /\ resume' = [resume EXCEPT ![t] = "check"]
        /\ l = "expand" => resume' = [resume EXCEPT ![t] = "check"]
        /\ l \in {"probe", "idle"} => UNCHANGED resume
        /\ l # "idle" => UNCHANGED arg
        /\ l = "idle" => arg' = [arg EXCEPT ![t] = Empty]
        /\ pos' \in {pos, [pos EXCEPT ![t] = 0], [pos EXCEPT ![t] = @ + 1]}
  BY DEF Occupied
<1>2. l = "get" => next_global_seen.ptr # Null
  BY <1>1, ProbedSlotInRange, OldTableLive DEF MemoryInv, TombstonesTell, UsesOld
<1>3. VarsTyped'
  BY <1>1 DEF MemoryInv, VarsTyped, Labels
<1>4. RendezvousInv' /\ ControlAgrees' /\ OldPointers' /\ NewPointers'
      /\ ExpandLocked' /\ CountsRight'
  BY <1>1, <1>2, StaysOutsideMigration DEF OutsideMigration, UsesOld, Migrating
<1>5. ThreadsCarry'
  BY <1>1 DEF MemoryInv, ThreadsCarry, VarsTyped, Inserting, Migrating, rendezvousVars
<1>. QED
  BY <1>3, <1>4, <1>5, TablesUntouched DEF MemoryInv

LEMMA ProbePreserves ==
    ASSUME MemoryInv, NEW t \in Threads, Probe(t), UNCHANGED aborted
    PROVE  MemoryInv'
<1>. DEFINE c == heap[local_seen[t]].bucket[ProbedSlot(t)]
<1>0. c \in Slots
  BY ProbedSlotInRange DEF Probe
<1>1. CASE Occupied(t, c)
  BY <1>0, <1>1, OccupiedPreserves DEF Probe
<1>2. CASE Goto(t, "cas") /\ UNCHANGED <<arg, pos, resume>>
  <2>. USE <1>2 DEF Probe, Goto, setState
  <2>1. VarsTyped'
    BY DEF MemoryInv, VarsTyped, Labels
  <2>2. RendezvousInv' /\ ControlAgrees' /\ OldPointers' /\ NewPointers'
        /\ ExpandLocked' /\ CountsRight'
    BY StaysOutsideMigration DEF OutsideMigration, UsesOld, Migrating
  <2>3. ThreadsCarry'
    BY DEF MemoryInv, ThreadsCarry, VarsTyped, Inserting, Migrating, rendezvousVars
  <2>. QED
    BY <2>1, <2>2, <2>3, TablesUntouched DEF MemoryInv
<1>. QED
  BY <1>1, <1>2 DEF Probe

\* The compare-and-swap writes to the current table a state, not a tombstone.
LEMMA CompareAndSwapPreserves ==
    ASSUME MemoryInv, NEW t \in Threads, CompareAndSwap(t), UNCHANGED aborted
    PROVE  MemoryInv'
<1>. DEFINE i == ProbedSlot(t)
            c == heap[local_seen[t]].bucket[i]
<1>0. c \in Slots /\ pc[t] = "cas"
  BY ProbedSlotInRange DEF CompareAndSwap
<1>1. CASE Occupied(t, c) /\ UNCHANGED heap
  BY <1>0, <1>1, OccupiedPreserves DEF CompareAndSwap, setState
<1>2. CASE /\ heap' = [heap EXCEPT ![local_seen[t]].bucket[i] = arg[t]]
           /\ Goto(t, "count") /\ UNCHANGED <<arg, pos, resume>>
  <2>1. /\ i \in 0..heap[local_seen[t]].size - 1
        /\ arg[t] \in Slots /\ arg[t] # Tombstone
    BY <1>0, ProbedSlotInRange, SeenSetAssumption DEF Slots
  <2>2. /\ local_seen[t] \in 1..Len(heap) /\ ~heap[local_seen[t]].freed
        /\ local_seen[t] = global_seen.ptr
    BY <1>0, OldTableLive DEF UsesOld
  <2>3. OnlySlotChanges(local_seen[t], i, arg[t])
    <3>1. HeapTyped
      BY DEF MemoryInv
    <3>2. WritesSlot(local_seen[t], i, arg[t])
      BY <1>2 DEF WritesSlot
    <3>. QED
      BY <2>1, <2>2, <3>1, <3>2, SlotWrite
  <2>4. VarsTyped'
    BY <1>2 DEF MemoryInv, VarsTyped, Labels, CompareAndSwap, Goto
  <2>5. RendezvousInv' /\ ControlAgrees' /\ OldPointers' /\ NewPointers'
        /\ ExpandLocked' /\ CountsRight'
    BY <1>0, <1>2, <2>3, StaysOutsideMigration
    DEF OutsideMigration, UsesOld, Migrating, CompareAndSwap, Goto, OnlySlotChanges
  <2>6. Published'
    BY <2>3 DEF CompareAndSwap, MemoryInv, Published, OnlySlotChanges
  <2>7. TombstonesTell'
    BY <2>1, <2>2, <2>3
    DEF CompareAndSwap, MemoryInv, TombstonesTell, Published, Null, OnlySlotChanges
  <2>8. ThreadsCarry'
    <3>1. \A u \in Threads : pc[u] = "place" => next[u] \in 1..Len(heap)
      BY NewTableLive DEF BeforeUpdate, Migrating
    <3>. QED
      BY SMTT(30), <1>2, <2>3, <3>1
      DEF MemoryInv, ThreadsCarry, VarsTyped, Inserting, Migrating, rendezvousVars,
          CompareAndSwap, Goto, OnlySlotChanges
  <2>. QED
    BY <2>3, <2>4, <2>5, <2>6, <2>7, <2>8 DEF MemoryInv, OnlySlotChanges
<1>. QED
  BY <1>1, <1>2 DEF CompareAndSwap

LEMMA CountInsertionPreserves ==
    ASSUME MemoryInv, NEW t \in Threads, CountInsertion(t), UNCHANGED aborted
    PROVE  MemoryInv'
<1>. USE DEF CountInsertion, Goto
<1>1. VarsTyped'
  BY DEF MemoryInv, VarsTyped, Labels
<1>2. RendezvousInv' /\ ControlAgrees' /\ OldPointers' /\ NewPointers'
      /\ ExpandLocked' /\ CountsRight'
  BY StaysOutsideMigration DEF OutsideMigration, UsesOld, Migrating
<1>3. ThreadsCarry'
  BY DEF MemoryInv, ThreadsCarry, VarsTyped, Inserting, Migrating, rendezvousVars
<1>. QED
  BY <1>1, <1>2, <1>3, TablesUntouched DEF MemoryInv

LEMMA SetExpandPreserves ==
    ASSUME MemoryInv, NEW t \in Threads, SetExpand(t), UNCHANGED aborted
    PROVE  MemoryInv'
<1>. USE DEF SetExpand, Goto, setState
<1>0. PICK l \in {"get", "lock"} :
        /\ pc' = [pc EXCEPT ![t] = l]
        /\ l = "get" => next_global_seen.ptr # Null
  OBVIOUS
<1>1. VarsTyped'
  BY DEF MemoryInv, VarsTyped, Labels
<1>2. RendezvousInv' /\ ControlAgrees' /\ OldPointers' /\ NewPointers'
      /\ ExpandLocked' /\ CountsRight'
  BY <1>0, StaysOutsideMigration DEF OutsideMigration, UsesOld, Migrating
<1>3. ThreadsCarry'
  BY <1>0 DEF MemoryInv, ThreadsCarry, VarsTyped, Inserting, Migrating, rendezvousVars
<1>. QED
  BY <1>1, <1>2, <1>3, TablesUntouched DEF MemoryInv

LEMMA SetExpandLockPreserves ==
    ASSUME MemoryInv, NEW t \in Threads, SetExpandLock(t), UNCHANGED aborted
    PROVE  MemoryInv'
<1>. USE DEF SetExpandLock, Goto
<1>0. PICK l \in {"get", "alloc"} :
        /\ pc' = [pc EXCEPT ![t] = l]
        /\ l = "get" => next_global_seen.ptr # Null /\ UNCHANGED set_expand_mutex
        /\ l = "alloc" => next_global_seen.ptr = Null /\ set_expand_mutex' = t
  OBVIOUS
<1>1. VarsTyped'
  BY <1>0 DEF MemoryInv, VarsTyped, Labels
<1>2. ThreadsCarry'
  BY <1>0 DEF MemoryInv, ThreadsCarry, VarsTyped, Inserting, Migrating, rendezvousVars
<1>3. RendezvousInv' /\ ControlAgrees' /\ OldPointers' /\ NewPointers'
      /\ ExpandLocked' /\ CountsRight'
  <2>1. CASE l = "get"
    BY <1>0, <2>1, StaysOutsideMigration DEF OutsideMigration, UsesOld, Migrating
  <2>2. CASE l = "alloc"
    <3>. USE <1>0, <2>2 DEF MemoryInv, rendezvousVars
    <3>1. RendezvousInv'
      BY NextPreserves
    <3>2. ControlAgrees' /\ OldPointers'
      BY SMTT(30) DEF ControlAgrees, OldPointers, VarsTyped, UsesOld
    <3>3. NewPointers'
      BY DEF NewPointers, VarsTyped, BeforeUpdate, AfterUpdate, UpdateDone, Migrating
    <3>4. ExpandLocked'
      BY ThreadsAssumption DEF ExpandLocked, VarsTyped
    <3>5. OldHolders' = OldHolders /\ NewHolders' = NewHolders
      BY DEF OldHolders, NewHolders, VarsTyped, UsesOld
    <3>. QED
      BY <3>1, <3>2, <3>3, <3>4, <3>5 DEF CountsRight
  <2>. QED
    BY <2>1, <2>2
<1>. QED
  BY <1>1, <1>2, <1>3, TablesUntouched DEF MemoryInv

\* A table at the end of the heap is a new one.
LEMMA HeapAppend ==
    ASSUME HeapTyped, NEW x \in Tables, ~x.freed,
           x.bucket \in [0..x.size-1 -> Slots], heap' = Append(heap, x)
    PROVE  /\ HeapTyped'
           /\ Len(heap') = Len(heap) + 1
           /\ Len(heap) \in Nat
           /\ heap'[Len(heap) + 1] = x
           /\ \A k \in 1..Len(heap) : heap'[k] = heap[k]
<1>1. heap \in Seq(Tables) /\ Len(heap) \in Nat
  BY DEF HeapTyped
<1>2. /\ heap' \in Seq(Tables)
      /\ Len(heap') = Len(heap) + 1
      /\ heap'[Len(heap) + 1] = x
      /\ \A k \in 1..Len(heap) : heap'[k] = heap[k]
  BY <1>1
<1>. QED
  BY <1>1, <1>2 DEF HeapTyped

\* Only the thread with the mutex allocates, when nobody has a table under way.
LEMMA SetExpandAllocatePreserves ==
    ASSUME MemoryInv, NEW t \in Threads, SetExpandAllocate(t), UNCHANGED aborted
    PROVE  MemoryInv'
<1>. DEFINE size == 2 * heap[local_seen[t]].size
            x == EmptyTable(size)
<1>. USE DEF SetExpandAllocate, Goto
<1>0. pc[t] = "alloc" /\ rpc[t] = "run" /\ ~UpdateDone /\ next_global_seen.ptr = Null
  BY RunsOutside DEF MemoryInv, ExpandLocked, UsesOld
<1>1. size \in Nat \ {0}
  BY <1>0, OldTableLive DEF UsesOld
<1>2. /\ x \in Tables /\ ~x.freed /\ x.size = size
      /\ x.bucket \in [0..x.size-1 -> Slots]
      /\ \A i \in 0..x.size-1 : x.bucket[i] # Tombstone
  <2>. HIDE DEF size
  <2>. DEFINE b == [i \in 0..size-1 |-> Empty]
  <2>1. b \in [0..size-1 -> Slots] /\ \A i \in 0..size-1 : b[i] # Tombstone
    BY SeenSetAssumption DEF Slots
  <2>2. b \in Buckets
    BY <1>1, <2>1 DEF Buckets
  <2>. QED
    BY <1>1, <2>1, <2>2 DEF EmptyTable, Tables
<1>3. HeapTyped
  BY DEF MemoryInv
<1>4. heap' = Append(heap, x)
  OBVIOUS
<1>. HIDE DEF x
<1>5. /\ HeapTyped' /\ Len(heap') = Len(heap) + 1 /\ Len(heap) \in Nat
      /\ heap'[Len(heap) + 1] = x
      /\ \A k \in 1..Len(heap) : heap'[k] = heap[k]
  BY <1>2, <1>3, <1>4, HeapAppend
<1>6. /\ next_global_seen' = [ptr |-> Len(heap) + 1, count |-> 0]
      /\ pc' = [pc EXCEPT ![t] = "get"]
  BY <1>5
<1>7. VarsTyped'
  BY SMTT(30), <1>5, <1>6 DEF MemoryInv, VarsTyped, Labels
<1>8. RendezvousInv'
  BY NextPreserves DEF MemoryInv, rendezvousVars
<1>9. Published'
  BY <1>0, <1>2, <1>5, <1>6 DEF MemoryInv, Published, Null
<1>10. ControlAgrees'
  BY SMTT(30), <1>0 DEF MemoryInv, ControlAgrees, VarsTyped, rendezvousVars
<1>11. OldPointers'
  BY SMTT(30), <1>0, <1>5, <1>6 DEF MemoryInv, OldPointers, VarsTyped, UsesOld, rendezvousVars, Published
<1>12. NewPointers'
  BY SMTT(30), <1>0, <1>5, <1>6
  DEF MemoryInv, NewPointers, VarsTyped, BeforeUpdate, AfterUpdate, UpdateDone,
      Migrating, rendezvousVars, Null
<1>13. ExpandLocked'
  BY <1>0, ThreadsAssumption DEF MemoryInv, ExpandLocked, VarsTyped
<1>14. ThreadsCarry'
  <2>1. \A u \in Threads : pc[u] # "place"
    BY <1>0 DEF MemoryInv, NewPointers, BeforeUpdate, Migrating
  <2>. QED
    BY <1>0, <2>1
    DEF MemoryInv, ThreadsCarry, VarsTyped, Inserting, Migrating, rendezvousVars
<1>15. TombstonesTell'
  BY <1>2, <1>5, <1>6, <1>9, <1>0 DEF MemoryInv, TombstonesTell, Published, Null
<1>16. OldHolders' = OldHolders /\ NewHolders' = {}
  <2>1. \A u \in Threads : next[u] # Null => next[u] = global_seen.ptr
    BY <1>0
    DEF MemoryInv, NewPointers, VarsTyped, BeforeUpdate, AfterUpdate, ControlAgrees,
        RendezvousInv, RendezvousTypeOK, RPC
  <2>. QED
    BY SMTT(30), <1>0, <1>5, <1>6, <2>1
    DEF OldHolders, NewHolders, MemoryInv, VarsTyped, UsesOld, Published
<1>17. CountsRight'
  BY <1>6, <1>16, FS_EmptySet DEF CountsRight, MemoryInv
<1>. QED
  BY <1>5, <1>7, <1>8, <1>9, <1>10, <1>11, <1>12, <1>13, <1>14, <1>15, <1>17
  DEF MemoryInv

\* refcounted_ptr_get: one more thread has a reference to the next table.
LEMMA MigrateGetPreserves ==
    ASSUME MemoryInv, NEW t \in Threads, MigrateGet(t), UNCHANGED aborted
    PROVE  MemoryInv'
<1>. USE DEF MigrateGet, Goto, RefcountedPtrGet
<1>0. /\ pc[t] = "get" /\ rpc[t] = "run" /\ ~UpdateDone
      /\ next_global_seen.ptr # Null /\ next[t] = Null
      /\ next_global_seen \in [ptr : Nat, count : Nat]
  BY RunsOutside DEF MemoryInv, NewPointers, UsesOld, Migrating, VarsTyped
<1>1. /\ next_global_seen' \in [ptr : Nat, count : Nat]
      /\ next_global_seen'.ptr = next_global_seen.ptr
      /\ next_global_seen'.count = next_global_seen.count + 1
  BY <1>0
<1>2. VarsTyped'
  BY <1>0, <1>1 DEF MemoryInv, VarsTyped, Labels
<1>3. RendezvousInv'
  BY NextPreserves DEF MemoryInv, rendezvousVars
<1>4. HeapTyped' /\ Published' /\ TombstonesTell'
  BY <1>1 DEF MemoryInv, HeapTyped, Published, TombstonesTell
<1>5. ControlAgrees'
  BY <1>0 DEF MemoryInv, ControlAgrees, VarsTyped, rendezvousVars
<1>6. OldPointers'
  BY <1>0, <1>1 DEF MemoryInv, OldPointers, VarsTyped, UsesOld, rendezvousVars
<1>7. NewPointers'
  BY <1>0, <1>1
  DEF MemoryInv, NewPointers, VarsTyped, BeforeUpdate, AfterUpdate, UpdateDone,
      Migrating, rendezvousVars
<1>8. ExpandLocked'
  BY <1>0, <1>1 DEF MemoryInv, ExpandLocked, VarsTyped
<1>9. ThreadsCarry'
  BY <1>0 DEF MemoryInv, ThreadsCarry, VarsTyped, Inserting, Migrating, rendezvousVars
<1>10. OldHolders' = OldHolders /\ NewHolders' = NewHolders \cup {t} /\ t \notin NewHolders
  BY SMTT(30), <1>0, <1>1
  DEF MemoryInv, OldHolders, NewHolders, VarsTyped, UsesOld, Published
<1>11. CountsRight'
  <2>1. Cardinality(NewHolders \cup {t}) = Cardinality(NewHolders) + 1
    BY <1>10, HoldersFinite, FS_AddElement
  <2>2. CountsRight /\ global_seen' = global_seen
    BY DEF MemoryInv
  <2>. QED
    BY <1>1, <1>10, <2>1, <2>2 DEF CountsRight
<1>. QED
  BY <1>2, <1>3, <1>4, <1>5, <1>6, <1>7, <1>8, <1>9, <1>11 DEF MemoryInv

\* A step of a thread inside the loops of set_migrate gets and gives up no
\* reference.
LEMMA StaysInMigration ==
    ASSUME MemoryInv, NEW t \in Threads, NEW l \in Migrating, pc[t] \in Migrating,
           pc' = [pc EXCEPT ![t] = l], Len(heap') = Len(heap),
           UNCHANGED <<global_seen, next_global_seen, set_expand_mutex, local_seen,
                       next, rendezvousVars>>
    PROVE  /\ RendezvousInv' /\ ControlAgrees' /\ OldPointers' /\ NewPointers'
           /\ ExpandLocked' /\ CountsRight'
<1>. USE DEF MemoryInv, rendezvousVars
<1>0. rpc[t] = "run" /\ ~UpdateDone
  BY RunsOutside DEF Migrating, UsesOld
<1>1. RendezvousInv'
  BY NextPreserves
<1>2. ControlAgrees'
  BY SMTT(30), <1>0 DEF ControlAgrees, VarsTyped, Migrating
<1>3. OldPointers'
  BY DEF OldPointers, VarsTyped, UsesOld, Migrating
<1>4. NewPointers'
  BY <1>0
  DEF NewPointers, VarsTyped, BeforeUpdate, AfterUpdate, UpdateDone, Migrating
<1>5. ExpandLocked'
  BY DEF ExpandLocked, VarsTyped, Migrating
<1>6. OldHolders' = OldHolders /\ NewHolders' = NewHolders
  BY SMTT(30) DEF OldHolders, NewHolders, VarsTyped, UsesOld, Migrating
<1>7. CountsRight'
  BY <1>6 DEF CountsRight
<1>. QED
  BY <1>1, <1>2, <1>3, <1>4, <1>5, <1>7

LEMMA MigrateChunkPreserves ==
    ASSUME MemoryInv, NEW t \in Threads, MigrateChunk(t), UNCHANGED aborted
    PROVE  MemoryInv'
<1>. USE DEF MigrateChunk, Goto
<1>0. next_migration * ChunkSize \in Nat
  BY SeenSetAssumption DEF MemoryInv, VarsTyped
<1>1. PICK l \in {"put", "take"} :
        /\ pc' = [pc EXCEPT ![t] = l]
        /\ pos' \in {[pos EXCEPT ![t] = 0], [pos EXCEPT ![t] = next_migration * ChunkSize]}
  OBVIOUS
<1>2. VarsTyped'
  BY <1>0, <1>1 DEF MemoryInv, VarsTyped, Labels
<1>3. RendezvousInv' /\ ControlAgrees' /\ OldPointers' /\ NewPointers'
      /\ ExpandLocked' /\ CountsRight'
  BY <1>1, StaysInMigration DEF Migrating
<1>4. ThreadsCarry'
  BY <1>1 DEF MemoryInv, ThreadsCarry, VarsTyped, Inserting, Migrating, rendezvousVars
<1>. QED
  BY <1>2, <1>3, <1>4, TablesUntouched DEF MemoryInv

\* The next slot of a chunk, or the next chunk.
LEMMA NextSlotGoes ==
    ASSUME VarsTyped, NEW t \in Threads, NextSlot(t)
    PROVE  /\ pos' \in [Threads -> Nat]
           /\ \E l \in {"chunk", "take"} : pc' = [pc EXCEPT ![t] = l]
<1>1. pos' = [pos EXCEPT ![t] = pos[t] + 1] /\ pos \in [Threads -> Nat]
  BY DEF VarsTyped, NextSlot
<1>2. pos' \in [Threads -> Nat]
  BY <1>1
<1>3. CASE ChunkEnd(pos'[t])
  BY <1>2, <1>3 DEF NextSlot, Goto
<1>4. CASE ~ChunkEnd(pos'[t])
  BY <1>2, <1>4 DEF NextSlot, Goto
<1>. QED
  BY <1>3, <1>4

\* A slot's state is replaced by a tombstone while there is a table to move to.
LEMMA MigrateTakePreserves ==
    ASSUME MemoryInv, NEW t \in Threads, MigrateTake(t), UNCHANGED aborted
    PROVE  MemoryInv'
<1>. DEFINE s == heap[local_seen[t]].bucket[pos[t]]
<1>0. /\ pc[t] = "take" /\ pos[t] < heap[local_seen[t]].size /\ pos[t] \in Nat
      /\ pc \in [Threads -> Labels] /\ VarsTyped
  BY DEF MigrateTake, MemoryInv, VarsTyped
<1>1. /\ local_seen[t] \in 1..Len(heap) /\ ~heap[local_seen[t]].freed
      /\ local_seen[t] = global_seen.ptr
      /\ heap[local_seen[t]].size \in Nat \ {0}
      /\ heap[local_seen[t]].bucket \in [0..heap[local_seen[t]].size-1 -> Slots]
  BY <1>0, OldTableLive DEF UsesOld
<1>2. /\ next[t] = next_global_seen.ptr /\ next[t] \in 1..Len(heap)
      /\ next[t] # local_seen[t] /\ next[t] # Null
      /\ heap[next[t]].size \in Nat \ {0}
  BY <1>0, <1>1, NewTableLive DEF BeforeUpdate, Migrating, Null
<1>3. pos[t] \in 0..heap[local_seen[t]].size - 1 /\ s \in Slots
  BY <1>0, <1>1
<1>4. OnlySlotChanges(local_seen[t], pos[t], Tombstone)
  <2>1. WritesSlot(local_seen[t], pos[t], Tombstone)
    BY DEF MigrateTake, WritesSlot
  <2>2. HeapTyped /\ Tombstone \in Slots
    BY DEF MemoryInv, Slots
  <2>. QED
    BY <1>1, <1>3, <2>1, <2>2, SlotWrite
<1>5. PICK l \in {"place", "chunk", "take"} :
        /\ pc' = [pc EXCEPT ![t] = l]
        /\ pos' \in [Threads -> Nat]
        /\ l = "place" => /\ s \in States /\ hand' = [hand EXCEPT ![t] = s]
                          /\ target' = [target EXCEPT ![t] = FirstTarget(t, s)]
        /\ l # "place" => UNCHANGED <<hand, target>>
  BY <1>0, NextSlotGoes DEF MigrateTake, Goto, VarsTyped
<1>6. l = "place" => FirstTarget(t, s) \in 0..heap[next[t]].size - 1
  BY <1>2, <1>5, SeenSetAssumption, RemainderInRange DEF FirstTarget, SetIndex
<1>. HIDE DEF s
<1>7. VarsTyped'
  <2>1. FirstTarget(t, s) \in Nat \/ l # "place"
    BY <1>2, <1>6
  <2>. QED
    BY <1>5, <2>1 DEF VarsTyped, Labels, MigrateTake, MemoryInv
<1>8. RendezvousInv' /\ ControlAgrees' /\ OldPointers' /\ NewPointers'
      /\ ExpandLocked' /\ CountsRight'
  BY <1>0, <1>4, <1>5, StaysInMigration DEF Migrating, MigrateTake, OnlySlotChanges
<1>9. Published'
  BY <1>4 DEF MigrateTake, MemoryInv, Published, OnlySlotChanges
<1>10. TombstonesTell'
  BY <1>1, <1>2, <1>4 DEF MigrateTake, MemoryInv, TombstonesTell, OnlySlotChanges
<1>11. ThreadsCarry'
  <2>1. \A u \in Threads : pc[u] = "place" => next[u] \in 1..Len(heap)
    BY NewTableLive DEF BeforeUpdate, Migrating
  <2>2. heap'[next[t]].size = heap[next[t]].size
    BY <1>2, <1>4 DEF OnlySlotChanges
  <2>. QED
    BY SMTT(30), <1>0, <1>2, <1>4, <1>5, <1>6, <2>1, <2>2
    DEF MemoryInv, ThreadsCarry, VarsTyped, Inserting, Migrating, rendezvousVars,
        MigrateTake, OnlySlotChanges
<1>. QED
  BY <1>4, <1>7, <1>8, <1>9, <1>10, <1>11 DEF MemoryInv, OnlySlotChanges

\* What is put into the new table and what is displaced are states.
LEMMA MigratePlacePreserves ==
    ASSUME MemoryInv, NEW t \in Threads, MigratePlace(t), UNCHANGED aborted
    PROVE  MemoryInv'
<1>. DEFINE s == heap[next[t]].bucket[target[t]]
<1>0. /\ pc[t] = "place" /\ VarsTyped
      /\ hand[t] \in States /\ target[t] \in Nat /\ target[t] < heap[next[t]].size
  BY DEF MigratePlace, MemoryInv, VarsTyped, ThreadsCarry
<1>1. /\ next[t] = next_global_seen.ptr /\ next[t] \in 1..Len(heap)
      /\ next[t] # global_seen.ptr /\ next[t] # Null
      /\ ~heap[next[t]].freed
      /\ heap[next[t]].size \in Nat \ {0}
      /\ heap[next[t]].bucket \in [0..heap[next[t]].size-1 -> Slots]
  BY <1>0, NewTableLive DEF BeforeUpdate, Migrating, Null
<1>2. target[t] \in 0..heap[next[t]].size - 1 /\ s \in States \cup {Empty}
  <2>1. target[t] \in 0..heap[next[t]].size - 1 /\ s \in Slots
    BY <1>0, <1>1
  <2>2. s # Tombstone
    BY <1>1, <2>1 DEF MemoryInv, TombstonesTell
  <2>. QED
    BY <2>1, <2>2 DEF Slots
<1>3. OnlySlotChanges(next[t], target[t], hand[t]) /\ hand[t] # Tombstone
  <2>1. WritesSlot(next[t], target[t], hand[t])
    BY DEF MigratePlace, WritesSlot
  <2>2. HeapTyped /\ hand[t] \in Slots /\ hand[t] # Tombstone
    BY <1>0, SeenSetAssumption DEF MemoryInv, Slots
  <2>. QED
    BY <1>1, <1>2, <2>1, <2>2, SlotWrite
<1>4. SetIndex(next[t], target[t] + 1) \in 0..heap[next[t]].size - 1
  <2>1. target[t] + 1 \in Nat
    BY <1>0
  <2>. QED
    BY <1>1, <2>1, RemainderInRange DEF SetIndex
<1>. HIDE DEF s
<1>5. PICK l \in {"place", "chunk", "take"} :
        /\ pc' = [pc EXCEPT ![t] = l]
        /\ pos' \in [Threads -> Nat]
        /\ l = "place" => /\ s \in States
                          /\ target' = [target EXCEPT ![t] =
                                           SetIndex(next[t], target[t] + 1)]
        /\ l # "place" => s = Empty /\ target' = [target EXCEPT ![t] = 0]
        /\ hand' = [hand EXCEPT ![t] = s]
  <2>1. hand' = [hand EXCEPT ![t] = s]
    BY DEF MigratePlace, s
  <2>2. CASE s = Empty
    <3>1. NextSlot(t) /\ target' = [target EXCEPT ![t] = 0]
      BY <2>2 DEF MigratePlace, s, Settled
    <3>. QED
      BY <1>0, <2>1, <2>2, <3>1, NextSlotGoes
  <2>3. CASE s # Empty
    <3>1. /\ UNCHANGED <<pc, pos>>
          /\ target' = [target EXCEPT ![t] = SetIndex(next[t], target[t] + 1)]
      BY <2>3 DEF MigratePlace, s, Settled
    <3>2. pc' = [pc EXCEPT ![t] = "place"] /\ pos' \in [Threads -> Nat]
      BY <1>0, <3>1 DEF VarsTyped
    <3>. QED
      BY <1>2, <2>1, <2>3, <3>1, <3>2
  <2>. QED
    BY <2>2, <2>3
<1>7. VarsTyped'
  <2>1. SetIndex(next[t], target[t] + 1) \in Nat
    BY <1>1, <1>4
  <2>. QED
    BY <1>2, <1>5, <2>1 DEF VarsTyped, Labels, MigratePlace, MemoryInv
<1>8. RendezvousInv' /\ ControlAgrees' /\ OldPointers' /\ NewPointers'
      /\ ExpandLocked' /\ CountsRight'
  BY <1>0, <1>3, <1>5, StaysInMigration DEF Migrating, MigratePlace, OnlySlotChanges
<1>9. Published'
  BY <1>3 DEF MigratePlace, MemoryInv, Published, OnlySlotChanges
<1>10. TombstonesTell'
  BY <1>1, <1>3 DEF MigratePlace, MemoryInv, TombstonesTell, OnlySlotChanges, Published
<1>11. ThreadsCarry'
  <2>1. \A u \in Threads : pc[u] = "place" => next[u] \in 1..Len(heap)
    BY NewTableLive DEF BeforeUpdate, Migrating
  <2>2. \A u \in Threads \ {t} :
          pc'[u] = pc[u] /\ hand'[u] = hand[u] /\ target'[u] = target[u]
    BY <1>0, <1>5 DEF VarsTyped
  <2>3. pc'[t] \in {"place", "chunk", "take"} /\ hand'[t] = s
        /\ (pc'[t] # "place" => s = Empty)
        /\ (pc'[t] = "place" =>
               s \in States /\ target'[t] = SetIndex(next[t], target[t] + 1))
    BY <1>0, <1>5 DEF VarsTyped
  <2>4. \A j \in 1..Len(heap) : heap'[j].size = heap[j].size
    BY <1>3 DEF OnlySlotChanges
  <2>5. UNCHANGED <<next, arg, resume, rpc>> /\ ThreadsCarry
    BY DEF MigratePlace, rendezvousVars, MemoryInv
  <2>6. target'[t] < heap'[next'[t]].size \/ pc'[t] # "place"
    BY <1>1, <1>4, <2>3, <2>4, <2>5
  <2>. QED
    BY <1>0, <2>1, <2>2, <2>3, <2>4, <2>5, <2>6 DEF ThreadsCarry, Inserting, Migrating
<1>. QED
  BY <1>3, <1>7, <1>8, <1>9, <1>10, <1>11 DEF MemoryInv, OnlySlotChanges

\* refcounted_ptr_put: the thread no longer counts as a user of the old table,
\* and keeps the new one.
LEMMA MigratePutPreserves ==
    ASSUME MemoryInv, NEW t \in Threads, MigratePut(t), UNCHANGED aborted
    PROVE  MemoryInv'
<1>. USE DEF MigratePut, Goto, RefcountedPtrPut
<1>0. /\ pc[t] = "put" /\ rpc[t] = "run" /\ ~UpdateDone
      /\ next[t] = next_global_seen.ptr /\ next[t] # global_seen.ptr
      /\ local_seen[t] = global_seen.ptr
      /\ global_seen \in [ptr : Nat, count : Nat]
  BY RunsOutside, OldTableLive, NewTableLive
  DEF BeforeUpdate, MemoryInv, UsesOld, Migrating, VarsTyped
<1>1. OldHolders' = OldHolders \ {t} /\ NewHolders' = NewHolders /\ t \in OldHolders
  BY <1>0 DEF MemoryInv, OldHolders, NewHolders, VarsTyped, UsesOld
<1>2. Cardinality(OldHolders \ {t}) = Cardinality(OldHolders) - 1
      /\ Cardinality(OldHolders) # 0
  BY <1>1, HoldersFinite, FS_RemoveElement, FS_EmptySet
<1>3. CountsRight
  BY DEF MemoryInv
<1>4. /\ global_seen' \in [ptr : Nat, count : Nat]
      /\ global_seen'.ptr = global_seen.ptr
      /\ global_seen'.count = global_seen.count - 1
  BY <1>0, <1>2, <1>3 DEF CountsRight
<1>5. VarsTyped'
  BY <1>4 DEF MemoryInv, VarsTyped, Labels
<1>6. RendezvousInv'
  BY NextPreserves DEF MemoryInv, rendezvousVars
<1>7. HeapTyped' /\ Published' /\ TombstonesTell'
  BY <1>4 DEF MemoryInv, HeapTyped, Published, TombstonesTell
<1>8. ControlAgrees'
  BY <1>0 DEF MemoryInv, ControlAgrees, VarsTyped, rendezvousVars
<1>9. OldPointers'
  BY <1>0, <1>4 DEF MemoryInv, OldPointers, VarsTyped, UsesOld, rendezvousVars
<1>10. NewPointers'
  BY <1>0, <1>4
  DEF MemoryInv, NewPointers, VarsTyped, BeforeUpdate, AfterUpdate, UpdateDone,
      Migrating, rendezvousVars
<1>11. ExpandLocked'
  BY <1>0 DEF MemoryInv, ExpandLocked, VarsTyped
<1>12. ThreadsCarry'
  BY <1>0 DEF MemoryInv, ThreadsCarry, VarsTyped, Inserting, Migrating, rendezvousVars
<1>13. CountsRight'
  BY <1>1, <1>2, <1>3, <1>4 DEF CountsRight
<1>. QED
  BY <1>5, <1>6, <1>7, <1>8, <1>9, <1>10, <1>11, <1>12, <1>13 DEF MemoryInv

-----------------------------------------------------------------------------
(***************************************************************************)
(* The rendezvous.                                                         *)
(***************************************************************************)

\* A thread arrives with a reference to the next table only.
LEMMA MeetArrivePreserves ==
    ASSUME MemoryInv, NEW t \in Threads, MeetArrive(t), UNCHANGED aborted
    PROVE  MemoryInv'
<1>. USE DEF MeetArrive, Arrive, setState, threadState
<1>0. /\ pc[t] = "meet" /\ rpc[t] = "run" /\ rpc \in [Threads -> RPC]
      /\ \A u \in Threads : rpc[u] \notin {"led", "outled"}
  <2>1. \A u \in Threads : rpc[u] \notin Leading
    BY ThreadsAssumption DEF MemoryInv, RendezvousInv, LockOwner
  <2>. QED
    BY <2>1 DEF MemoryInv, RendezvousInv, RendezvousTypeOK, Leading
<1>1. PICK l \in {"lead", "follow"} : rpc' = [rpc EXCEPT ![t] = l]
  BY DEF LastToArrive
<1>2. RendezvousInv'
  BY NextPreserves DEF MemoryInv, RendezvousNext, RendezvousStep
<1>3. VarsTyped' /\ ExpandLocked' /\ HeapTyped' /\ Published' /\ TombstonesTell'
  BY TablesUntouched DEF MemoryInv, VarsTyped, ExpandLocked
<1>4. ControlAgrees' /\ OldPointers'
  BY <1>0, <1>1 DEF MemoryInv, ControlAgrees, OldPointers
<1>5. NewPointers'
  BY <1>0, <1>1 DEF MemoryInv, NewPointers, BeforeUpdate, AfterUpdate, UpdateDone
<1>6. ThreadsCarry'
  BY <1>0, <1>1 DEF MemoryInv, ThreadsCarry
<1>7. CountsRight'
  BY DEF MemoryInv, CountsRight, OldHolders, NewHolders
<1>. QED
  BY <1>2, <1>3, <1>4, <1>5, <1>6, <1>7 DEF MemoryInv

LEMMA MeetWaitPreserves ==
    ASSUME MemoryInv, NEW t \in Threads, MeetWait(t), UNCHANGED aborted
    PROVE  MemoryInv'
<1>. USE DEF MeetWait, Wait, setState, threadState
<1>0. /\ pc[t] = "meet" /\ rpc[t] = "follow" /\ rpc \in [Threads -> RPC]
      /\ \A u \in Threads : rpc[u] \notin {"led", "outled"}
  <2>1. \A u \in Threads : rpc[u] \notin Leading
    BY InvImpliesLeaderAlone DEF MemoryInv, LeaderAlone, Leading
  <2>. QED
    BY <2>1 DEF MemoryInv, RendezvousInv, RendezvousTypeOK, Leading, ControlAgrees
<1>2. RendezvousInv'
  BY NextPreserves DEF MemoryInv, RendezvousNext, RendezvousStep
<1>3. VarsTyped' /\ ExpandLocked' /\ HeapTyped' /\ Published' /\ TombstonesTell'
  BY TablesUntouched DEF MemoryInv, VarsTyped, ExpandLocked
<1>4. ControlAgrees' /\ OldPointers'
  BY <1>0 DEF MemoryInv, ControlAgrees, OldPointers
<1>5. NewPointers'
  BY <1>0 DEF MemoryInv, NewPointers, BeforeUpdate, AfterUpdate, UpdateDone
<1>6. ThreadsCarry'
  BY <1>0 DEF MemoryInv, ThreadsCarry
<1>7. CountsRight'
  BY DEF MemoryInv, CountsRight, OldHolders, NewHolders
<1>. QED
  BY <1>2, <1>3, <1>4, <1>5, <1>6, <1>7 DEF MemoryInv

\* A thread woken at the rendezvous, or its leader, takes the table it holds a
\* reference to for its own: set_update has made that the current one.
LEMMA MigrateDoneKeeps ==
    ASSUME MemoryInv, NEW t \in Threads, MigrateDone(t),
           pc[t] = "meet", next[t] = global_seen.ptr, rpc[t] \in {"woken", "led"}
    PROVE  /\ pc' = [pc EXCEPT ![t] = resume[t]]
           /\ resume[t] \in {"check", "probe"}
           /\ local_seen' = [local_seen EXCEPT ![t] = global_seen.ptr]
           /\ next' = [next EXCEPT ![t] = Null]
           /\ resume' = [resume EXCEPT ![t] = "idle"]
           /\ pos' = [pos EXCEPT ![t] = 0]
BY DEF MemoryInv, ThreadsCarry, MigrateDone, Goto

LEMMA MeetLeavePreserves ==
    ASSUME MemoryInv, NEW t \in Threads, MeetLeave(t), UNCHANGED aborted
    PROVE  MemoryInv'
<1>. USE DEF MeetLeave, Leave, setState
<1>0. /\ pc[t] = "meet" /\ rpc[t] = "woken" /\ next[t] = global_seen.ptr
      /\ next[t] # next_global_seen.ptr /\ next[t] # Null
      /\ rpc \in [Threads -> RPC] /\ VarsTyped
  BY DEF MemoryInv, ControlAgrees, NewPointers, AfterUpdate, Published, Null,
         RendezvousInv, RendezvousTypeOK
<1>1. PICK l \in {"check", "probe"} :
        /\ l = resume[t]
        /\ pc' = [pc EXCEPT ![t] = l]
        /\ local_seen' = [local_seen EXCEPT ![t] = global_seen.ptr]
        /\ next' = [next EXCEPT ![t] = Null]
        /\ resume' = [resume EXCEPT ![t] = "idle"]
        /\ pos' = [pos EXCEPT ![t] = 0]
  BY <1>0, MigrateDoneKeeps
<1>2. RendezvousInv'
  BY NextPreserves DEF MemoryInv, RendezvousNext, RendezvousStep
<1>3. HeapTyped' /\ Published' /\ TombstonesTell'
  BY TablesUntouched DEF MemoryInv
<1>4. VarsTyped'
  BY <1>0, <1>1 DEF VarsTyped, Labels, Null, MigrateDone
<1>5. ControlAgrees' /\ OldPointers'
  BY SMTT(30), <1>0, <1>1
  DEF MemoryInv, ControlAgrees, OldPointers, VarsTyped, UsesOld, Published
<1>6. NewPointers'
  BY <1>0, <1>1
  DEF MemoryInv, NewPointers, BeforeUpdate, AfterUpdate, UpdateDone, VarsTyped, Migrating
<1>7. ExpandLocked'
  BY <1>0, <1>1 DEF MemoryInv, ExpandLocked, VarsTyped
<1>8. ThreadsCarry'
  BY <1>0, <1>1 DEF MemoryInv, ThreadsCarry, VarsTyped, Inserting, Migrating, MigrateDone
<1>9. OldHolders' = OldHolders /\ NewHolders' = NewHolders
  BY <1>0, <1>1 DEF OldHolders, NewHolders, VarsTyped, UsesOld
<1>10. CountsRight'
  BY <1>9 DEF MemoryInv, CountsRight
<1>. QED
  BY <1>2, <1>3, <1>4, <1>5, <1>6, <1>7, <1>8, <1>10 DEF MemoryInv

\* The leader lets every sleeper go, and goes on itself.
LEMMA MeetDepartPreserves ==
    ASSUME MemoryInv, NEW t \in Threads, MeetDepart(t), UNCHANGED aborted
    PROVE  MemoryInv'
<1>. USE DEF setState
<1>0. /\ rpc[t] \in {"led", "outled"} /\ UpdateDone
      /\ next_global_seen.ptr = Null
      /\ rpc[t] = "led" => pc[t] = "meet" /\ next[t] = global_seen.ptr
      /\ rpc[t] = "outled" => pc[t] = "optout"
      /\ global_seen.ptr # Null
      /\ rpc \in [Threads -> RPC] /\ VarsTyped
      /\ MeetDepart(t) /\ Depart(t)
  BY DEF MeetDepart, Depart, UpdateDone, MemoryInv, ControlAgrees, NewPointers,
         AfterUpdate, Published, Null, RendezvousInv, RendezvousTypeOK
<1>1. \A u \in Threads \ {t} : rpc[u] \in {"wait", "out", "idle"}
  BY <1>0, InvImpliesLeaderAlone DEF MemoryInv, LeaderAlone, Leading
<1>2. /\ rpc' \in [Threads -> RPC]
      /\ rpc[t] = "led" => rpc'[t] = "run"
      /\ rpc[t] = "outled" => rpc'[t] = "outretry"
      /\ \A u \in Threads \ {t} :
            rpc'[u] = IF rpc[u] = "wait" THEN "woken" ELSE rpc[u]
  BY <1>0, <1>1 DEF Depart, Woken, Sleeping, RPC
<1>3. RendezvousInv'
  BY <1>0, NextPreserves DEF MemoryInv, RendezvousNext, RendezvousStep
<1>4. HeapTyped' /\ Published' /\ TombstonesTell'
  BY <1>0, TablesUntouched DEF MemoryInv, MeetDepart
<1>5. ~UpdateDone'
  BY <1>0, <1>1, <1>2 DEF UpdateDone
<1>6. CASE rpc[t] = "led"
  <2>1. PICK l \in {"check", "probe"} :
          /\ l = resume[t]
          /\ pc' = [pc EXCEPT ![t] = l]
          /\ local_seen' = [local_seen EXCEPT ![t] = global_seen.ptr]
          /\ next' = [next EXCEPT ![t] = Null]
          /\ resume' = [resume EXCEPT ![t] = "idle"]
          /\ pos' = [pos EXCEPT ![t] = 0]
          /\ UNCHANGED <<arg, hand, target>>
    BY <1>0, <1>6, MigrateDoneKeeps DEF MeetDepart, MigrateDone
  <2>. USE <1>6 DEF MeetDepart
  <2>2. VarsTyped'
    BY <1>0, <2>1 DEF VarsTyped, Labels, Null
  <2>3. ControlAgrees'
    BY <1>0, <1>1, <1>2, <2>1 DEF MemoryInv, ControlAgrees, VarsTyped
  <2>4. OldPointers'
    BY <1>0, <1>1, <1>2, <2>1
    DEF MemoryInv, OldPointers, VarsTyped, UsesOld, ControlAgrees, Published
  <2>5. NewPointers'
    BY <1>0, <1>1, <1>2, <1>5, <2>1
    DEF MemoryInv, NewPointers, BeforeUpdate, AfterUpdate, VarsTyped, Migrating,
        ControlAgrees
  <2>6. ExpandLocked'
    BY <1>0, <2>1 DEF MemoryInv, ExpandLocked, VarsTyped
  <2>7. ThreadsCarry'
    BY <1>0, <1>1, <1>2, <2>1
    DEF MemoryInv, ThreadsCarry, VarsTyped, Inserting, Migrating, ControlAgrees
  <2>8. OldHolders' = OldHolders /\ NewHolders' = NewHolders
    BY <1>0, <2>1 DEF OldHolders, NewHolders, VarsTyped, UsesOld
  <2>. QED
    BY <1>0, <1>3, <1>4, <2>2, <2>3, <2>4, <2>5, <2>6, <2>7, <2>8
    DEF MemoryInv, CountsRight
<1>7. CASE rpc[t] = "outled"
  <2>. USE <1>7 DEF threadState
  <2>1. UNCHANGED <<setState, threadState>>
    BY <1>0 DEF MeetDepart
  <2>2. VarsTyped' /\ ExpandLocked'
    BY <2>1 DEF MemoryInv, VarsTyped, ExpandLocked
  <2>3. ControlAgrees'
    BY <1>0, <1>1, <1>2, <2>1 DEF MemoryInv, ControlAgrees
  <2>4. OldPointers'
    BY <1>0, <1>1, <1>2, <2>1 DEF MemoryInv, OldPointers, UsesOld, ControlAgrees
  <2>5. NewPointers'
    BY <1>0, <1>1, <1>2, <1>5, <2>1
    DEF MemoryInv, NewPointers, BeforeUpdate, AfterUpdate, Migrating, ControlAgrees
  <2>6. ThreadsCarry'
    BY <1>0, <1>1, <1>2, <2>1
    DEF MemoryInv, ThreadsCarry, Inserting, Migrating, ControlAgrees
  <2>7. CountsRight'
    BY <2>1 DEF MemoryInv, CountsRight, OldHolders, NewHolders
  <2>. QED
    BY <1>3, <1>4, <2>2, <2>3, <2>4, <2>5, <2>6, <2>7 DEF MemoryInv
<1>. QED
  BY <1>0, <1>6, <1>7

FreesTable(k) == heap' = [heap EXCEPT ![k] = [@ EXCEPT !.freed = TRUE, !.bucket = <<>>]]

\* free() of a table changes no other.
LEMMA HeapFree ==
    ASSUME HeapTyped, NEW k \in 1..Len(heap), FreesTable(k)
    PROVE  /\ HeapTyped'
           /\ Len(heap') = Len(heap)
           /\ heap'[k].freed
           /\ \A j \in 1..Len(heap) \ {k} : heap'[j] = heap[j]
<1>1. heap[k] \in Tables /\ heap \in Seq(Tables)
  BY DEF HeapTyped
<1>2. PICK x : x = [heap[k] EXCEPT !.freed = TRUE, !.bucket = <<>>]
  OBVIOUS
<1>3. <<>> \in Buckets
  BY DEF Buckets
<1>4. x \in Tables /\ x.freed
  BY <1>1, <1>2, <1>3 DEF Tables
<1>5. heap' = [heap EXCEPT ![k] = x]
  BY <1>2 DEF FreesTable
<1>6. /\ heap' \in Seq(Tables) /\ Len(heap') = Len(heap) /\ heap'[k] = x
      /\ \A j \in 1..Len(heap) \ {k} : heap'[j] = heap[j]
  BY <1>1, <1>4, <1>5
<1>. QED
  BY <1>4, <1>6 DEF HeapTyped

\* set_update: while everybody else sleeps with a reference to the next table, or
\* has left, the current one is freed and the next one takes its place.
LEMMA MeetLeadPreserves ==
    ASSUME MemoryInv, NEW t \in Threads, MeetLead(t), UNCHANGED aborted
    PROVE  MemoryInv'
<1>. USE DEF threadState
<1>0. /\ rpc[t] \in {"lead", "outlead"}
      /\ rpc[t] = "lead" =>
            /\ pc[t] = "meet" /\ next[t] = next_global_seen.ptr
            /\ next_global_seen.ptr # Null
      /\ rpc[t] = "outlead" => pc[t] = "optout" /\ next[t] = Null
      /\ rpc \in [Threads -> RPC] /\ VarsTyped
      /\ MeetLead(t) /\ LeaderAction(t) /\ ~FreesTwice(t)
      /\ global_seen.ptr \in 1..Len(heap)
      /\ global_seen.ptr # next_global_seen.ptr
  BY DEF MeetLead, LeaderAction, MemoryInv, ControlAgrees, NewPointers, Migrating,
         BeforeUpdate, Published, RendezvousInv, RendezvousTypeOK
<1>1. \A u \in Threads \ {t} : rpc[u] \in {"wait", "out", "idle"}
  BY <1>0, InvImpliesLeaderAlone DEF MemoryInv, LeaderAlone, Leading
<1>2. /\ rpc' \in [Threads -> RPC]
      /\ rpc[t] = "lead" => rpc'[t] = "led"
      /\ rpc[t] = "outlead" => rpc'[t] = "outled"
      /\ \A u \in Threads \ {t} : rpc'[u] = rpc[u]
  BY <1>0 DEF LeaderAction, RPC
<1>3. RendezvousInv'
  BY <1>0, NextPreserves DEF MemoryInv, RendezvousNext, RendezvousStep
<1>4. ~UpdateDone /\ UpdateDone'
  BY <1>0, <1>1, <1>2 DEF UpdateDone
<1>5. ControlAgrees'
  BY <1>0, <1>1, <1>2 DEF MeetLead, MemoryInv, ControlAgrees
<1>6. \A u \in Threads \ {t} :
        /\ rpc[u] = "wait" => /\ pc[u] = "meet" /\ next[u] = next_global_seen.ptr
                              /\ next_global_seen.ptr # Null
        /\ rpc[u] \in {"out", "idle"} =>
              pc[u] \in {"joining", "done", "unborn"} /\ next[u] = Null
  BY <1>1, <1>4 DEF MemoryInv, ControlAgrees, NewPointers, BeforeUpdate, Migrating
<1>7. CASE next_global_seen.ptr # Null
  <2>1. local_seen[t] = global_seen.ptr
    BY <1>0, <1>7 DEF MemoryInv, OldPointers, FreesTwice, Published
  <2>2. /\ FreesTable(global_seen.ptr)
        /\ next_migration' = 0
        /\ global_seen' = next_global_seen
        /\ next_global_seen' = [ptr |-> Null, count |-> 0]
        /\ UNCHANGED <<seen_count, set_expand_mutex, threadState>>
    BY <1>0, <1>7, <2>1 DEF MeetLead, SetUpdate, FreesTable
  <2>3. /\ HeapTyped'
        /\ Len(heap') = Len(heap)
        /\ heap'[global_seen.ptr].freed
        /\ \A j \in 1..Len(heap) \ {global_seen.ptr} : heap'[j] = heap[j]
    BY <1>0, <2>2, HeapFree DEF MemoryInv
  <2>4. next_global_seen'.ptr = Null /\ next_global_seen'.count = 0
    BY <2>2
  <2>5. VarsTyped'
    BY <1>0, <2>2 DEF VarsTyped, Null
  <2>6. Published'
    BY <1>0, <1>7, <2>2, <2>3, <2>4 DEF MemoryInv, Published, Null
  <2>7. OldPointers'
    BY <1>0, <1>1, <1>2, <1>6, <2>1, <2>2, <2>3, <2>4
    DEF MemoryInv, OldPointers, UsesOld, Null
  <2>8. NewPointers'
    BY <1>0, <1>1, <1>2, <1>4, <1>6, <2>2, <2>4
    DEF NewPointers, BeforeUpdate, AfterUpdate, Migrating
  <2>9. ExpandLocked'
    BY <2>2, <2>4 DEF MemoryInv, ExpandLocked
  <2>10. ThreadsCarry'
    <3>1. \A u \in Threads : pc[u] # "place"
      BY <1>0, <1>1, <1>6
    <3>. QED
      BY <1>0, <1>1, <1>2, <2>2, <3>1 DEF MemoryInv, ThreadsCarry, Migrating
  <2>11. TombstonesTell'
    BY <1>0, <1>7, <2>2, <2>3, <2>4 DEF MemoryInv, TombstonesTell, Published, Null
  <2>12. OldHolders' = NewHolders /\ NewHolders' = {}
    <3>1. ~(pc[Main] = "done")
      BY <1>0 DEF MemoryInv, ControlAgrees
    <3>. QED
      BY <1>0, <1>1, <1>6, <1>7, <2>2, <2>4, <3>1 DEF OldHolders, NewHolders, UsesOld
  <2>13. CountsRight'
    BY <2>2, <2>4, <2>12, FS_EmptySet DEF MemoryInv, CountsRight
  <2>. QED
    BY <1>3, <1>5, <2>3, <2>5, <2>6, <2>7, <2>8, <2>9, <2>10, <2>11, <2>13 DEF MemoryInv
<1>8. CASE next_global_seen.ptr = Null
  <2>1. UNCHANGED <<setState, threadState>>
    BY <1>0, <1>8 DEF MeetLead, SetUpdate
  <2>. USE <2>1 DEF setState
  <2>2. VarsTyped' /\ ExpandLocked' /\ HeapTyped' /\ Published' /\ TombstonesTell'
    BY TablesUntouched DEF MemoryInv, VarsTyped, ExpandLocked
  <2>3. OldPointers'
    BY <1>0, <1>1, <1>2, <1>6 DEF MemoryInv, OldPointers
  <2>4. NewPointers'
    BY <1>0, <1>1, <1>2, <1>4, <1>6, <1>8
    DEF MemoryInv, NewPointers, BeforeUpdate, AfterUpdate, Migrating
  <2>5. ThreadsCarry'
    BY <1>0, <1>1, <1>2 DEF MemoryInv, ThreadsCarry
  <2>6. CountsRight'
    BY DEF MemoryInv, CountsRight, OldHolders, NewHolders
  <2>. QED
    BY <1>3, <1>5, <2>2, <2>3, <2>4, <2>5, <2>6 DEF MemoryInv
<1>. QED
  BY <1>7, <1>8

-----------------------------------------------------------------------------
(***************************************************************************)
(* Threads that come and go.                                               *)
(***************************************************************************)

LEMMA ExitPreserves ==
    ASSUME MemoryInv, NEW t \in Threads, Exit(t), UNCHANGED aborted
    PROVE  MemoryInv'
<1>. USE DEF Exit, Goto, RefcountedPtrPut
<1>0. /\ pc[t] = "idle" /\ rpc[t] = "run" /\ ~UpdateDone
      /\ local_seen[t] = global_seen.ptr
      /\ global_seen \in [ptr : Nat, count : Nat]
      /\ global_seen.ptr \in 1..Len(heap) /\ global_seen.ptr # next_global_seen.ptr
  BY RunsOutside, OldTableLive DEF MemoryInv, VarsTyped, Published
<1>1. OldHolders' = OldHolders \ {t} /\ NewHolders' = NewHolders /\ t \in OldHolders
  BY <1>0 DEF MemoryInv, OldHolders, NewHolders, VarsTyped, UsesOld
<1>2. Cardinality(OldHolders \ {t}) = Cardinality(OldHolders) - 1
      /\ Cardinality(OldHolders) # 0
  BY <1>1, HoldersFinite, FS_RemoveElement, FS_EmptySet
<1>3. CountsRight
  BY DEF MemoryInv
<1>4. /\ global_seen' \in [ptr : Nat, count : Nat]
      /\ global_seen'.ptr = global_seen.ptr
      /\ global_seen'.count = global_seen.count - 1
  BY <1>0, <1>2, <1>3 DEF CountsRight
<1>5. VarsTyped'
  BY <1>4 DEF MemoryInv, VarsTyped, Labels
<1>6. RendezvousInv'
  BY NextPreserves DEF MemoryInv, rendezvousVars
<1>7. HeapTyped' /\ Published' /\ TombstonesTell'
  BY <1>4 DEF MemoryInv, HeapTyped, Published, TombstonesTell
<1>8. ControlAgrees'
  BY SMTT(30), <1>0 DEF MemoryInv, ControlAgrees, VarsTyped, rendezvousVars
<1>9. OldPointers'
  BY <1>0, <1>4 DEF MemoryInv, OldPointers, VarsTyped, UsesOld, rendezvousVars
<1>10. NewPointers'
  BY <1>0, <1>4
  DEF MemoryInv, NewPointers, VarsTyped, BeforeUpdate, AfterUpdate, UpdateDone,
      Migrating, rendezvousVars
<1>11. ExpandLocked'
  BY <1>0 DEF MemoryInv, ExpandLocked, VarsTyped
<1>12. ThreadsCarry'
  BY <1>0 DEF MemoryInv, ThreadsCarry, VarsTyped, Inserting, Migrating, rendezvousVars
<1>13. CountsRight'
  BY <1>1, <1>2, <1>3, <1>4 DEF CountsRight
<1>. QED
  BY <1>5, <1>6, <1>7, <1>8, <1>9, <1>10, <1>11, <1>12, <1>13 DEF MemoryInv

\* An opt-out either takes the lead of the others' rendezvous or is final.
LEMMA ExitOptOutPreserves ==
    ASSUME MemoryInv, NEW t \in Threads, ExitOptOut(t), UNCHANGED aborted
    PROVE  MemoryInv'
<1>. USE DEF setState
<1>0. /\ pc[t] = "optout" /\ rpc[t] \in {"run", "outretry"} /\ next[t] = Null
      /\ rpc \in [Threads -> RPC] /\ VarsTyped /\ ExitOptOut(t) /\ OptOut(t)
      /\ \A u \in Threads : rpc[u] \notin {"led", "outled"}
  <2>1. \A u \in Threads : rpc[u] \notin Leading
    BY ThreadsAssumption DEF ExitOptOut, OptOut, MemoryInv, RendezvousInv, LockOwner
  <2>. QED
    BY <2>1 DEF ExitOptOut, OptOut, MemoryInv, RendezvousInv, RendezvousTypeOK, Leading,
               NewPointers, Migrating
<1>1. RendezvousInv'
  BY <1>0, NextPreserves DEF MemoryInv, RendezvousNext, RendezvousStep
<1>2. HeapTyped' /\ Published' /\ TombstonesTell'
  BY <1>0, TablesUntouched DEF ExitOptOut
<1>3. PICK l \in {"out", "outlead"} :
        /\ rpc' = [rpc EXCEPT ![t] = l]
        /\ l = "out" =>
              /\ pc' = [pc EXCEPT ![t] = IF t = Main THEN "joining" ELSE "done"]
              /\ local_seen' = [local_seen EXCEPT ![t] = Null]
        /\ l = "outlead" => UNCHANGED <<pc, local_seen>>
        /\ UNCHANGED <<setState, next, arg, pos, hand, target, resume>>
  BY <1>0 DEF ExitOptOut, OptOut, Goto
<1>4. CASE l = "out"
  <2>0. PICK m \in {"joining", "done"} :
          pc' = [pc EXCEPT ![t] = m] /\ (m = "joining" <=> t = Main)
    BY <1>3, <1>4
  <2>1. VarsTyped'
    BY <1>0, <1>3, <1>4, <2>0 DEF VarsTyped, Labels, Null
  <2>2. ControlAgrees'
    BY <1>0, <1>3, <1>4, <2>0 DEF MemoryInv, ControlAgrees, VarsTyped
  <2>3. OldPointers'
    BY <1>0, <1>3, <1>4, <2>0
    DEF MemoryInv, OldPointers, VarsTyped, UsesOld, Published, Null
  <2>4. NewPointers'
    BY <1>0, <1>3, <1>4, <2>0
    DEF MemoryInv, NewPointers, VarsTyped, BeforeUpdate, AfterUpdate, UpdateDone,
        Migrating
  <2>5. ExpandLocked' /\ ThreadsCarry'
    BY <1>0, <1>3, <1>4, <2>0
    DEF MemoryInv, ExpandLocked, ThreadsCarry, VarsTyped, Inserting, Migrating
  <2>6. OldHolders' = OldHolders /\ NewHolders' = NewHolders
    BY <1>0, <1>3, <1>4, <2>0 DEF OldHolders, NewHolders, VarsTyped, UsesOld
  <2>. QED
    BY <1>1, <1>2, <1>3, <2>1, <2>2, <2>3, <2>4, <2>5, <2>6 DEF MemoryInv, CountsRight
<1>5. CASE l = "outlead"
  <2>1. VarsTyped' /\ ExpandLocked'
    BY <1>0, <1>3, <1>5, ExitOptOut(t) DEF MemoryInv, VarsTyped, ExpandLocked
  <2>2. ControlAgrees' /\ OldPointers'
    BY <1>0, <1>3, <1>5 DEF MemoryInv, ControlAgrees, OldPointers
  <2>3. NewPointers'
    BY <1>0, <1>3, <1>5
    DEF MemoryInv, NewPointers, BeforeUpdate, AfterUpdate, UpdateDone, Migrating
  <2>4. ThreadsCarry'
    BY <1>0, <1>3, <1>5 DEF MemoryInv, ThreadsCarry, Inserting, Migrating
  <2>5. CountsRight'
    BY <1>3, <1>5 DEF MemoryInv, CountsRight, OldHolders, NewHolders
  <2>. QED
    BY <1>1, <1>2, <2>1, <2>2, <2>3, <2>4, <2>5 DEF MemoryInv
<1>. QED
  BY <1>4, <1>5

\* The initial thread takes a reference again when no other is left.
LEMMA ReacquirePreserves ==
    ASSUME MemoryInv, NEW t \in Threads, Reacquire(t), UNCHANGED aborted
    PROVE  MemoryInv'
<1>. USE DEF Reacquire, Goto, RefcountedPtrGet
<1>0. /\ pc[t] = "joining" /\ rpc[t] = "out" /\ t = Main /\ next[t] = Null
      /\ \A u \in Threads : rpc[u] \in {"out", "idle"}
      /\ global_seen \in [ptr : Nat, count : Nat]
      /\ global_seen.ptr \in 1..Len(heap)
      /\ \A u \in Threads : pc[u] \in {"joining", "done", "unborn"}
  BY DEF MemoryInv, ControlAgrees, NewPointers, VarsTyped, Migrating, Published
<1>1. /\ global_seen' \in [ptr : Nat, count : Nat]
      /\ global_seen'.ptr = global_seen.ptr
      /\ global_seen'.count = global_seen.count + 1
  BY <1>0
<1>2. VarsTyped'
  BY <1>0, <1>1 DEF MemoryInv, VarsTyped, Labels
<1>3. RendezvousInv'
  BY NextPreserves DEF MemoryInv, rendezvousVars
<1>4. HeapTyped' /\ Published' /\ TombstonesTell'
  BY <1>1 DEF MemoryInv, HeapTyped, Published, TombstonesTell
<1>5. ControlAgrees'
  BY SMTT(30), <1>0 DEF MemoryInv, ControlAgrees, VarsTyped, rendezvousVars
<1>6. OldPointers'
  BY <1>0, <1>1 DEF MemoryInv, OldPointers, VarsTyped, UsesOld, rendezvousVars
<1>7. NewPointers'
  BY <1>0, <1>1
  DEF MemoryInv, NewPointers, VarsTyped, BeforeUpdate, AfterUpdate, UpdateDone,
      Migrating, rendezvousVars
<1>8. ExpandLocked' /\ ThreadsCarry'
  BY SMTT(30), <1>0
  DEF MemoryInv, ExpandLocked, ThreadsCarry, VarsTyped, Inserting, Migrating,
      rendezvousVars
<1>9. OldHolders' = OldHolders \cup {t} /\ NewHolders' = NewHolders /\ t \notin OldHolders
  BY SMTT(30), <1>0, <1>1 DEF MemoryInv, OldHolders, NewHolders, VarsTyped, UsesOld
<1>10. Cardinality(OldHolders \cup {t}) = Cardinality(OldHolders) + 1
  BY <1>9, HoldersFinite, FS_AddElement
<1>11. CountsRight'
  <2>1. CountsRight /\ next_global_seen' = next_global_seen
    BY DEF MemoryInv
  <2>. QED
    BY <1>1, <1>9, <1>10, <2>1 DEF CountsRight
<1>. QED
  BY <1>2, <1>3, <1>4, <1>5, <1>6, <1>7, <1>8, <1>11 DEF MemoryInv

\* set_thread_init: a thread starts with the current table, and no migration can
\* end before it has come to the rendezvous.
LEMMA SetThreadInitPreserves ==
    ASSUME MemoryInv, NEW t \in Threads, SetThreadInit(t), UNCHANGED aborted
    PROVE  MemoryInv'
<1>. USE DEF SetThreadInit, Goto, RefcountedPtrGet
<1>0. /\ pc[t] = "unborn" /\ rpc[t] = "new" /\ t # Main /\ next[t] = Null
      /\ global_seen \in [ptr : Nat, count : Nat]
      /\ global_seen.ptr \in 1..Len(heap)
      /\ rpc \in [Threads -> RPC]
      /\ rpc' = [rpc EXCEPT ![t] = "run"]
  BY DEF MemoryInv, ControlAgrees, NewPointers, VarsTyped, Migrating, Published,
         RendezvousInv, RendezvousTypeOK, ThreadMain
<1>1. /\ global_seen' \in [ptr : Nat, count : Nat]
      /\ global_seen'.ptr = global_seen.ptr
      /\ global_seen'.count = global_seen.count + 1
  BY <1>0
<1>2. VarsTyped'
  BY <1>0, <1>1 DEF MemoryInv, VarsTyped, Labels
<1>3. RendezvousInv'
  BY NextPreserves DEF MemoryInv, RendezvousNext, RendezvousStep
<1>4. HeapTyped' /\ Published' /\ TombstonesTell'
  BY <1>1 DEF MemoryInv, HeapTyped, Published, TombstonesTell
<1>5. ControlAgrees'
  BY SMTT(30), <1>0 DEF MemoryInv, ControlAgrees, VarsTyped
<1>6. OldPointers'
  BY <1>0, <1>1 DEF MemoryInv, OldPointers, VarsTyped, UsesOld
<1>7. NewPointers'
  BY ZenonT(40), <1>0, <1>1
  DEF MemoryInv, NewPointers, VarsTyped, BeforeUpdate, AfterUpdate, UpdateDone,
      Migrating
<1>8. ExpandLocked'
  BY <1>0 DEF MemoryInv, ExpandLocked, VarsTyped
<1>9. ThreadsCarry'
  BY <1>0 DEF MemoryInv, ThreadsCarry, VarsTyped, Inserting, Migrating
<1>10. OldHolders' = OldHolders \cup {t} /\ NewHolders' = NewHolders /\ t \notin OldHolders
  BY ZenonT(40), <1>0, <1>1 DEF MemoryInv, OldHolders, NewHolders, VarsTyped, UsesOld
<1>11. Cardinality(OldHolders \cup {t}) = Cardinality(OldHolders) + 1
  BY <1>10, HoldersFinite, FS_AddElement
<1>12. CountsRight'
  <2>1. CountsRight /\ next_global_seen' = next_global_seen
    BY DEF MemoryInv
  <2>. QED
    BY <1>1, <1>10, <1>11, <2>1 DEF CountsRight
<1>. QED
  BY <1>2, <1>3, <1>4, <1>5, <1>6, <1>7, <1>8, <1>9, <1>12 DEF MemoryInv

LEMMA StartThreadsPreserves ==
    ASSUME MemoryInv, NEW t \in Threads, StartThreads(t), UNCHANGED aborted
    PROVE  MemoryInv'
<1>. USE DEF StartThreads, StartSecondaryThreads, setState, threadState
<1>0. /\ pc[t] = "idle" /\ rpc[t] = "run" /\ t = Main
      /\ \A u \in Threads \ {t} : rpc[u] = "idle" /\ rpc'[u] = "new"
      /\ rpc'[t] = "run"
  OBVIOUS
<1>1. RendezvousInv'
  BY NextPreserves DEF MemoryInv, RendezvousNext, RendezvousStep
<1>2. VarsTyped' /\ ExpandLocked' /\ HeapTyped' /\ Published' /\ TombstonesTell'
  BY TablesUntouched DEF MemoryInv, VarsTyped, ExpandLocked
<1>3. ControlAgrees' /\ OldPointers'
  BY <1>0 DEF MemoryInv, ControlAgrees, OldPointers
<1>4. NewPointers'
  BY <1>0 DEF MemoryInv, NewPointers, BeforeUpdate, AfterUpdate, UpdateDone
<1>5. ThreadsCarry'
  BY <1>0 DEF MemoryInv, ThreadsCarry
<1>6. CountsRight'
  BY DEF MemoryInv, CountsRight, OldHolders, NewHolders
<1>. QED
  BY <1>1, <1>2, <1>3, <1>4, <1>5, <1>6 DEF MemoryInv

\* What is left: the program aborts, or has finished.
LEMMA NothingMoves ==
    ASSUME MemoryInv, aborted' \in BOOLEAN,
           UNCHANGED <<setState, threadState, rendezvousVars>>
    PROVE  MemoryInv'
<1>. USE DEF MemoryInv, setState, threadState, rendezvousVars
<1>1. RendezvousInv'
  BY NextPreserves
<1>2. VarsTyped' /\ ExpandLocked' /\ HeapTyped' /\ Published' /\ TombstonesTell'
  BY TablesUntouched DEF VarsTyped, ExpandLocked
<1>3. ControlAgrees' /\ OldPointers' /\ ThreadsCarry'
  BY DEF ControlAgrees, OldPointers, ThreadsCarry
<1>4. NewPointers'
  BY DEF NewPointers, BeforeUpdate, AfterUpdate, UpdateDone
<1>5. CountsRight'
  BY DEF CountsRight, OldHolders, NewHolders
<1>. QED
  BY <1>1, <1>2, <1>3, <1>4, <1>5

-----------------------------------------------------------------------------

LEMMA InitEstablishesMemoryInv == Init => MemoryInv
<1>. SUFFICES ASSUME Init PROVE MemoryInv
  OBVIOUS
<1>. USE DEF Init, Null
<1>1. RendezvousInv
  BY InitEstablishesInv
<1>2. rpc = [t \in Threads |-> IF t = Main THEN "run" ELSE "idle"]
  BY DEF RendezvousInit
<1>3. /\ EmptyTable(InitialSize) \in Tables /\ ~EmptyTable(InitialSize).freed
      /\ EmptyTable(InitialSize).size = InitialSize
      /\ EmptyTable(InitialSize).bucket \in [0..InitialSize-1 -> Slots]
      /\ \A i \in 0..InitialSize-1 : EmptyTable(InitialSize).bucket[i] # Tombstone
  <2>. DEFINE b == [i \in 0..InitialSize-1 |-> Empty]
  <2>1. b \in [0..InitialSize-1 -> Slots] /\ \A i \in 0..InitialSize-1 : b[i] # Tombstone
    BY SeenSetAssumption DEF Slots
  <2>2. b \in Buckets
    BY SeenSetAssumption, <2>1 DEF Buckets
  <2>. QED
    BY SeenSetAssumption, <2>1, <2>2 DEF EmptyTable, Tables
<1>4. Len(heap) = 1 /\ heap \in Seq(Tables) /\ heap[1] = EmptyTable(InitialSize)
  BY <1>3
<1>5. HeapTyped
  BY <1>3, <1>4 DEF HeapTyped
<1>6. VarsTyped
  BY ThreadsAssumption DEF VarsTyped, Labels
<1>7. Published
  BY <1>3, <1>4 DEF Published
<1>8. ControlAgrees /\ OldPointers
  BY <1>2, <1>4, ThreadsAssumption DEF ControlAgrees, OldPointers, UsesOld
<1>9. NewPointers
  BY <1>2, ThreadsAssumption
  DEF NewPointers, BeforeUpdate, AfterUpdate, UpdateDone, Migrating
<1>10. ExpandLocked /\ ThreadsCarry
  BY ThreadsAssumption DEF ExpandLocked, ThreadsCarry, Inserting, Migrating
<1>11. TombstonesTell
  BY <1>3, <1>4 DEF TombstonesTell
<1>12. OldHolders = {Main} /\ NewHolders = {}
  BY ThreadsAssumption DEF OldHolders, NewHolders, UsesOld
<1>13. CountsRight
  BY <1>12, FS_Singleton, FS_EmptySet DEF CountsRight
<1>. QED
  BY <1>1, <1>5, <1>6, <1>7, <1>8, <1>9, <1>10, <1>11, <1>13 DEF MemoryInv

LEMMA NextPreservesMemoryInv == MemoryInv /\ [Next]_vars => MemoryInv'
<1>. SUFFICES ASSUME MemoryInv, [Next]_vars PROVE MemoryInv'
  OBVIOUS
<1>0. aborted \in BOOLEAN
  BY DEF MemoryInv, VarsTyped
<1>1. CASE UNCHANGED vars
  BY <1>0, <1>1, NothingMoves DEF vars
<1>2. ASSUME NEW t \in Threads, InsertStep(t), UNCHANGED aborted
      PROVE  MemoryInv'
  BY <1>2, CheckOccupancyPreserves, ProbePreserves, CompareAndSwapPreserves,
     CountInsertionPreserves, SetExpandPreserves, SetExpandLockPreserves,
     SetExpandAllocatePreserves, MigrateGetPreserves, MigrateChunkPreserves,
     MigrateTakePreserves, MigratePlacePreserves, MigratePutPreserves,
     MeetArrivePreserves, MeetWaitPreserves, MeetLeadPreserves,
     MeetDepartPreserves, MeetLeavePreserves, ExitOptOutPreserves,
     ReacquirePreserves
  DEF InsertStep
<1>3. ASSUME NEW t \in Threads, ThreadStep(t) PROVE MemoryInv'
  BY <1>2, <1>3, SetThreadInitPreserves, NothingMoves DEF ThreadStep, Abort
<1>4. ASSUME NEW t \in Threads, ExploreStep(t) PROVE MemoryInv'
  BY <1>4, ExitPreserves, InsertPreserves DEF ExploreStep, CallerStep
<1>. QED
  BY <1>1, <1>3, <1>4, StartThreadsPreserves DEF Next, Finished

\* Whoever makes the program abort leads while it opts out, or migrates beyond the
\* last slot.
AbortExplained ==
    aborted => \E t \in Threads :
        \/ rpc[t] = "outlead" /\ FreesTwice(t)
        \/ pc[t] = "take" /\ pos[t] >= heap[local_seen[t]].size

\* A thread that leads the rendezvous of its own migration frees the current
\* table, which was not freed before.
LEMMA LeaderFreesOnce ==
    ASSUME MemoryInv, NEW t \in Threads, rpc[t] = "lead"
    PROVE  ~FreesTwice(t)
<1>1. local_seen[t] = global_seen.ptr
  BY DEF MemoryInv, ControlAgrees, OldPointers
<1>. QED
  BY <1>1 DEF MemoryInv, Published, FreesTwice

LEMMA NextPreservesAbortExplained ==
    MemoryInv /\ AbortExplained /\ [Next]_vars => AbortExplained'
<1>. SUFFICES ASSUME MemoryInv, AbortExplained, [Next]_vars, aborted'
              PROVE  AbortExplained'
  BY DEF AbortExplained
<1>1. CASE UNCHANGED vars
  BY <1>1 DEF vars, setState, threadState, rendezvousVars, AbortExplained, FreesTwice
<1>2. ASSUME NEW t \in Threads, Abort(t)
      PROVE  AbortExplained'
  <2>1. \/ rpc[t] = "outlead" /\ FreesTwice(t)
        \/ pc[t] = "take" /\ pos[t] >= heap[local_seen[t]].size
    BY <1>2, LeaderFreesOnce DEF Abort
  <2>. QED
    BY <1>2, <2>1
    DEF Abort, setState, threadState, rendezvousVars, AbortExplained, FreesTwice
<1>3. aborted \in BOOLEAN
  BY DEF MemoryInv, VarsTyped
<1>. QED
  BY <1>1, <1>2, <1>3 DEF Next, ThreadStep, ExploreStep, Finished

LEMMA InvImpliesNoUseAfterFree == MemoryInv /\ AbortExplained => NoUseAfterFree
<1>. SUFFICES ASSUME MemoryInv, AbortExplained PROVE NoUseAfterFree
  OBVIOUS
<1>1. global_seen.ptr \in Live /\ next_global_seen.ptr \in Live \cup {Null}
  BY DEF MemoryInv, Published, Live, Null
<1>2. ASSUME NEW t \in Threads, pc[t] \in UsesOld \cup {"idle"}
      PROVE  local_seen[t] \in Live
  BY <1>2, OldTableLive DEF Live
<1>3. ASSUME NEW t \in Threads, pc[t] \in UsesNew
      PROVE  next[t] \in Live
  <2>1. rpc[t] \in RPC
    BY DEF MemoryInv, RendezvousInv, RendezvousTypeOK
  <2>2. BeforeUpdate(t) \/ AfterUpdate(t)
    BY <1>3, <2>1
    DEF MemoryInv, ControlAgrees, UsesNew, Migrating, BeforeUpdate, AfterUpdate, RPC
  <2>. QED
    BY <1>1, <2>2, NewTableLive DEF MemoryInv, NewPointers, Live
<1>4. ASSUME NEW t \in Threads, rpc[t] = "lead" \/ (pc[t] = "optout" /\ rpc[t] = "run")
      PROVE  local_seen[t] \in Live
  <2>1. local_seen[t] = global_seen.ptr
    BY <1>4 DEF MemoryInv, ControlAgrees, OldPointers
  <2>. QED
    BY <1>1, <2>1
<1>. QED
  BY <1>1, <1>2, <1>3, <1>4 DEF NoUseAfterFree, AbortExplained

LEMMA InvImpliesPublishedOnly == MemoryInv => PublishedOnly
<1>. SUFFICES ASSUME MemoryInv PROVE PublishedOnly
  OBVIOUS
<1>1. TwoInFlight
  BY DEF MemoryInv, Published, TwoInFlight, Live, Null
<1>2. RefcountsAgree
  BY DEF MemoryInv, CountsRight, RefcountsAgree, OldHolders, NewHolders
<1>. QED
  BY <1>1, <1>2 DEF PublishedOnly

\* What TypeOK adds to the types of the variables: a pointer is never beyond the
\* last table.
LEMMA InvImpliesTypeOK == MemoryInv => TypeOK
<1>. SUFFICES ASSUME MemoryInv PROVE TypeOK
  OBVIOUS
<1>1. \A t \in Threads : next[t] \in Pointers /\ local_seen[t] \in Pointers
  <2>. TAKE t \in Threads
  <2>1. rpc[t] \in RPC /\ Len(heap) \in Nat
    BY DEF MemoryInv, RendezvousInv, RendezvousTypeOK, HeapTyped
  <2>2. BeforeUpdate(t) \/ AfterUpdate(t) \/ next[t] = Null
    BY <2>1
    DEF MemoryInv, ControlAgrees, NewPointers, Migrating, BeforeUpdate, AfterUpdate, RPC
  <2>. QED
    BY <2>1, <2>2
    DEF MemoryInv, NewPointers, OldPointers, Published, Pointers, Null
<1>2. /\ local_seen \in [Threads -> Pointers]
      /\ next \in [Threads -> Pointers]
  BY <1>1 DEF MemoryInv, VarsTyped
<1>3. /\ global_seen \in [ptr : Pointers, count : Nat]
      /\ next_global_seen \in [ptr : Pointers, count : Nat]
  BY DEF MemoryInv, VarsTyped, Published, Pointers
<1>4. \A k \in 1..Len(heap) :
        /\ heap[k].size \in Nat
        /\ heap[k].freed \in BOOLEAN
        /\ ~heap[k].freed => heap[k].bucket \in [0..heap[k].size-1 -> Slots]
  BY TableFields DEF MemoryInv, HeapTyped
<1>. QED
  BY <1>2, <1>3, <1>4 DEF MemoryInv, RendezvousInv, VarsTyped, TypeOK

\* The tables that set_insert, set_migrate and set_find work on, that a leader of
\* its own migration frees and that a thread begins to exit with are allocated;
\* if memory is ever freed twice or strayed from, it is by a thread that leads
\* while it opts out, or that migrates beyond the last slot: for any number of
\* threads, states and slots.
THEOREM SeenSetNoUseAfterFree == Spec => []NoUseAfterFree
<1>1. Init => AbortExplained
  BY DEF Init, AbortExplained
<1>. QED
  BY <1>1, InitEstablishesMemoryInv, NextPreservesMemoryInv, NextPreservesAbortExplained,
     InvImpliesNoUseAfterFree, PTL
  DEF Spec

\* At most two tables are in flight, exactly the published ones, and the counts
\* of refcounted_ptr_get, _put and _shift are the threads that hold them.
THEOREM SeenSetPublishedOnly == Spec => []PublishedOnly
BY InitEstablishesMemoryInv, NextPreservesMemoryInv, InvImpliesPublishedOnly, PTL
DEF Spec

\* Every variable keeps its type: no count drops below zero, no pointer is wild
\* and every slot of an allocated table holds a slot value.
THEOREM SeenSetTypeCorrect == Spec => []TypeOK
BY InitEstablishesMemoryInv, NextPreservesMemoryInv, InvImpliesTypeOK, PTL DEF Spec
=============================================================================
