------------------------- MODULE SeenSetTableProofs -------------------------
(***************************************************************************)
(* Proofs about the contents of SeenSet's tables: a state is in one place  *)
(* only, linear probing finds it there, no slot is migrated twice, the     *)
(* occupancy counts the states, and set_insert is linearizable.            *)
(*                                                                         *)
(* None of these is inductive.  A compare-and-swap may add a state because *)
(* its thread has probed every slot on the way in vain (ProbedInVain) and  *)
(* the state cannot have appeared on it since: had it been inserted, it    *)
(* would stand no further than the empty slot (StatesReachable), and had   *)
(* it been migrated in the meantime, it would have left a tombstone that   *)
(* the thread has still to come to (MovedLeavesTrace).  That a migration   *)
(* leaves nothing behind rests on every slot of a claimed chunk being a    *)
(* tombstone or ahead of the thread that claimed it (TombstonesMigrated).  *)
(***************************************************************************)
EXTENDS SeenSetProofs

\* Shorthands for the two tables in flight.
cur == global_seen.ptr
nxt == next_global_seen.ptr
InFlight == {cur, nxt} \ {Null}

\* The slot of table k that probing for s comes to after d others, ...
Slot(k, s, d) == SetIndex(k, Hash[s] + d)
Indices(k) == 0..heap[k].size - 1
Content(k, i) == heap[k].bucket[i]

\* ... and that it does come to: none of those is empty.
ProbingReaches(k, s, d) == \A e \in 0..d-1 : Content(k, Slot(k, s, e)) # Empty

Probing(t) == pc[t] \in {"probe", "cas"}
Moving(t) == pc[t] \in {"take", "place"}
ChunkOf(i) == i \div ChunkSize

TablesGrow ==
    IF nxt = Null THEN cur = Len(heap)
    ELSE nxt = Len(heap) /\ heap[cur].size <= heap[nxt].size

\* Each chunk is claimed by one thread, and a thread that gives up the old table
\* has seen all chunks claimed.
ChunksClaimed ==
    /\ nxt = Null => next_migration = 0
    /\ \A t \in Threads :
          /\ Moving(t) => ChunkOf(pos[t]) < next_migration
          /\ pc[t] = "put" \/ (pc[t] = "meet" /\ BeforeUpdate(t)) =>
                heap[cur].size <= next_migration * ChunkSize
    /\ \A t, u \in Threads :
          Moving(t) /\ Moving(u) /\ t # u => ChunkOf(pos[t]) # ChunkOf(pos[u])
    /\ nxt # Null => \E t \in Threads : pc[t] = "get" \/ BeforeUpdate(t)

\* A slot has been migrated once its chunk has been claimed, and the thread that
\* claimed it, if it is still at work on it, has come past the slot.
Migrated(i) ==
    /\ ChunkOf(i) < next_migration
    /\ \A t \in Threads :
          Moving(t) /\ ChunkOf(pos[t]) = ChunkOf(i) =>
              i < pos[t] \/ (pc[t] = "place" /\ i = pos[t])

TombstonesMigrated ==
    nxt # Null =>
        \A i \in Indices(cur) : Content(cur, i) = Tombstone <=> Migrated(i)

\* A state's place in a table is one that probing for it comes to.
StatesReachable ==
    /\ \A k \in InFlight : \A i \in Indices(k) :
          Content(k, i) \in States =>
              \E d \in Nat : i = Slot(k, Content(k, i), d)
                             /\ ProbingReaches(k, Content(k, i), d)
    /\ \A t \in Threads :
          pc[t] = "place" =>
              \E d \in Nat : target[t] = Slot(nxt, hand[t], d)
                             /\ ProbingReaches(nxt, hand[t], d)

\* The slots a thread has probed in vain neither were empty nor held its state.
ProbedInVain ==
    \A t \in Threads :
        Probing(t) =>
            \A e \in 0..pos[t]-1 :
                Content(cur, Slot(cur, arg[t], e)) \notin {Empty, arg[t]}

InTable(k, s) == \E i \in Indices(k) : Content(k, i) = s
Carried(s) == \E t \in Threads : hand[t] = s

\* A state that has been migrated has left a tombstone in the current table where
\* every thread that is looking for it will come to.
MovedLeavesTrace ==
    nxt # Null =>
        \A s \in States :
            InTable(nxt, s) \/ Carried(s) =>
                \E d \in Nat :
                    /\ Content(cur, Slot(cur, s, d)) = Tombstone
                    /\ ProbingReaches(cur, s, d)
                    /\ \A t \in Threads : Probing(t) /\ arg[t] = s => pos[t] <= d

\* A state is in one slot of one table, or in one thread's hands.
OnePlace ==
    /\ \A k \in InFlight : \A i, j \in Indices(k) :
          Content(k, i) \in States /\ Content(k, i) = Content(k, j) => i = j
    /\ nxt # Null => \A s \in States : ~(InTable(cur, s) /\ InTable(nxt, s))
    /\ \A t \in Threads : \A k \in InFlight :
          hand[t] \in States => ~InTable(k, hand[t])
    /\ \A t, u \in Threads : hand[t] \in States /\ hand[t] = hand[u] => t = u

Kept == {s \in States : Carried(s) \/ \E k \in InFlight : InTable(k, s)}
Counting == {t \in Threads : pc[t] = "count"}

KeptCounted ==
    /\ IsFiniteSet(Kept)
    /\ seen_count + Cardinality(Counting) = Cardinality(Kept)

\* A thread is inserting something exactly between its call of set_insert and its
\* return.
ArgsInserted ==
    \A t \in Threads :
        IF pc[t] \in Inserting \cup {"count"} THEN arg[t] \in States ELSE arg[t] = Empty

TableInv ==
    /\ TablesGrow
    /\ ChunksClaimed
    /\ TombstonesMigrated
    /\ StatesReachable
    /\ ProbedInVain
    /\ MovedLeavesTrace
    /\ OnePlace
    /\ KeptCounted
    /\ ArgsInserted

-----------------------------------------------------------------------------
(***************************************************************************)
(* Integer division.                                                       *)
(***************************************************************************)

Divides(a, b, q, r) == q \in Nat /\ r \in 0..b-1 /\ a = q * b + r

LEMMA DivisionExists ==
    \A a \in Nat : \A b \in Nat \ {0} : Divides(a, b, a \div b, a % b)
BY DEF Divides

LEMMA DivisionUnique ==
    ASSUME NEW a, NEW b \in Nat \ {0}, NEW q, NEW r, NEW p, NEW s,
           Divides(a, b, q, r), Divides(a, b, p, s)
    PROVE  q = p /\ r = s
<1>. /\ q \in Nat /\ p \in Nat /\ r \in 0..b-1 /\ s \in 0..b-1
     /\ q * b + r = p * b + s
  BY DEF Divides
<1>1. CASE q < p
  <2>1. PICK k \in Nat : p = q + 1 + k
    <3>1. p = q + 1 + (p - q - 1) /\ p - q - 1 \in Nat
      BY <1>1
    <3>. QED
      BY <3>1
  <2>2. p * b = q * b + b + k * b /\ k * b \in Nat
    BY <2>1
  <2>. QED
    BY <2>2
<1>2. CASE p < q
  <2>1. PICK k \in Nat : q = p + 1 + k
    <3>1. q = p + 1 + (q - p - 1) /\ q - p - 1 \in Nat
      BY <1>2
    <3>. QED
      BY <3>1
  <2>2. q * b = p * b + b + k * b /\ k * b \in Nat
    BY <2>1
  <2>. QED
    BY <2>2
<1>3. CASE p = q
  BY <1>3
<1>. QED
  BY <1>1, <1>2, <1>3

LEMMA RemainderOfSum ==
    ASSUME NEW a \in Nat, NEW d \in Nat, NEW b \in Nat \ {0}
    PROVE  ((a % b) + d) % b = (a + d) % b
<1>1. PICK q, r : q = a \div b /\ r = a % b
  OBVIOUS
<1>2. Divides(a, b, q, r)
  BY <1>1, DivisionExists
<1>3. PICK p, s : p = (r + d) \div b /\ s = (r + d) % b
  OBVIOUS
<1>4. r + d \in Nat
  BY <1>2 DEF Divides
<1>5. Divides(r + d, b, p, s)
  BY <1>3, <1>4, DivisionExists
<1>6. Divides(a + d, b, q + p, s)
  BY <1>2, <1>5 DEF Divides
<1>7. Divides(a + d, b, (a + d) \div b, (a + d) % b)
  BY DivisionExists, a + d \in Nat
<1>8. s = (a + d) % b
  BY <1>6, <1>7, DivisionUnique
<1>. QED
  BY <1>1, <1>3, <1>8

\* How far linear probing from a has come when it is at the slot d after a.
LEMMA DistanceBack ==
    ASSUME NEW a \in Nat, NEW d \in Nat, NEW b \in Nat \ {0}
    PROVE  (((a + d) % b) + b - (a % b)) % b = d % b
<1>1. PICK q, r : q = a \div b /\ r = a % b
  OBVIOUS
<1>2. Divides(a, b, q, r)
  BY <1>1, DivisionExists
<1>3. PICK p, s : p = (a + d) \div b /\ s = (a + d) % b
  OBVIOUS
<1>4. Divides(a + d, b, p, s)
  BY <1>3, DivisionExists, a + d \in Nat
<1>5. PICK e, f : e = d \div b /\ f = d % b
  OBVIOUS
<1>6. Divides(d, b, e, f)
  BY <1>5, DivisionExists
<1>7. r + f = s \/ r + f = s + b
  <2>1. CASE r + f < b
    <3>1. Divides(a + d, b, q + e, r + f)
      BY <2>1, <1>2, <1>6 DEF Divides
    <3>. QED
      BY <3>1, <1>4, DivisionUnique
  <2>2. CASE r + f >= b
    <3>1. Divides(a + d, b, q + e + 1, r + f - b)
      BY <2>2, <1>2, <1>6 DEF Divides
    <3>2. s = r + f - b
      BY <3>1, <1>4, DivisionUnique
    <3>. QED
      BY <3>2, <1>2, <1>4, <1>6 DEF Divides
  <2>. QED
    BY <2>1, <2>2, <1>2, <1>6 DEF Divides
<1>8. s + b - r = f \/ s + b - r = f + b
  BY <1>7, <1>2, <1>4, <1>6 DEF Divides
<1>9. f % b = f /\ (f + b) % b = f
  <2>1. Divides(f, b, 0, f) /\ Divides(f + b, b, 1, f) /\ f \in Nat /\ f + b \in Nat
    BY <1>6 DEF Divides
  <2>2. /\ Divides(f, b, f \div b, f % b)
        /\ Divides(f + b, b, (f + b) \div b, (f + b) % b)
    BY <2>1, DivisionExists
  <2>. QED
    BY <2>1, <2>2, DivisionUnique
<1>. QED
  BY <1>1, <1>3, <1>5, <1>8, <1>9

\* Chunks: where they start, and that a slot belongs to its predecessor's chunk
\* unless it starts one.
LEMMA ChunkFacts ==
    /\ \A m \in Nat : m * ChunkSize \in Nat /\ ChunkOf(m * ChunkSize) = m
    /\ \A i \in Nat : ChunkOf(i) \in Nat
    /\ \A i \in Nat : ~ChunkEnd(i + 1) => ChunkOf(i + 1) = ChunkOf(i)
    /\ \A i \in Nat : ChunkEnd(i + 1) => \A j \in Nat : ChunkOf(j) = ChunkOf(i) => j <= i
    /\ \A i, m \in Nat : i < m * ChunkSize => ChunkOf(i) < m
    /\ \A i, m \in Nat : ChunkOf(i) = m => m * ChunkSize <= i
<1>. DEFINE c == ChunkSize
<1>0. c \in Nat \ {0}
  BY SeenSetAssumption
<1>. HIDE DEF c
<1>1. \A m \in Nat : m * c \in Nat /\ (m * c) \div c = m
  BY <1>0
<1>2. \A i \in Nat : i \div c \in Nat
  BY <1>0
<1>3. \A i \in Nat : (i + 1) % c # 0 => (i + 1) \div c = i \div c
  BY <1>0
<1>4. \A i \in Nat : (i + 1) % c = 0 => \A j \in Nat : j \div c = i \div c => j <= i
  BY <1>0
<1>5. \A i, m \in Nat : i < m * c => i \div c < m
  BY <1>0
<1>6. \A i, m \in Nat : i \div c = m => m * c <= i
  BY <1>0
<1>. QED
  BY <1>1, <1>2, <1>3, <1>4, <1>5, <1>6 DEF ChunkOf, ChunkEnd, c

-----------------------------------------------------------------------------
(***************************************************************************)
(* Slots.                                                                  *)
(***************************************************************************)

\* A table in flight is one that is allocated.
LEMMA InFlightLive ==
    ASSUME MemoryInv, NEW k \in InFlight
    PROVE  /\ k \in 1..Len(heap) /\ ~heap[k].freed
           /\ heap[k].size \in Nat \ {0}
           /\ heap[k].bucket \in [Indices(k) -> Slots]
<1>1. k \in 1..Len(heap) /\ ~heap[k].freed /\ HeapTyped
  BY DEF MemoryInv, Published, InFlight, cur, nxt, Null
<1>. QED
  BY <1>1, TableFields DEF HeapTyped, Indices

LEMMA CurInFlight ==
    ASSUME MemoryInv
    PROVE  cur \in InFlight /\ (nxt # Null => nxt \in InFlight) /\ cur # nxt
BY DEF MemoryInv, Published, InFlight, cur, nxt, Null

LEMMA SlotInRange ==
    ASSUME HeapTyped, NEW k \in 1..Len(heap), NEW s \in States, NEW d \in Nat
    PROVE  Slot(k, s, d) \in Indices(k)
<1>1. Hash[s] + d \in Nat
  BY SeenSetAssumption
<1>2. heap[k].size \in Nat \ {0}
  BY TableFields
<1>. QED
  BY <1>1, <1>2, RemainderInRange DEF Slot, SetIndex, Indices

\* The slot after one is the next to probe.
LEMMA NextToProbe ==
    ASSUME HeapTyped, NEW k \in 1..Len(heap), NEW s \in States, NEW d \in Nat
    PROVE  SetIndex(k, Slot(k, s, d) + 1) = Slot(k, s, d + 1)
<1>1. Hash[s] + d \in Nat /\ Hash[s] + (d + 1) = (Hash[s] + d) + 1
  BY SeenSetAssumption
<1>2. heap[k].size \in Nat \ {0}
  BY TableFields
<1>. QED
  BY SMTT(30), <1>1, <1>2, RemainderOfSum DEF Slot, SetIndex

\* What a write does to the slots, as long as it does not empty one.
LEMMA WriteKeepsReaching ==
    ASSUME HeapTyped, NEW k \in 1..Len(heap), NEW i \in Indices(k),
           NEW v \in Slots \ {Empty}, OnlySlotChanges(k, i, v)
    PROVE  \A j \in 1..Len(heap) :
              /\ Indices(j)' = Indices(j)
              /\ \A s \in States : \A d \in Nat :
                    /\ Slot(j, s, d)' = Slot(j, s, d)
                    /\ ProbingReaches(j, s, d) => ProbingReaches(j, s, d)'
              /\ \A x \in Indices(j) :
                    Content(j, x)' = IF j = k /\ x = i THEN v ELSE Content(j, x)
<1>. SUFFICES ASSUME NEW j \in 1..Len(heap)
              PROVE  /\ Indices(j)' = Indices(j)
                     /\ \A s \in States : \A d \in Nat :
                           /\ Slot(j, s, d)' = Slot(j, s, d)
                           /\ ProbingReaches(j, s, d) => ProbingReaches(j, s, d)'
                     /\ \A x \in Indices(j) :
                           Content(j, x)' = IF j = k /\ x = i THEN v ELSE Content(j, x)
  OBVIOUS
<1>1. heap'[j].size = heap[j].size
  BY DEF OnlySlotChanges
<1>2. Indices(j)' = Indices(j) /\ \A s \in States : \A d \in Nat : Slot(j, s, d)' = Slot(j, s, d)
  BY <1>1 DEF Indices, Slot, SetIndex
<1>3. \A x \in Indices(j) :
        Content(j, x)' = IF j = k /\ x = i THEN v ELSE Content(j, x)
  BY DEF OnlySlotChanges, Content, Indices
<1>4. ASSUME NEW s \in States, NEW d \in Nat, ProbingReaches(j, s, d)
      PROVE  ProbingReaches(j, s, d)'
  <2>. SUFFICES ASSUME NEW e \in 0..d-1
                PROVE  Content(j, Slot(j, s, e))' # Empty
    BY DEF ProbingReaches
  <2>1. Slot(j, s, e) \in Indices(j) /\ Content(j, Slot(j, s, e)) # Empty
    BY <1>4, SlotInRange DEF ProbingReaches
  <2>2. PICK x \in Indices(j) : x = Slot(j, s, e)
    BY <2>1
  <2>3. Content(j, x)' # Empty
    BY <1>3, <2>1, <2>2
  <2>. QED
    BY <1>2, <2>2, <2>3 DEF Content
<1>. QED
  BY <1>2, <1>3, <1>4

\* Two places of one state cannot be told apart: what the run checks of Places
\* follows from OnePlace.
LEMMA StoredIsKept ==
    ASSUME MemoryInv, TablesGrow
    PROVE  Stored = Kept
<1>1. Live = InFlight
  BY InvImpliesPublishedOnly DEF PublishedOnly, TwoInFlight, InFlight, cur, nxt
<1>2. Len(heap) \in InFlight
  BY CurInFlight DEF TablesGrow
<1>3. \A k \in InFlight : heap[k].size \in Nat /\ heap[k].size <= heap[Len(heap)].size
  BY InFlightLive, <1>2 DEF TablesGrow, InFlight, cur, nxt, Null
<1>4. ASSUME NEW s \in States
      PROVE  Places(s) # {} <=> Carried(s) \/ \E k \in InFlight : InTable(k, s)
  <2>1. ASSUME NEW k \in InFlight, NEW i \in Indices(k), Content(k, i) = s
        PROVE  <<k, i>> \in Places(s)
    <3>1. i \in 0..heap[Len(heap)].size - 1 /\ i < heap[k].size
      BY <1>2, <1>3, <2>1 DEF Indices
    <3>. QED
      BY <1>1, <2>1, <3>1 DEF Places, Content
  <2>2. ASSUME NEW p \in Places(s)
        PROVE  Carried(s) \/ \E k \in InFlight : InTable(k, s)
    <3>1. CASE p \in Threads /\ hand[p] = s
      BY <3>1 DEF Carried
    <3>2. CASE /\ p \in Live \X (0..heap[Len(heap)].size - 1)
               /\ p[2] < heap[p[1]].size /\ heap[p[1]].bucket[p[2]] = s
      <4>1. p[1] \in InFlight /\ p[2] \in Nat /\ p[2] < heap[p[1]].size
        BY <1>1, <1>2, <1>3, <3>2
      <4>2. p[2] \in Indices(p[1]) /\ Content(p[1], p[2]) = s
        BY <1>3, <3>2, <4>1 DEF Indices, Content
      <4>. QED
        BY <4>1, <4>2 DEF InTable
    <3>. QED
      BY <3>1, <3>2 DEF Places
  <2>3. ASSUME NEW t \in Threads, hand[t] = s
        PROVE  t \in Places(s)
    BY <2>3 DEF Places
  <2>. QED
    BY <2>1, <2>2, <2>3 DEF Carried, InTable
<1>. QED
  BY <1>4 DEF Stored, Kept

-----------------------------------------------------------------------------
(***************************************************************************)
(* Steps that leave the tables' contents alone.                            *)
(***************************************************************************)

\* Thread t does not probe yet after the step, or it has come one slot further
\* past another state's.
ProbesOn(t) ==
    Probing(t)' =>
        \/ pos'[t] = 0
        \/ /\ Probing(t) /\ arg'[t] = arg[t]
           /\ \/ pos'[t] = pos[t]
              \/ /\ pos'[t] = pos[t] + 1
                 /\ Content(cur, Slot(cur, arg[t], pos[t])) \in States \ {arg[t]}

\* The threads that have given up the old table and await the update.
AwaitsUpdate(t) == pc[t] = "put" \/ (pc[t] = "meet" /\ BeforeUpdate(t))

SameTables ==
    UNCHANGED <<heap, hand, target, next_migration, cur, nxt>>

\* Steps that insert nothing keep what is kept.
KeepsTables == TableInv' /\ Kept' = Kept

\* What follows of a step that leaves the tables alone.
TablesKept ==
    /\ TablesGrow' /\ ChunksClaimed' /\ TombstonesMigrated' /\ StatesReachable'
    /\ ProbedInVain' /\ MovedLeavesTrace' /\ OnePlace'
    /\ Kept' = Kept

LEMMA QuietStep ==
    ASSUME MemoryInv, MemoryInv', TableInv, SameTables, NEW t \in Threads,
           \A u \in Threads \ {t} :
               pc'[u] = pc[u] /\ pos'[u] = pos[u] /\ arg'[u] = arg[u],
           ~Moving(t), ~Moving(t)', ProbesOn(t),
           \A u \in Threads : AwaitsUpdate(u)' => AwaitsUpdate(u),
           nxt # Null => \E u \in Threads : (pc[u] = "get" \/ BeforeUpdate(u))'
    PROVE  TablesKept
<1>. USE DEF SameTables, TableInv
<1>1. InFlight' = InFlight /\ cur' = cur /\ nxt' = nxt
  BY DEF InFlight
<1>2. /\ \A k, i : Content(k, i)' = Content(k, i)
      /\ \A k : Indices(k)' = Indices(k)
      /\ \A k, x, d : Slot(k, x, d)' = Slot(k, x, d)
  BY DEF Content, Indices, Slot, SetIndex
<1>3. \A k, x, d : ProbingReaches(k, x, d)' <=> ProbingReaches(k, x, d)
  BY <1>2 DEF ProbingReaches
<1>4. /\ \A k, x : InTable(k, x)' <=> InTable(k, x)
      /\ \A x : Carried(x)' <=> Carried(x)
  BY <1>2 DEF InTable, Carried
<1>5. TablesGrow'
  BY <1>1 DEF TablesGrow
<1>6. \A u \in Threads \ {t} : (Moving(u)' <=> Moving(u)) /\ (Probing(u)' <=> Probing(u))
  BY DEF Moving, Probing
<1>7. ChunksClaimed'
  <2>1. \A u \in Threads : Moving(u)' => Moving(u) /\ pos'[u] = pos[u]
    BY <1>6
  <2>2. \A u \in Threads :
          /\ Moving(u)' => ChunkOf(pos'[u]) < next_migration'
          /\ AwaitsUpdate(u)' => heap'[cur'].size <= next_migration' * ChunkSize
    BY <1>1, <2>1 DEF ChunksClaimed, AwaitsUpdate
  <2>. QED
    BY <1>1, <2>1, <2>2 DEF ChunksClaimed, ChunkOf, AwaitsUpdate
<1>8. TombstonesMigrated'
  <2>1. \A i : Migrated(i)' <=> Migrated(i)
    BY <1>6 DEF Migrated, ChunkOf, Moving
  <2>. QED
    BY <1>1, <1>2, <2>1 DEF TombstonesMigrated
<1>9. StatesReachable'
  <2>1. \A u \in Threads : pc'[u] = "place" => pc[u] = "place"
    BY DEF Moving
  <2>. QED
    BY <1>1, <1>2, <1>3, <2>1 DEF StatesReachable
<1>10. ProbedInVain'
  <2>1. ASSUME NEW u \in Threads, Probing(u)', NEW e \in 0..pos'[u]-1
        PROVE  Content(cur, Slot(cur, arg'[u], e)) \notin {Empty, arg'[u]}
    <3>1. CASE u # t
      BY <1>6, <2>1, <3>1 DEF ProbedInVain
    <3>2. CASE u = t
      <4>1. pos'[t] # 0 /\ pos[t] \in Nat
        BY <2>1, <3>2 DEF MemoryInv, VarsTyped
      <4>2. /\ Probing(t) /\ arg'[t] = arg[t]
            /\ e \in 0..pos[t]-1 \/ (e = pos[t] /\ Content(cur, Slot(cur, arg[t], pos[t]))
                                                      \in States \ {arg[t]})
        BY <2>1, <3>2, <4>1 DEF ProbesOn
      <4>. QED
        BY <3>2, <4>2, SeenSetAssumption DEF ProbedInVain
    <3>. QED
      BY <3>1, <3>2
  <2>. QED
    BY <1>1, <1>2, <2>1 DEF ProbedInVain
<1>11. MovedLeavesTrace'
  <2>. SUFFICES ASSUME nxt # Null, NEW x \in States, InTable(nxt, x) \/ Carried(x)
                PROVE  \E d \in Nat :
                          /\ Content(cur, Slot(cur, x, d)) = Tombstone
                          /\ ProbingReaches(cur, x, d)
                          /\ \A u \in Threads : Probing(u)' /\ arg'[u] = x => pos'[u] <= d
    BY <1>1, <1>2, <1>3, <1>4 DEF MovedLeavesTrace
  <2>1. PICK d \in Nat :
          /\ Content(cur, Slot(cur, x, d)) = Tombstone
          /\ ProbingReaches(cur, x, d)
          /\ \A u \in Threads : Probing(u) /\ arg[u] = x => pos[u] <= d
    BY DEF MovedLeavesTrace
  <2>2. ASSUME NEW u \in Threads, Probing(u)', arg'[u] = x
        PROVE  pos'[u] <= d
    <3>1. CASE u # t
      BY <1>6, <2>1, <2>2, <3>1
    <3>2. CASE u = t /\ pos'[t] = 0
      BY <3>2
    <3>3. CASE u = t /\ Probing(t) /\ arg'[t] = arg[t] /\ pos'[t] = pos[t]
      BY <2>1, <2>2, <3>3
    <3>4. CASE /\ u = t /\ Probing(t) /\ arg'[t] = arg[t] /\ pos'[t] = pos[t] + 1
               /\ Content(cur, Slot(cur, arg[t], pos[t])) \in States \ {arg[t]}
      <4>1. pos[t] <= d /\ pos[t] # d /\ pos[t] \in Nat
        BY <2>1, <2>2, <3>4, SeenSetAssumption DEF MemoryInv, VarsTyped
      <4>. QED
        BY <3>4, <4>1
    <3>. QED
      BY <2>2, <3>1, <3>2, <3>3, <3>4 DEF ProbesOn
  <2>. QED
    BY <2>1, <2>2
<1>12. OnePlace'
  BY <1>1, <1>2, <1>4 DEF OnePlace
<1>13. Kept' = Kept
  BY <1>1, <1>4 DEF Kept
<1>. QED
  BY <1>5, <1>7, <1>8, <1>9, <1>10, <1>11, <1>12, <1>13 DEF TablesKept

\* The same of a thread that goes from one point of set_insert or exit_with to
\* another, neither of them inside set_migrate's loops or at the rendezvous.
InsideMove(t, l) ==
    /\ SameTables
    /\ pc' = [pc EXCEPT ![t] = l]
    /\ \A u \in Threads \ {t} :
          pos'[u] = pos[u] /\ arg'[u] = arg[u] /\ rpc'[u] = rpc[u]
    /\ UpdateDone' <=> UpdateDone
    /\ l \notin {"take", "place", "put", "meet"}
    /\ \/ pc[t] \notin {"get", "meet"} \cup Migrating
       \/ pc[t] = "get" /\ l = "chunk"
    /\ ProbesOn(t)

LEMMA InsideStep ==
    ASSUME MemoryInv, MemoryInv', TableInv, NEW t \in Threads, NEW l, InsideMove(t, l)
    PROVE  TablesKept
<1>. USE DEF InsideMove
<1>0. pc \in [Threads -> Labels]
  BY DEF MemoryInv, VarsTyped
<1>1. \A u \in Threads \ {t} : pc'[u] = pc[u] /\ (BeforeUpdate(u)' <=> BeforeUpdate(u))
  BY <1>0 DEF BeforeUpdate
<1>2. pc'[t] = l
  BY <1>0
<1>3. ~Moving(t) /\ ~Moving(t)'
  BY <1>2 DEF Moving, Migrating
<1>4. \A u \in Threads : AwaitsUpdate(u)' => AwaitsUpdate(u)
  BY <1>1, <1>2 DEF AwaitsUpdate
<1>5. nxt # Null => \E u \in Threads : (pc[u] = "get" \/ BeforeUpdate(u))'
  <2>. SUFFICES ASSUME nxt # Null
                PROVE  \E u \in Threads : (pc[u] = "get" \/ BeforeUpdate(u))'
    OBVIOUS
  <2>1. PICK u \in Threads : pc[u] = "get" \/ BeforeUpdate(u)
    BY DEF TableInv, ChunksClaimed
  <2>2. CASE u # t
    BY <1>1, <2>1, <2>2
  <2>3. CASE u = t
    <3>1. pc[t] \in {"get", "meet"} \cup Migrating
      BY <2>1, <2>3 DEF BeforeUpdate
    <3>2. BeforeUpdate(t)'
      BY <1>2, <3>1 DEF BeforeUpdate, Migrating
    <3>. QED
      BY <3>2
  <2>. QED
    BY <2>2, <2>3
<1>. QED
  BY <1>1, <1>3, <1>4, <1>5, QuietStep

LEMMA StillCounted ==
    ASSUME KeptCounted, Kept' = Kept, Counting' = Counting, seen_count' = seen_count
    PROVE  KeptCounted'
BY DEF KeptCounted

LEMMA InsertKeepsTables ==
    ASSUME MemoryInv, MemoryInv', TableInv, NEW t \in Threads, NEW s \in States, Insert(t, s)
    PROVE  KeepsTables
<1>. USE DEF Insert, Goto, setState, rendezvousVars
<1>1. /\ pc \in [Threads -> Labels] /\ arg \in [Threads -> States \cup {Empty}]
      /\ pc' = [pc EXCEPT ![t] = "check"] /\ arg' = [arg EXCEPT ![t] = s]
  BY DEF MemoryInv, VarsTyped
<1>2. SameTables /\ (UpdateDone' <=> UpdateDone)
  BY DEF SameTables, cur, nxt, UpdateDone
<1>3. ProbesOn(t) /\ Counting' = Counting
  BY <1>1 DEF ProbesOn, Probing, Counting
<1>4. InsideMove(t, "check")
  BY <1>1, <1>2, <1>3 DEF InsideMove, Migrating
<1>5. ArgsInserted'
  BY <1>1 DEF TableInv, ArgsInserted, Inserting, Migrating
<1>6. seen_count' = seen_count
  OBVIOUS
<1>. QED
  BY <1>3, <1>4, <1>5, <1>6, InsideStep, StillCounted DEF TableInv, TablesKept, KeepsTables

LEMMA CheckOccupancyKeepsTables ==
    ASSUME MemoryInv, MemoryInv', TableInv, NEW t \in Threads, CheckOccupancy(t)
    PROVE  KeepsTables
<1>. USE DEF CheckOccupancy, Goto, setState, rendezvousVars
<1>1. PICK l \in {"expand", "probe"} : pc' = [pc EXCEPT ![t] = l]
  OBVIOUS
<1>2. pc \in [Threads -> Labels] /\ pos \in [Threads -> Nat]
  BY DEF MemoryInv, VarsTyped
<1>3. SameTables /\ (UpdateDone' <=> UpdateDone)
  BY DEF SameTables, cur, nxt, UpdateDone
<1>4. ProbesOn(t) /\ Counting' = Counting
  BY <1>1, <1>2 DEF ProbesOn, Probing, Counting
<1>5. \A u \in Threads \ {t} : pos'[u] = pos[u]
  BY <1>2
<1>6. InsideMove(t, l) /\ seen_count' = seen_count
  BY <1>1, <1>3, <1>4, <1>5 DEF InsideMove, Migrating
<1>7. ArgsInserted'
  BY <1>1, <1>2 DEF TableInv, ArgsInserted, Inserting, Migrating
<1>. QED
  BY <1>4, <1>6, <1>7, InsideStep, StillCounted DEF TableInv, TablesKept, KeepsTables

\* A thread goes past an occupied slot of another state only.
LEMMA OccupiedKeepsTables ==
    ASSUME MemoryInv, MemoryInv', TableInv, NEW t \in Threads, Probing(t),
           Occupied(t, Content(cur, Slot(cur, arg[t], pos[t]))),
           UNCHANGED <<setState, local_seen, next, hand, target, rendezvousVars>>
    PROVE  KeepsTables
<1>. DEFINE c == Content(cur, Slot(cur, arg[t], pos[t]))
<1>. USE DEF Goto, setState, rendezvousVars
<1>1. PICK l \in {"get", "idle", "probe", "expand"} :
        /\ pc' = [pc EXCEPT ![t] = l]
        /\ l \in {"probe"} => /\ c \in States /\ c # arg[t]
                              /\ pos' = [pos EXCEPT ![t] = pos[t] + 1]
        /\ l # "idle" => UNCHANGED arg
        /\ l = "idle" => arg' = [arg EXCEPT ![t] = Empty]
        /\ pos' \in {pos, [pos EXCEPT ![t] = 0], [pos EXCEPT ![t] = pos[t] + 1]}
  <2>0. Occupied(t, c)
    OBVIOUS
  <2>. HIDE DEF c
  <2>1. CASE c = Tombstone /\ Goto(t, "get") /\ UNCHANGED <<arg, pos>>
    BY <2>1
  <2>2. CASE /\ Goto(t, "idle") /\ arg' = [arg EXCEPT ![t] = Empty]
             /\ pos' = [pos EXCEPT ![t] = 0]
    BY <2>2
  <2>3. CASE /\ c \in States /\ c # arg[t] /\ UNCHANGED arg
             /\ pos' = [pos EXCEPT ![t] = @ + 1]
             /\ Goto(t, "probe") \/ Goto(t, "expand")
    BY <2>3
  <2>. QED
    BY <2>0, <2>1, <2>2, <2>3 DEF Occupied, SameState
<1>2. pc \in [Threads -> Labels] /\ pos \in [Threads -> Nat] /\ VarsTyped
  BY DEF MemoryInv, VarsTyped
<1>3. SameTables /\ (UpdateDone' <=> UpdateDone)
  BY DEF SameTables, cur, nxt, UpdateDone
<1>4. ProbesOn(t) /\ Counting' = Counting
  BY <1>1, <1>2 DEF ProbesOn, Probing, Counting
<1>5. \A u \in Threads \ {t} : pos'[u] = pos[u] /\ arg'[u] = arg[u]
  BY <1>1, <1>2 DEF VarsTyped
<1>6. InsideMove(t, l) /\ seen_count' = seen_count
  BY <1>1, <1>3, <1>4, <1>5 DEF InsideMove, Migrating, Probing
<1>7. ArgsInserted'
  BY <1>1, <1>2 DEF TableInv, ArgsInserted, Inserting, Migrating, Probing, VarsTyped
<1>. QED
  BY <1>4, <1>6, <1>7, InsideStep, StillCounted DEF TableInv, TablesKept, KeepsTables

\* set_insert probes the slots that StatesReachable and ProbedInVain speak of.
LEMMA ProbesSlot ==
    ASSUME MemoryInv, NEW t \in Threads, Probing(t)
    PROVE  /\ local_seen[t] = cur /\ cur \in InFlight /\ cur \in 1..Len(heap)
           /\ ProbedSlot(t) = Slot(cur, arg[t], pos[t])
           /\ Slot(cur, arg[t], pos[t]) \in Indices(cur)
           /\ heap[local_seen[t]].bucket[ProbedSlot(t)]
                = Content(cur, Slot(cur, arg[t], pos[t]))
           /\ arg[t] \in States /\ pos[t] \in Nat
<1>1. local_seen[t] = cur
  BY OldTableLive DEF Probing, UsesOld, cur
<1>2. ProbedSlot(t) = Slot(cur, arg[t], pos[t])
  BY <1>1 DEF ProbedSlot, Slot
<1>3. cur \in InFlight /\ cur \in 1..Len(heap)
  BY CurInFlight, InFlightLive
<1>4. arg[t] \in States /\ pos[t] \in Nat
  BY DEF MemoryInv, VarsTyped, ThreadsCarry, Inserting, Probing
<1>. QED
  BY <1>1, <1>2, <1>3, <1>4, SlotInRange DEF Content, MemoryInv

LEMMA ProbeKeepsTables ==
    ASSUME MemoryInv, MemoryInv', TableInv, NEW t \in Threads, Probe(t)
    PROVE  KeepsTables
<1>. DEFINE c == Content(cur, Slot(cur, arg[t], pos[t]))
<1>0. Probing(t) /\ heap[local_seen[t]].bucket[ProbedSlot(t)] = c
  BY ProbesSlot DEF Probe, Probing
<1>1. CASE Occupied(t, c)
  BY <1>0, <1>1, OccupiedKeepsTables DEF Probe
<1>2. CASE Goto(t, "cas") /\ UNCHANGED <<arg, pos, resume>>
  <2>. USE <1>2 DEF Probe, Goto, setState, rendezvousVars
  <2>1. SameTables /\ (UpdateDone' <=> UpdateDone)
    BY DEF SameTables, cur, nxt, UpdateDone
  <2>2. pc \in [Threads -> Labels]
    BY DEF MemoryInv, VarsTyped
  <2>3. ProbesOn(t) /\ Counting' = Counting
    BY <2>2, <1>0 DEF ProbesOn, Probing, Counting
  <2>4. InsideMove(t, "cas") /\ seen_count' = seen_count
    BY <2>1, <2>3 DEF InsideMove, Migrating
  <2>5. ArgsInserted'
    BY <2>2 DEF TableInv, ArgsInserted, Inserting, Migrating
  <2>. QED
    BY <2>3, <2>4, <2>5, InsideStep, StillCounted DEF TableInv, TablesKept, KeepsTables
<1>. QED
  BY <1>0, <1>1, <1>2 DEF Probe

LEMMA CountInsertionKeepsTables ==
    ASSUME MemoryInv, MemoryInv', TableInv, NEW t \in Threads, CountInsertion(t)
    PROVE  KeepsTables
<1>. USE DEF CountInsertion, Goto, rendezvousVars
<1>1. /\ pc \in [Threads -> Labels] /\ pos \in [Threads -> Nat]
      /\ arg \in [Threads -> States \cup {Empty}] /\ seen_count \in Nat
  BY DEF MemoryInv, VarsTyped
<1>2. SameTables /\ (UpdateDone' <=> UpdateDone)
  BY DEF SameTables, cur, nxt, UpdateDone
<1>3. ProbesOn(t) /\ Counting' = Counting \ {t} /\ t \in Counting
  BY <1>1 DEF ProbesOn, Probing, Counting
<1>4. InsideMove(t, "idle")
  BY <1>1, <1>2, <1>3 DEF InsideMove, Migrating
<1>5. ArgsInserted'
  BY <1>1 DEF TableInv, ArgsInserted, Inserting, Migrating
<1>6. /\ IsFiniteSet(Counting) /\ Cardinality(Counting) \in Nat
      /\ Cardinality(Counting \ {t}) = Cardinality(Counting) - 1
  <2>1. IsFiniteSet(Counting)
    BY ThreadsAssumption, FS_Subset DEF Counting
  <2>. QED
    BY <1>3, <2>1, FS_CardinalityType, FS_RemoveElement
<1>7. TablesKept
  BY <1>4, InsideStep
<1>8. KeptCounted'
  <2>1. Kept' = Kept /\ KeptCounted /\ seen_count' = seen_count + 1
    BY <1>7 DEF TablesKept, TableInv
  <2>. QED
    BY <1>1, <1>3, <1>6, <2>1 DEF KeptCounted
<1>. QED
  BY <1>5, <1>7, <1>8 DEF TableInv, TablesKept, KeepsTables

\* A thread that goes on inside set_insert or exit_with, or starts.
LEMMA OnlyMoves ==
    ASSUME MemoryInv, MemoryInv', TableInv, NEW t \in Threads, NEW l,
           SameTables, UNCHANGED <<pos, arg, seen_count>>,
           pc' = [pc EXCEPT ![t] = l],
           \A u \in Threads \ {t} : rpc'[u] = rpc[u],
           UpdateDone' <=> UpdateDone,
           \/ pc[t] = "get" /\ l = "chunk"
           \/ /\ pc[t] \in {"unborn", "idle", "expand", "lock", "optout", "joining"}
              /\ l \in {"idle", "lock", "alloc", "get", "optout", "joining", "done"},
           l \in Inserting \cup {"count"} <=> pc[t] \in Inserting \cup {"count"}
    PROVE  KeepsTables
<1>1. pc \in [Threads -> Labels]
  BY DEF MemoryInv, VarsTyped
<1>2. ProbesOn(t) /\ Counting' = Counting
  BY <1>1 DEF ProbesOn, Probing, Counting
<1>3. InsideMove(t, l)
  BY <1>2 DEF InsideMove, Migrating
<1>4. ArgsInserted'
  BY <1>1 DEF TableInv, ArgsInserted
<1>. QED
  BY <1>2, <1>3, <1>4, InsideStep, StillCounted DEF TableInv, TablesKept, KeepsTables

LEMMA MovesKeepTables ==
    ASSUME MemoryInv, MemoryInv', TableInv, NEW t \in Threads,
           \/ SetExpand(t) \/ SetExpandLock(t) \/ MigrateGet(t)
           \/ Exit(t) \/ Reacquire(t)
    PROVE  KeepsTables
<1>0. \E l :
        /\ pc' = [pc EXCEPT ![t] = l]
        /\ \/ pc[t] = "get" /\ l = "chunk"
           \/ /\ pc[t] \in {"idle", "expand", "lock", "joining"}
              /\ l \in {"lock", "alloc", "get", "optout", "done"}
        /\ l \in Inserting \cup {"count"} <=> pc[t] \in Inserting \cup {"count"}
  BY DEF SetExpand, SetExpandLock, MigrateGet, Exit, Reacquire, Goto, Inserting, Migrating
<1>1. /\ global_seen \in [ptr : Nat, count : Nat]
      /\ next_global_seen \in [ptr : Nat, count : Nat]
  BY DEF MemoryInv, VarsTyped
<1>2. SameTables
  BY <1>1
  DEF SetExpand, SetExpandLock, MigrateGet, Exit, Reacquire, SameTables, setState, cur,
      nxt, RefcountedPtrGet, RefcountedPtrPut
<1>3. UNCHANGED <<pos, arg, seen_count, rpc>> /\ (UpdateDone' <=> UpdateDone)
  BY DEF SetExpand, SetExpandLock, MigrateGet, Exit, Reacquire, setState, rendezvousVars,
         UpdateDone
<1>. QED
  BY <1>0, <1>2, <1>3, OnlyMoves

LEMMA SetThreadInitKeepsTables ==
    ASSUME MemoryInv, MemoryInv', TableInv, NEW t \in Threads, SetThreadInit(t)
    PROVE  KeepsTables
<1>1. /\ global_seen \in [ptr : Nat, count : Nat] /\ rpc \in [Threads -> RPC]
      /\ pc[t] = "unborn" /\ rpc[t] = "new" /\ rpc' = [rpc EXCEPT ![t] = "run"]
  BY DEF MemoryInv, VarsTyped, RendezvousInv, RendezvousTypeOK, ControlAgrees,
         SetThreadInit, ThreadMain
<1>2. SameTables
  BY <1>1 DEF SetThreadInit, SameTables, cur, nxt, RefcountedPtrGet
<1>3. UpdateDone' <=> UpdateDone
  BY <1>1 DEF UpdateDone
<1>4. pc' = [pc EXCEPT ![t] = "idle"] /\ UNCHANGED <<pos, arg, seen_count>>
  BY DEF SetThreadInit, Goto
<1>. QED
  BY <1>1, <1>2, <1>3, <1>4, OnlyMoves DEF Inserting, Migrating

-----------------------------------------------------------------------------
(***************************************************************************)
(* The rendezvous, apart from its leader's action.                         *)
(***************************************************************************)

\* A step of the rendezvous that moves the program counter of t only, and no
\* thread back to before the update.
RendezvousMove(t, l) ==
    /\ SameTables
    /\ pc' = [pc EXCEPT ![t] = l]
    /\ pos' \in {pos, [pos EXCEPT ![t] = 0]}
    /\ UNCHANGED <<arg, seen_count>>
    /\ \/ l = pc[t] /\ pc[t] \in {"idle", "meet", "optout"}
       \/ pc[t] = "meet" /\ l \in {"check", "probe"} /\ pos'[t] = 0
    /\ \A u \in Threads : AwaitsUpdate(u)' => AwaitsUpdate(u)
    /\ nxt # Null => \E u \in Threads : (pc[u] = "get" \/ BeforeUpdate(u))'

LEMMA RendezvousMoveKeepsTables ==
    ASSUME MemoryInv, MemoryInv', TableInv, NEW t \in Threads, NEW l,
           RendezvousMove(t, l)
    PROVE  KeepsTables
<1>. USE DEF RendezvousMove
<1>1. pc \in [Threads -> Labels] /\ pos \in [Threads -> Nat]
  BY DEF MemoryInv, VarsTyped
<1>2. /\ ProbesOn(t) /\ Counting' = Counting /\ ~Moving(t) /\ ~Moving(t)'
      /\ \A u \in Threads \ {t} :
            pc'[u] = pc[u] /\ pos'[u] = pos[u] /\ arg'[u] = arg[u]
  BY <1>1 DEF ProbesOn, Probing, Counting, Moving
<1>3. TablesKept
  BY <1>2, QuietStep
<1>4. ArgsInserted'
  BY <1>1 DEF TableInv, ArgsInserted, Inserting
<1>. QED
  BY <1>2, <1>3, <1>4, StillCounted DEF TableInv, TablesKept, KeepsTables

LEMMA StartThreadsKeepsTables ==
    ASSUME MemoryInv, MemoryInv', TableInv, NEW t \in Threads, StartThreads(t)
    PROVE  KeepsTables
<1>. USE DEF StartThreads, StartSecondaryThreads, setState, threadState
<1>1. /\ pc[t] = "idle" /\ SameTables /\ UNCHANGED <<pc, pos, arg, seen_count>>
      /\ pc \in [Threads -> Labels]
  BY DEF SameTables, cur, nxt, MemoryInv, VarsTyped
<1>2. \A u \in Threads : pc[u] \in {"idle", "unborn"}
  BY <1>1 DEF MemoryInv, ControlAgrees
<1>3. nxt = Null
  <2>1. \A u \in Threads : pc[u] # "get" /\ ~BeforeUpdate(u)
    BY <1>2 DEF BeforeUpdate, Migrating
  <2>. QED
    BY <2>1 DEF TableInv, ChunksClaimed
<1>4. \A u \in Threads : ~AwaitsUpdate(u)'
  BY <1>1, <1>2 DEF AwaitsUpdate
<1>5. pc' = [pc EXCEPT ![t] = "idle"]
  BY <1>1
<1>6. RendezvousMove(t, "idle")
  BY <1>1, <1>3, <1>4, <1>5 DEF RendezvousMove
<1>. QED
  BY <1>6, RendezvousMoveKeepsTables

\* A thread that comes to the rendezvous, or goes to sleep there, still awaits
\* the update.
LEMMA MeetKeepsTables ==
    ASSUME MemoryInv, MemoryInv', TableInv, NEW t \in Threads,
           MeetArrive(t) \/ MeetWait(t)
    PROVE  KeepsTables
<1>. USE DEF setState, threadState
<1>1. /\ SameTables /\ UNCHANGED <<pc, pos, arg, seen_count>>
      /\ pc \in [Threads -> Labels] /\ rpc \in [Threads -> RPC]
  BY DEF MeetArrive, MeetWait, SameTables, cur, nxt, MemoryInv, VarsTyped,
         RendezvousInv, RendezvousTypeOK
<1>2. PICK l \in {"lead", "follow", "wait"} :
        /\ rpc' = [rpc EXCEPT ![t] = l]
        /\ rpc[t] \in {"run", "follow"} /\ pc[t] = "meet"
        /\ l = "wait" => rpc[t] = "follow"
  BY DEF MeetArrive, MeetWait, Arrive, Wait, MemoryInv, ControlAgrees
<1>3. ~UpdateDone
  <2>1. LeaderAlone
    BY InvImpliesLeaderAlone DEF MemoryInv
  <2>. QED
    BY <1>2, <2>1 DEF LeaderAlone, UpdateDone, Leading
<1>4. ~UpdateDone'
  BY <1>1, <1>2, <1>3 DEF UpdateDone
<1>5. \A u \in Threads : BeforeUpdate(u)' <=> BeforeUpdate(u)
  BY <1>1, <1>2, <1>3, <1>4 DEF BeforeUpdate
<1>6. \A u \in Threads : AwaitsUpdate(u)' => AwaitsUpdate(u)
  BY <1>1, <1>5 DEF AwaitsUpdate
<1>7. nxt # Null => \E u \in Threads : (pc[u] = "get" \/ BeforeUpdate(u))'
  BY <1>1, <1>5 DEF TableInv, ChunksClaimed
<1>8. pc' = [pc EXCEPT ![t] = "meet"]
  BY <1>1, <1>2
<1>9. RendezvousMove(t, "meet")
  BY <1>1, <1>2, <1>6, <1>7, <1>8 DEF RendezvousMove
<1>. QED
  BY <1>9, RendezvousMoveKeepsTables

LEMMA MeetLeaveKeepsTables ==
    ASSUME MemoryInv, MemoryInv', TableInv, NEW t \in Threads, MeetLeave(t)
    PROVE  KeepsTables
<1>1. /\ SameTables /\ UNCHANGED <<arg, seen_count>>
      /\ pc \in [Threads -> Labels] /\ rpc \in [Threads -> RPC]
      /\ pos \in [Threads -> Nat]
      /\ pc' = [pc EXCEPT ![t] = resume[t]] /\ pos' = [pos EXCEPT ![t] = 0]
      /\ rpc[t] = "woken" /\ rpc' = [rpc EXCEPT ![t] = "run"] /\ pc[t] = "meet"
  BY DEF MeetLeave, Leave, MigrateDone, Goto, SameTables, cur, nxt, MemoryInv, VarsTyped,
         RendezvousInv, RendezvousTypeOK, setState, ControlAgrees
<1>2. resume[t] \in {"check", "probe"}
  BY <1>1 DEF MemoryInv, ThreadsCarry
<1>3. UpdateDone' <=> UpdateDone
  BY <1>1 DEF UpdateDone
<1>4. \A u \in Threads \ {t} :
        /\ pc'[u] = pc[u]
        /\ BeforeUpdate(u)' <=> BeforeUpdate(u)
  BY <1>1, <1>3 DEF BeforeUpdate
<1>5. pc'[t] \in {"check", "probe"} /\ ~BeforeUpdate(t)
  BY <1>1, <1>2 DEF BeforeUpdate, Migrating
<1>6. \A u \in Threads : AwaitsUpdate(u)' => AwaitsUpdate(u)
  BY <1>4, <1>5 DEF AwaitsUpdate
<1>7. nxt # Null => \E u \in Threads : (pc[u] = "get" \/ BeforeUpdate(u))'
  BY <1>1, <1>4, <1>5 DEF TableInv, ChunksClaimed
<1>8. pos'[t] = 0
  BY <1>1
<1>9. PICK l : l = resume[t]
  OBVIOUS
<1>10. RendezvousMove(t, l)
  BY <1>1, <1>2, <1>6, <1>7, <1>8, <1>9 DEF RendezvousMove
<1>. QED
  BY <1>10, RendezvousMoveKeepsTables

\* When the leader departs no thread awaits an update.
LEMMA MeetDepartKeepsTables ==
    ASSUME MemoryInv, MemoryInv', TableInv, NEW t \in Threads, MeetDepart(t)
    PROVE  KeepsTables
<1>1. /\ SameTables /\ UNCHANGED <<arg, seen_count>>
      /\ pc \in [Threads -> Labels] /\ rpc \in [Threads -> RPC]
      /\ pos \in [Threads -> Nat]
      /\ rpc[t] \in {"led", "outled"} /\ Depart(t)
  BY DEF MeetDepart, Depart, MigrateDone, SameTables, cur, nxt, MemoryInv, VarsTyped,
         RendezvousInv, RendezvousTypeOK, setState, threadState
<1>2. PICK l :
        /\ pc' = [pc EXCEPT ![t] = l]
        /\ \/ l = pc[t] /\ pc[t] = "optout" /\ pos' = pos
           \/ /\ pc[t] = "meet" /\ l \in {"check", "probe"}
              /\ pos' = [pos EXCEPT ![t] = 0]
  <2>1. CASE rpc[t] = "led"
    BY <1>1, <2>1
    DEF MeetDepart, MigrateDone, Goto, MemoryInv, ControlAgrees, ThreadsCarry
  <2>2. CASE rpc[t] = "outled"
    <3>1. pc' = pc /\ pos' = pos /\ pc[t] = "optout"
      BY <2>2 DEF MeetDepart, threadState, MemoryInv, ControlAgrees
    <3>. QED
      BY <1>1, <3>1
  <2>. QED
    BY <1>1, <2>1, <2>2
<1>3. nxt = Null
  BY <1>1 DEF MemoryInv, NewPointers, UpdateDone, nxt
<1>4. \A u \in Threads \ {t} : rpc[u] \in {"wait", "out", "idle"}
  BY <1>1, InvImpliesLeaderAlone DEF MemoryInv, LeaderAlone, Leading
<1>5. \A u \in Threads \ {t} : rpc'[u] \in {"woken", "out", "idle"} /\ pc'[u] = pc[u]
  BY <1>1, <1>2, <1>4 DEF Depart, Woken, Sleeping
<1>6. \A u \in Threads : AwaitsUpdate(u)' => AwaitsUpdate(u)
  <2>1. \A u \in Threads \ {t} : AwaitsUpdate(u)' => AwaitsUpdate(u)
    BY <1>5 DEF AwaitsUpdate, BeforeUpdate, Migrating
  <2>2. ~AwaitsUpdate(t)'
    BY <1>1, <1>2 DEF AwaitsUpdate, BeforeUpdate, Migrating
  <2>. QED
    BY <2>1, <2>2
<1>7. RendezvousMove(t, l)
  BY <1>1, <1>2, <1>3, <1>6 DEF RendezvousMove
<1>. QED
  BY <1>7, RendezvousMoveKeepsTables

LEMMA ExitOptOutKeepsTables ==
    ASSUME MemoryInv, MemoryInv', TableInv, NEW t \in Threads, ExitOptOut(t)
    PROVE  KeepsTables
<1>1. /\ SameTables /\ UNCHANGED <<pos, arg, seen_count>>
      /\ pc \in [Threads -> Labels] /\ rpc \in [Threads -> RPC]
      /\ pc[t] = "optout" /\ rpc[t] \in {"run", "outretry"}
  BY DEF ExitOptOut, OptOut, SameTables, cur, nxt, MemoryInv, VarsTyped,
         RendezvousInv, RendezvousTypeOK, setState
<1>2. PICK l \in {"joining", "done", "optout"} : pc' = [pc EXCEPT ![t] = l]
  BY <1>1 DEF ExitOptOut, Goto
<1>3. PICK r \in {"out", "outlead"} : rpc' = [rpc EXCEPT ![t] = r]
  BY DEF ExitOptOut, OptOut
<1>4. \A u \in Threads \ {t} : rpc'[u] = rpc[u]
  BY <1>1, <1>3
<1>5. UpdateDone' <=> UpdateDone
  BY <1>1, <1>3 DEF UpdateDone
<1>6. l \notin Inserting \cup {"count"} /\ pc[t] \notin Inserting \cup {"count"}
  BY <1>1 DEF Inserting, Migrating
<1>. QED
  BY <1>1, <1>2, <1>4, <1>5, <1>6, OnlyMoves

\* What is left: the program aborts, or has finished.
LEMMA NothingMovesKeepsTables ==
    ASSUME TableInv, UNCHANGED <<setState, threadState, rendezvousVars>>
    PROVE  KeepsTables
<1>. USE DEF setState, threadState, rendezvousVars, TableInv
<1>1. cur' = cur /\ nxt' = nxt /\ InFlight' = InFlight
  BY DEF cur, nxt, InFlight
<1>2. TablesGrow' /\ Counting' = Counting /\ ArgsInserted'
  BY <1>1 DEF TablesGrow, Counting, ArgsInserted
<1>3. \A u \in Threads : (Moving(u)' <=> Moving(u)) /\ (Probing(u)' <=> Probing(u))
                         /\ (BeforeUpdate(u)' <=> BeforeUpdate(u))
  BY DEF Moving, Probing, BeforeUpdate, UpdateDone
<1>4. \A k, i, x, d :
        /\ Indices(k)' = Indices(k) /\ Content(k, i)' = Content(k, i)
        /\ Slot(k, x, d)' = Slot(k, x, d)
        /\ ChunkOf(i)' = ChunkOf(i)
  BY DEF Indices, Content, Slot, SetIndex, ChunkOf
<1>5. /\ \A k, x, d : ProbingReaches(k, x, d)' <=> ProbingReaches(k, x, d)
      /\ \A k, x : InTable(k, x)' <=> InTable(k, x)
      /\ \A x : Carried(x)' <=> Carried(x)
      /\ \A i : Migrated(i)' <=> Migrated(i)
  BY <1>3, <1>4 DEF ProbingReaches, InTable, Carried, Migrated
<1>6. ChunksClaimed'
  BY <1>1, <1>3, <1>4 DEF ChunksClaimed
<1>7. TombstonesMigrated'
  BY <1>1, <1>4, <1>5 DEF TombstonesMigrated
<1>8. StatesReachable' /\ ProbedInVain'
  BY <1>1, <1>3, <1>4, <1>5 DEF StatesReachable, ProbedInVain
<1>9. MovedLeavesTrace'
  BY <1>1, <1>3, <1>4, <1>5 DEF MovedLeavesTrace
<1>10. OnePlace' /\ Kept' = Kept
  BY <1>1, <1>4, <1>5 DEF OnePlace, Kept
<1>. QED
  BY <1>2, <1>6, <1>7, <1>8, <1>9, <1>10 DEF KeptCounted, KeepsTables

-----------------------------------------------------------------------------
(***************************************************************************)
(* The compare-and-swap.                                                   *)
(***************************************************************************)

\* The table in flight besides the current one, if any, and what it is for.
LEMMA CarriedInMigration ==
    ASSUME MemoryInv, NEW t \in Threads, hand[t] \in States
    PROVE  pc[t] = "place" /\ nxt # Null /\ next[t] = nxt
BY SeenSetAssumption
DEF MemoryInv, ThreadsCarry, NewPointers, BeforeUpdate, Migrating, nxt

\* The compare-and-swap is tried where probing in vain has led to, so the state
\* is nowhere when it succeeds.
LEMMA NotYetKept ==
    ASSUME MemoryInv, TableInv, NEW t \in Threads, Probing(t),
           Content(cur, Slot(cur, arg[t], pos[t])) = Empty
    PROVE  arg[t] \notin Kept
<1>0. arg[t] \in States /\ pos[t] \in Nat /\ cur \in InFlight
  BY ProbesSlot
<1>1. ASSUME NEW d \in Nat, ProbingReaches(cur, arg[t], d)
      PROVE  d <= pos[t]
  BY <1>0, <1>1 DEF ProbingReaches
<1>2. ~InTable(cur, arg[t])
  <2>. SUFFICES ASSUME NEW j \in Indices(cur), Content(cur, j) = arg[t] PROVE FALSE
    BY DEF InTable
  <2>1. PICK d \in Nat : j = Slot(cur, arg[t], d) /\ ProbingReaches(cur, arg[t], d)
    BY <1>0 DEF TableInv, StatesReachable
  <2>2. d < pos[t]
    BY <1>0, <1>1, <2>1, SeenSetAssumption
  <2>. QED
    BY <1>0, <2>1, <2>2 DEF TableInv, ProbedInVain
<1>3. ASSUME InTable(nxt, arg[t]) \/ Carried(arg[t]), nxt # Null
      PROVE  FALSE
  <2>1. PICK d \in Nat : /\ Content(cur, Slot(cur, arg[t], d)) = Tombstone
                         /\ ProbingReaches(cur, arg[t], d)
                         /\ pos[t] <= d
    BY <1>0, <1>3 DEF TableInv, MovedLeavesTrace
  <2>2. d = pos[t]
    BY <1>0, <1>1, <2>1
  <2>. QED
    BY <2>1, <2>2, SeenSetAssumption
<1>4. Carried(arg[t]) => nxt # Null
  BY <1>0, CarriedInMigration DEF Carried
<1>. QED
  BY <1>2, <1>3, <1>4 DEF Kept, InFlight

\* What a write to slot i of table k, which is not emptied, does to the tables in
\* flight.
Writes(k, i, v) ==
    /\ UNCHANGED <<cur, nxt>>
    /\ \A j \in InFlight :
          /\ Indices(j)' = Indices(j)
          /\ \A s \in States : \A d \in Nat :
                /\ Slot(j, s, d)' = Slot(j, s, d)
                /\ Slot(j, s, d) \in Indices(j)
                /\ ProbingReaches(j, s, d) => ProbingReaches(j, s, d)'
          /\ \A x \in Indices(j) :
                Content(j, x)' = IF j = k /\ x = i THEN v ELSE Content(j, x)
    /\ k \in InFlight /\ i \in Indices(k)
    /\ heap'[k].size = heap[k].size

LEMMA SlotWriteWrites ==
    ASSUME MemoryInv, NEW k \in InFlight, NEW i \in Indices(k),
           NEW v \in Slots \ {Empty}, WritesSlot(k, i, v), UNCHANGED <<cur, nxt>>
    PROVE  Writes(k, i, v) /\ TablesGrow' = TablesGrow
<1>1. HeapTyped /\ \A j \in InFlight : j \in 1..Len(heap) /\ ~heap[j].freed
  BY InFlightLive DEF MemoryInv
<1>2. i \in 0..heap[k].size - 1
  BY DEF Indices
<1>3. OnlySlotChanges(k, i, v)
  BY <1>1, <1>2, SlotWrite
<1>4. Writes(k, i, v)
  <2>1. \A j \in 1..Len(heap) :
           /\ Indices(j)' = Indices(j)
           /\ \A s \in States : \A d \in Nat :
                 /\ Slot(j, s, d)' = Slot(j, s, d)
                 /\ ProbingReaches(j, s, d) => ProbingReaches(j, s, d)'
           /\ \A x \in Indices(j) :
                 Content(j, x)' = IF j = k /\ x = i THEN v ELSE Content(j, x)
    BY <1>1, <1>3, WriteKeepsReaching
  <2>2. \A j \in InFlight : \A s \in States : \A d \in Nat : Slot(j, s, d) \in Indices(j)
    BY <1>1, SlotInRange
  <2>3. heap'[k].size = heap[k].size
    BY <1>1, <1>3 DEF OnlySlotChanges
  <2>. QED
    BY <1>1, <2>1, <2>2, <2>3 DEF Writes
<1>5. TablesGrow' = TablesGrow
  <2>1. Len(heap') = Len(heap) /\ \A j \in InFlight : heap'[j].size = heap[j].size
    BY <1>1, <1>3 DEF OnlySlotChanges
  <2>2. cur \in InFlight /\ (nxt # Null => nxt \in InFlight)
    BY CurInFlight
  <2>. QED
    BY <2>1, <2>2 DEF TablesGrow
<1>. QED
  BY <1>4, <1>5

\* The slot is filled with a state that is nowhere, where probing has come to.
LEMMA FillKeepsTables ==
    ASSUME MemoryInv, MemoryInv', TableInv, NEW t \in Threads,
           NEW s, s = arg[t], NEW k, k = cur, NEW i, i = Slot(k, s, pos[t]),
           Content(k, i) = Empty, WritesSlot(k, i, s),
           pc[t] = "cas", pc' = [pc EXCEPT ![t] = "count"],
           UNCHANGED <<cur, nxt, arg, pos, hand, target, next_migration, seen_count, rpc>>
    PROVE  TableInv' /\ s \notin Kept /\ Kept' = Kept \cup {s}
<1>. USE DEF TableInv
<1>0. /\ pc \in [Threads -> Labels] /\ Probing(t) /\ s \in States /\ pos[t] \in Nat
      /\ s \notin {Empty, Tombstone} /\ s \in Slots \ {Empty}
      /\ k \in InFlight /\ i \in Indices(k) /\ k # nxt
      /\ (nxt # Null => nxt \in InFlight)
  BY ProbesSlot, CurInFlight, SeenSetAssumption
  DEF Probing, MemoryInv, VarsTyped, Slots
<1>1. s \notin Kept
  BY <1>0, NotYetKept
<1>2. Writes(k, i, s) /\ TablesGrow'
  BY <1>0, SlotWriteWrites
<1>3. InFlight' = InFlight
  BY DEF InFlight
<1>4. /\ \A u \in Threads \ {t} : pc'[u] = pc[u]
      /\ pc'[t] = "count"
      /\ \A u \in Threads : /\ Moving(u)' <=> Moving(u)
                            /\ Probing(u)' => Probing(u) /\ u # t
                            /\ pc'[u] = "place" <=> pc[u] = "place"
                            /\ BeforeUpdate(u)' <=> BeforeUpdate(u)
  BY <1>0 DEF Moving, Probing, BeforeUpdate, UpdateDone, Migrating
<1>5. ChunksClaimed'
  <2>1. heap'[cur'].size = heap[cur].size
    BY <1>2 DEF Writes
  <2>2. \A u \in Threads :
          /\ Moving(u)' => ChunkOf(pos'[u]) < next_migration'
          /\ AwaitsUpdate(u)' => heap'[cur'].size <= next_migration' * ChunkSize
    <3>1. \A u \in Threads : AwaitsUpdate(u)' => AwaitsUpdate(u)
      BY <1>4 DEF AwaitsUpdate
    <3>. QED
      BY <1>4, <2>1, <3>1 DEF ChunksClaimed, AwaitsUpdate
  <2>3. nxt # Null => \E u \in Threads : (pc[u] = "get" \/ BeforeUpdate(u))'
    BY <1>0, <1>4 DEF ChunksClaimed
  <2>. QED
    BY <1>4, <2>2, <2>3 DEF ChunksClaimed, ChunkOf, AwaitsUpdate
<1>6. \A x \in Indices(k) : x # i => Content(k, x)' = Content(k, x)
  BY <1>0, <1>2 DEF Writes
<1>7. Content(k, i)' = s
  BY <1>0, <1>2 DEF Writes
<1>8. \A j \in InFlight \ {k} : \A x \in Indices(j) : Content(j, x)' = Content(j, x)
  BY <1>2 DEF Writes
<1>9. /\ \A j \in InFlight : Indices(j)' = Indices(j)
      /\ \A j \in InFlight : \A x \in States : \A d \in Nat :
            /\ Slot(j, x, d)' = Slot(j, x, d)
            /\ Slot(j, x, d) \in Indices(j)
            /\ ProbingReaches(j, x, d) => ProbingReaches(j, x, d)'
  BY <1>2 DEF Writes
<1>10. /\ \A x \in States : InTable(k, x)' <=> (x = s \/ InTable(k, x))
       /\ \A j \in InFlight \ {k} : \A x : InTable(j, x)' <=> InTable(j, x)
       /\ \A x : Carried(x)' <=> Carried(x)
  <2>1. \A x : InTable(k, x)' <=> \E y \in Indices(k) : Content(k, y)' = x
    BY <1>0, <1>9 DEF InTable
  <2>2. \A x \in States : InTable(k, x)' <=> (x = s \/ InTable(k, x))
    BY <1>0, <1>6, <1>7, <2>1, SeenSetAssumption DEF InTable
  <2>. QED
    BY <1>8, <1>9, <2>2 DEF InTable, Carried
<1>11. TombstonesMigrated'
  <2>1. \A x : Migrated(x)' <=> Migrated(x)
    BY <1>4 DEF Migrated, ChunkOf
  <2>2. \A x \in Indices(k) : Content(k, x)' = Tombstone <=> Content(k, x) = Tombstone
    BY <1>0, <1>6, <1>7, SeenSetAssumption
  <2>. QED
    BY <1>0, <1>9, <2>1, <2>2 DEF TombstonesMigrated
<1>12. ProbingReaches(k, s, pos[t])
  BY <1>0 DEF ProbedInVain, ProbingReaches
<1>13. StatesReachable'
  <2>1. ASSUME NEW j \in InFlight, NEW x \in Indices(j), NEW y \in States,
               y = Content(j, x)'
        PROVE  \E d \in Nat : x = Slot(j, y, d)' /\ ProbingReaches(j, y, d)'
    <3>1. CASE j = k /\ x = i
      <4>1. y = s /\ x = Slot(j, y, pos[t])' /\ ProbingReaches(j, y, pos[t])'
        BY <1>0, <1>7, <1>9, <1>12, <2>1, <3>1
      <4>. QED
        BY <1>0, <4>1
    <3>2. CASE ~(j = k /\ x = i)
      <4>1. y = Content(j, x)
        BY <1>6, <1>8, <2>1, <3>2
      <4>2. PICK d \in Nat : x = Slot(j, y, d) /\ ProbingReaches(j, y, d)
        BY <4>1 DEF StatesReachable
      <4>. QED
        BY <1>9, <4>2
    <3>. QED
      BY <3>1, <3>2
  <2>2. ASSUME NEW u \in Threads, pc[u] = "place"
        PROVE  \E d \in Nat : target[u] = Slot(nxt, hand[u], d)'
                              /\ ProbingReaches(nxt, hand[u], d)'
    <3>1. PICK d \in Nat : target[u] = Slot(nxt, hand[u], d)
                           /\ ProbingReaches(nxt, hand[u], d)
      BY <2>2 DEF StatesReachable
    <3>2. hand[u] \in States /\ nxt \in InFlight
      BY <1>0, <2>2, CarriedInMigration DEF MemoryInv, ThreadsCarry
    <3>. QED
      BY <1>9, <3>1, <3>2
  <2>. QED
    BY <1>3, <1>4, <1>9, <2>1, <2>2 DEF StatesReachable
<1>14. ProbedInVain'
  <2>1. ASSUME NEW u \in Threads, Probing(u), u # t, NEW e \in 0..pos[u]-1
        PROVE  Content(k, Slot(k, arg[u], e))' \notin {Empty, arg[u]}
    <3>1. Content(k, Slot(k, arg[u], e)) \notin {Empty, arg[u]}
      BY <2>1 DEF ProbedInVain
    <3>2. arg[u] \in States /\ pos[u] \in Nat
      BY <2>1, ProbesSlot
    <3>3. PICK x \in Indices(k) : x = Slot(k, arg[u], e) /\ x = Slot(k, arg[u], e)'
      BY <1>0, <1>9, <3>2
    <3>4. Content(k, x)' = Content(k, x)
      BY <1>6, <3>1, <3>3
    <3>. QED
      BY <3>1, <3>3, <3>4
  <2>. QED
    BY <1>4, <2>1 DEF ProbedInVain
<1>15. MovedLeavesTrace'
  <2>. SUFFICES ASSUME nxt # Null, NEW x \in States, InTable(nxt, x) \/ Carried(x)
                PROVE  \E d \in Nat :
                          /\ Content(k, Slot(k, x, d))' = Tombstone
                          /\ ProbingReaches(k, x, d)'
                          /\ \A u \in Threads : Probing(u)' /\ arg[u] = x => pos[u] <= d
    BY <1>0, <1>10 DEF MovedLeavesTrace
  <2>1. PICK d \in Nat :
          /\ Content(k, Slot(k, x, d)) = Tombstone
          /\ ProbingReaches(k, x, d)
          /\ \A u \in Threads : Probing(u) /\ arg[u] = x => pos[u] <= d
    BY DEF MovedLeavesTrace
  <2>2. PICK y \in Indices(k) : y = Slot(k, x, d) /\ y = Slot(k, x, d)'
    BY <1>0, <1>9
  <2>3. Content(k, y)' = Content(k, y)
    BY <1>6, <2>1, <2>2, SeenSetAssumption
  <2>. QED
    BY <1>0, <1>4, <1>9, <2>1, <2>2, <2>3
<1>16. ~InTable(k, s) /\ ~Carried(s) /\ \A j \in InFlight : ~InTable(j, s)
  BY <1>0, <1>1 DEF Kept
<1>17. OnePlace'
  <2>1. ASSUME NEW j \in InFlight, NEW x \in Indices(j), NEW y \in Indices(j),
               Content(j, x)' \in States, Content(j, x)' = Content(j, y)'
        PROVE  x = y
    <3>1. CASE j # k \/ (x # i /\ y # i)
      BY <1>6, <1>8, <2>1, <3>1 DEF OnePlace
    <3>2. CASE j = k /\ (x = i \/ y = i)
      BY <1>6, <1>7, <1>16, <2>1, <3>2 DEF InTable
    <3>. QED
      BY <3>1, <3>2
  <2>2. ASSUME nxt # Null, NEW x \in States, InTable(k, x)', InTable(nxt, x)'
        PROVE  FALSE
    BY <1>0, <1>10, <1>16, <2>2 DEF OnePlace
  <2>3. ASSUME NEW u \in Threads, NEW j \in InFlight, hand[u] \in States
        PROVE  ~InTable(j, hand[u])'
    BY <1>10, <1>16, <2>3 DEF OnePlace, Carried
  <2>. QED
    BY <1>3, <1>9, <2>1, <2>2, <2>3 DEF OnePlace
<1>18. Kept' = Kept \cup {s}
  BY <1>0, <1>3, <1>10 DEF Kept
<1>19. Counting' = Counting \cup {t} /\ t \notin Counting
  BY <1>0, <1>4 DEF Counting
<1>20. KeptCounted'
  <2>1. IsFiniteSet(Counting) /\ Cardinality(Counting) \in Nat
    BY ThreadsAssumption, FS_Subset, FS_CardinalityType DEF Counting
  <2>2. Cardinality(Counting') = Cardinality(Counting) + 1
    BY <1>19, <2>1, FS_AddElement
  <2>3. IsFiniteSet(Kept') /\ Cardinality(Kept') = Cardinality(Kept) + 1
    BY <1>1, <1>18, FS_AddElement DEF KeptCounted
  <2>4. seen_count \in Nat
    BY DEF MemoryInv, VarsTyped
  <2>. QED
    BY <2>1, <2>2, <2>3, <2>4 DEF KeptCounted
<1>21. ArgsInserted'
  BY <1>0, <1>4 DEF ArgsInserted, Inserting
<1>. QED
  BY <1>1, <1>2, <1>5, <1>11, <1>13, <1>14, <1>15, <1>17, <1>18, <1>20, <1>21

\* The compare-and-swap that succeeds.
Fills(t) ==
    /\ pc[t] = "cas" /\ Goto(t, "count") /\ UNCHANGED arg
    /\ arg[t] \in States \ Kept
    /\ Kept' = Kept \cup {arg[t]}

LEMMA CompareAndSwapKeepsTables ==
    ASSUME MemoryInv, MemoryInv', TableInv, NEW t \in Threads, CompareAndSwap(t)
    PROVE  /\ TableInv'
           /\ \/ Fills(t)
              \/ Kept' = Kept /\ Occupied(t, Content(cur, Slot(cur, arg[t], pos[t])))
<1>. DEFINE c == Content(cur, Slot(cur, arg[t], pos[t]))
<1>0. /\ Probing(t) /\ pc[t] = "cas"
      /\ heap[local_seen[t]].bucket[ProbedSlot(t)] = c
      /\ local_seen[t] = cur /\ ProbedSlot(t) = Slot(cur, arg[t], pos[t])
  BY ProbesSlot DEF CompareAndSwap, Probing
<1>1. CASE Occupied(t, c) /\ UNCHANGED heap
  BY <1>0, <1>1, OccupiedKeepsTables DEF CompareAndSwap, setState, KeepsTables
<1>2. CASE /\ c = Empty
           /\ heap' = [heap EXCEPT ![local_seen[t]].bucket[ProbedSlot(t)] = arg[t]]
           /\ Goto(t, "count") /\ UNCHANGED <<arg, pos, resume>>
  <2>1. PICK s, k, i : s = arg[t] /\ k = cur /\ i = Slot(k, s, pos[t])
    OBVIOUS
  <2>2. Content(k, i) = Empty /\ WritesSlot(k, i, s)
    BY <1>0, <1>2, <2>1 DEF WritesSlot
  <2>3. /\ pc' = [pc EXCEPT ![t] = "count"]
        /\ UNCHANGED <<cur, nxt, arg, pos, hand, target, next_migration, seen_count, rpc>>
    BY <1>2 DEF CompareAndSwap, Goto, cur, nxt, rendezvousVars
  <2>4. TableInv' /\ s \notin Kept /\ Kept' = Kept \cup {s}
    BY <1>0, <2>1, <2>2, <2>3, FillKeepsTables
  <2>5. arg[t] \in States
    BY <1>0, ProbesSlot
  <2>. QED
    BY <1>0, <1>2, <2>1, <2>4, <2>5 DEF Fills
<1>. QED
  BY <1>0, <1>1, <1>2 DEF CompareAndSwap

-----------------------------------------------------------------------------
(***************************************************************************)
(* set_expand's allocation, and set_migrate around its inner loop.         *)
(***************************************************************************)

\* No thread is in a migration when none is under way.
LEMMA NobodyMigrates ==
    ASSUME MemoryInv, nxt = Null, NEW t \in Threads
    PROVE  ~BeforeUpdate(t) /\ ~Moving(t) /\ ~AwaitsUpdate(t) /\ pc[t] # "get"
           /\ hand[t] \notin States
<1>1. ~BeforeUpdate(t) /\ pc[t] # "get"
  BY DEF MemoryInv, NewPointers, nxt
<1>2. pc[t] \notin Migrating
  BY <1>1 DEF BeforeUpdate
<1>. QED
  BY <1>1, <1>2, CarriedInMigration DEF AwaitsUpdate, Moving, Migrating

LEMMA AllocateKeepsTables ==
    ASSUME MemoryInv, MemoryInv', TableInv, NEW t \in Threads, SetExpandAllocate(t)
    PROVE  KeepsTables
<1>. USE DEF TableInv
<1>0. /\ pc[t] = "alloc" /\ pc \in [Threads -> Labels] /\ nxt = Null
      /\ pc' = [pc EXCEPT ![t] = "get"]
      /\ UNCHANGED <<cur, arg, pos, hand, target, next_migration, seen_count, rpc>>
      /\ local_seen[t] = cur /\ Len(heap) \in Nat
  BY SMTT(30), OldTableLive
  DEF SetExpandAllocate, Goto, MemoryInv, VarsTyped, ExpandLocked, cur, nxt, rendezvousVars,
      UsesOld, HeapTyped
<1>1. /\ cur \in 1..Len(heap) /\ heap[cur].size \in Nat \ {0} /\ cur \in InFlight
      /\ InFlight = {cur} /\ cur # Null
  BY <1>0, CurInFlight, InFlightLive DEF InFlight
<1>2. PICK size, n : size = 2 * heap[cur].size /\ n = Len(heap) + 1
  OBVIOUS
<1>3. PICK x : x = EmptyTable(size)
  OBVIOUS
<1>4. x.size = size /\ \A i \in 0..size-1 : x.bucket[i] = Empty
  BY <1>3 DEF EmptyTable
<1>5. heap' = Append(heap, x) /\ heap \in Seq(Tables)
  BY <1>0, <1>2, <1>3 DEF SetExpandAllocate, MemoryInv, HeapTyped
<1>6. /\ Len(heap') = n /\ heap'[n] = x /\ \A k \in 1..Len(heap) : heap'[k] = heap[k]
  BY <1>2, <1>5
<1>7. nxt' = n /\ n # Null /\ n # cur /\ InFlight' = {cur, n}
  BY <1>0, <1>1, <1>2, <1>6 DEF SetExpandAllocate, nxt, InFlight, Null
<1>8. heap'[cur] = heap[cur]
  BY <1>1, <1>6
<1>9. PICK c \in 1..Len(heap) : c = cur
  BY <1>1
<1>10. /\ Indices(c)' = Indices(c)
       /\ \A i : Content(c, i)' = Content(c, i)
       /\ \A s, d : Slot(c, s, d)' = Slot(c, s, d)
  BY <1>8, <1>9 DEF Indices, Content, Slot, SetIndex
<1>11. /\ \A s, d : ProbingReaches(c, s, d)' <=> ProbingReaches(c, s, d)
       /\ \A s : InTable(c, s)' <=> InTable(c, s)
       /\ \A s : Carried(s)' <=> Carried(s)
  BY <1>0, <1>10 DEF ProbingReaches, InTable, Carried
<1>12. \A i \in Indices(n)' : Content(n, i)' = Empty
  BY <1>4, <1>6 DEF Indices, Content
<1>13. \A s \in States : ~InTable(n, s)' /\ ~Carried(s)
  BY <1>0, <1>12, SeenSetAssumption, NobodyMigrates DEF InTable, Carried
<1>14. \A u \in Threads \ {t} : pc'[u] = pc[u] /\ (BeforeUpdate(u)' <=> BeforeUpdate(u))
  BY <1>0 DEF BeforeUpdate, UpdateDone
<1>15. pc'[t] = "get"
  BY <1>0
<1>16. \A u \in Threads : /\ ~Moving(u) /\ ~Moving(u)' /\ ~AwaitsUpdate(u)'
                          /\ pc'[u] # "place"
                          /\ Probing(u)' <=> Probing(u)
  BY <1>0, <1>14, <1>15, NobodyMigrates DEF Moving, Probing, AwaitsUpdate
<1>17. TablesGrow'
  BY <1>1, <1>2, <1>4, <1>6, <1>7, <1>8, <1>0 DEF TablesGrow
<1>18. next_migration' = 0
  BY <1>0 DEF ChunksClaimed
<1>19. ChunksClaimed'
  BY <1>7, <1>15, <1>16 DEF ChunksClaimed, AwaitsUpdate
<1>20. TombstonesMigrated'
  <2>1. \A i \in Indices(c) : Content(c, i) # Tombstone /\ ~Migrated(i)'
    <3>1. \A i \in Indices(c) : Content(c, i) # Tombstone
      BY <1>0, <1>9 DEF MemoryInv, TombstonesTell, Indices, Content, cur, nxt
    <3>2. \A i \in Indices(c) : i \in Nat
      BY DEF Indices
    <3>3. \A i \in Indices(c) : ChunkOf(i)' \in Nat
      BY <3>2, ChunkFacts DEF ChunkOf
    <3>. QED
      BY <1>18, <3>1, <3>3 DEF Migrated
  <2>. QED
    BY <1>0, <1>9, <1>10, <2>1 DEF TombstonesMigrated
<1>21. StatesReachable'
  BY <1>0, <1>1, <1>7, <1>9, <1>10, <1>11, <1>12, <1>16, SeenSetAssumption DEF StatesReachable
<1>22. ProbedInVain'
  BY <1>0, <1>9, <1>10, <1>16 DEF ProbedInVain
<1>23. MovedLeavesTrace'
  BY <1>7, <1>11, <1>13 DEF MovedLeavesTrace
<1>24. OnePlace'
  <2>1. \A u \in Threads : hand'[u] \notin States
    BY <1>0, NobodyMigrates
  <2>. QED
    BY <1>0, <1>1, <1>7, <1>9, <1>10, <1>12, <1>13, <2>1, SeenSetAssumption DEF OnePlace
<1>25. Kept' = Kept
  BY <1>1, <1>7, <1>9, <1>11, <1>13 DEF Kept
<1>26. Counting' = Counting /\ seen_count' = seen_count
  BY <1>0 DEF Counting
<1>27. ArgsInserted'
  BY <1>0 DEF ArgsInserted, Inserting
<1>. QED
  BY <1>17, <1>19, <1>20, <1>21, <1>22, <1>23, <1>24, <1>25, <1>26, <1>27, StillCounted DEF KeepsTables

\* A thread gives up the old table when it has seen all chunks claimed.
LEMMA MigratePutKeepsTables ==
    ASSUME MemoryInv, MemoryInv', TableInv, NEW t \in Threads, MigratePut(t)
    PROVE  KeepsTables
<1>0. /\ pc[t] = "put" /\ pc \in [Threads -> Labels] /\ rpc[t] = "run"
      /\ pc' = [pc EXCEPT ![t] = "meet"]
      /\ UNCHANGED <<pos, arg, seen_count, rpc>>
      /\ global_seen \in [ptr : Nat, count : Nat]
  BY RunsOutside DEF MigratePut, Goto, MemoryInv, VarsTyped, UsesOld, rendezvousVars
<1>1. SameTables
  BY <1>0 DEF MigratePut, SameTables, cur, nxt, RefcountedPtrPut
<1>2. /\ ~Moving(t) /\ ~Moving(t)' /\ ProbesOn(t) /\ Counting' = Counting
      /\ AwaitsUpdate(t) /\ BeforeUpdate(t)'
  BY <1>0 DEF Moving, ProbesOn, Probing, Counting, AwaitsUpdate, BeforeUpdate
<1>3. \A u \in Threads \ {t} : /\ pc'[u] = pc[u] /\ pos'[u] = pos[u] /\ arg'[u] = arg[u]
                               /\ AwaitsUpdate(u)' <=> AwaitsUpdate(u)
  BY <1>0 DEF AwaitsUpdate, BeforeUpdate, UpdateDone
<1>4. TablesKept
  BY <1>1, <1>2, <1>3, QuietStep
<1>5. ArgsInserted'
  BY <1>0 DEF TableInv, ArgsInserted, Inserting, Migrating
<1>. QED
  BY <1>0, <1>2, <1>4, <1>5, StillCounted DEF TableInv, TablesKept, KeepsTables

\* A chunk is claimed by one thread, which has not taken any of its slots yet.
LEMMA MigrateChunkKeepsTables ==
    ASSUME MemoryInv, MemoryInv', TableInv, NEW t \in Threads, MigrateChunk(t)
    PROVE  KeepsTables
<1>. USE DEF TableInv
<1>0. /\ pc[t] = "chunk" /\ pc \in [Threads -> Labels] /\ pos \in [Threads -> Nat]
      /\ UNCHANGED <<heap, cur, nxt, arg, hand, target, seen_count, rpc>>
      /\ local_seen[t] = cur /\ BeforeUpdate(t)
      /\ next_migration \in Nat /\ next_migration' = next_migration + 1
      /\ heap[cur].size \in Nat
  BY OldTableLive
  DEF MigrateChunk, MemoryInv, VarsTyped, UsesOld, rendezvousVars, BeforeUpdate, Migrating,
      cur, nxt
<1>1. PICK start \in Nat : start = next_migration * ChunkSize
  BY <1>0, ChunkFacts
<1>2. PICK l :
        \/ /\ l = "put" /\ start >= heap[cur].size
           /\ pc' = [pc EXCEPT ![t] = l] /\ pos' = [pos EXCEPT ![t] = 0]
        \/ /\ l = "take"
           /\ pc' = [pc EXCEPT ![t] = l] /\ pos' = [pos EXCEPT ![t] = start]
  BY <1>0, <1>1 DEF MigrateChunk, Goto
<1>3. /\ \A u \in Threads \ {t} :
            /\ pc'[u] = pc[u] /\ pos'[u] = pos[u]
            /\ Moving(u)' <=> Moving(u)
            /\ Probing(u)' <=> Probing(u)
            /\ BeforeUpdate(u)' <=> BeforeUpdate(u)
            /\ AwaitsUpdate(u)' <=> AwaitsUpdate(u)
      /\ pc'[t] = l /\ ~Moving(t) /\ ~Probing(t)' /\ BeforeUpdate(t)'
      /\ l = "take" => Moving(t)' /\ pos'[t] = start
      /\ l = "put" => ~Moving(t)'
  BY <1>0, <1>2 DEF Moving, Probing, BeforeUpdate, UpdateDone, AwaitsUpdate, Migrating
<1>4. InFlight' = InFlight
  BY <1>0 DEF InFlight
<1>5. /\ \A k, i : Content(k, i)' = Content(k, i)
      /\ \A k : Indices(k)' = Indices(k)
      /\ \A k, x, d : Slot(k, x, d)' = Slot(k, x, d)
      /\ \A x : ChunkOf(x)' = ChunkOf(x)
  BY <1>0 DEF Content, Indices, Slot, SetIndex, ChunkOf
<1>6. /\ \A k, x, d : ProbingReaches(k, x, d)' <=> ProbingReaches(k, x, d)
      /\ \A k, x : InTable(k, x)' <=> InTable(k, x)
      /\ \A x : Carried(x)' <=> Carried(x)
  BY <1>0, <1>5 DEF ProbingReaches, InTable, Carried
<1>7. ChunkOf(start) = next_migration /\ \A u \in Threads : ChunkOf(pos[u]) \in Nat
  BY <1>0, <1>1, ChunkFacts
<1>8. ChunksClaimed'
  <2>1. \A u \in Threads : AwaitsUpdate(u)' => heap[cur].size <= start
    <3>1. \A u \in Threads \ {t} : AwaitsUpdate(u)' => heap[cur].size <= start
      BY <1>1, <1>3 DEF ChunksClaimed, AwaitsUpdate
    <3>2. AwaitsUpdate(t)' => l = "put"
      BY <1>2, <1>3 DEF AwaitsUpdate
    <3>. QED
      BY <1>0, <1>2, <3>1, <3>2
  <2>2. (next_migration + 1) * ChunkSize >= start
    BY <1>0, <1>1, SeenSetAssumption
  <2>3. (next_migration + 1) * ChunkSize \in Nat
    BY <1>0, ChunkFacts
  <2>4. \A u \in Threads : AwaitsUpdate(u)' => heap'[cur'].size <= next_migration' * ChunkSize
    BY <1>0, <1>1, <2>1, <2>2, <2>3
  <2>5. \A u \in Threads : Moving(u)' => ChunkOf(pos'[u]) < next_migration'
    <3>1. \A u \in Threads \ {t} : Moving(u)' => ChunkOf(pos'[u]) < next_migration'
      BY <1>0, <1>3, <1>7 DEF ChunksClaimed
    <3>2. Moving(t)' => ChunkOf(pos'[t]) < next_migration'
      BY <1>0, <1>2, <1>3, <1>7
    <3>. QED
      BY <3>1, <3>2
  <2>6. \A u \in Threads \ {t} :
          Moving(t)' /\ Moving(u)' => ChunkOf(pos'[u]) # ChunkOf(pos'[t])
    BY <1>0, <1>2, <1>3, <1>7 DEF ChunksClaimed
  <2>7. \A u, w \in Threads : Moving(u)' /\ Moving(w)' /\ u # w
                                 => ChunkOf(pos'[u]) # ChunkOf(pos'[w])
    BY <1>3, <2>6 DEF ChunksClaimed
  <2>8. nxt' # Null
    BY <1>0 DEF MemoryInv, NewPointers, nxt
  <2>. QED
    BY <1>3, <1>5, <2>4, <2>5, <2>7, <2>8 DEF ChunksClaimed, AwaitsUpdate
<1>9. TombstonesMigrated'
  <2>1. ASSUME NEW i \in Indices(cur), Migrated(i) PROVE Migrated(i)'
    <3>1. ChunkOf(i) < next_migration /\ ChunkOf(i) \in Nat
      BY <2>1, ChunkFacts DEF Migrated, Indices
    <3>2. Moving(t)' => ChunkOf(pos'[t]) # ChunkOf(i)
      BY <1>0, <1>2, <1>3, <1>7, <3>1
    <3>. QED
      BY <1>0, <1>3, <1>5, <2>1, <3>1, <3>2 DEF Migrated
  <2>2. ASSUME NEW i \in Indices(cur), Migrated(i)' PROVE Migrated(i)
    <3>1. i \in Nat /\ i < heap[cur].size /\ ChunkOf(i) \in Nat
      BY <1>0, ChunkFacts DEF Indices
    <3>2. ChunkOf(i) < next_migration + 1
      BY <1>0, <1>5, <2>2 DEF Migrated
    <3>3. ChunkOf(i) # next_migration
      <4>. SUFFICES ASSUME ChunkOf(i) = next_migration PROVE FALSE
        OBVIOUS
      <4>1. start <= i
        BY <1>0, <1>1, <3>1, ChunkFacts
      <4>2. l = "take"
        BY <1>0, <1>2, <3>1, <4>1
      <4>3. Moving(t)' /\ ChunkOf(pos'[t]) = ChunkOf(i)
        BY <1>3, <1>7, <4>2
      <4>4. i < pos'[t] \/ (pc'[t] = "place" /\ i = pos'[t])
        BY <2>2, <4>3 DEF Migrated, ChunkOf
      <4>. QED
        BY <1>3, <3>1, <4>1, <4>2, <4>4
    <3>4. ChunkOf(i) < next_migration
      BY <1>0, <3>1, <3>2, <3>3
    <3>. QED
      BY <1>3, <1>5, <2>2, <3>4 DEF Migrated
  <2>. QED
    BY <1>0, <1>5, <2>1, <2>2 DEF TombstonesMigrated
<1>10. /\ \A u \in Threads : Probing(u)' => Probing(u) /\ pos'[u] = pos[u]
       /\ \A u \in Threads : pc'[u] = "place" => pc[u] = "place"
  BY <1>2, <1>3
<1>11. TablesGrow'
  BY <1>0 DEF TablesGrow
<1>12. StatesReachable' /\ ProbedInVain'
  BY <1>0, <1>4, <1>5, <1>6, <1>10 DEF StatesReachable, ProbedInVain
<1>13. MovedLeavesTrace'
  BY <1>0, <1>5, <1>6, <1>10 DEF MovedLeavesTrace
<1>14. OnePlace' /\ Kept' = Kept
  BY <1>0, <1>4, <1>5, <1>6 DEF OnePlace, Kept
<1>15. Counting' = Counting
  BY <1>0, <1>2 DEF Counting
<1>16. ArgsInserted'
  BY <1>0, <1>2 DEF ArgsInserted, Inserting, Migrating
<1>. QED
  BY <1>0, <1>8, <1>9, <1>11, <1>12, <1>13, <1>14, <1>15, <1>16, StillCounted DEF KeepsTables

-----------------------------------------------------------------------------
(***************************************************************************)
(* set_migrate's inner loop.                                               *)
(***************************************************************************)

\* A thread goes on with the slot it is at, with the next one of its chunk, or,
\* after the last one, with another chunk.
MovesOn(t, l) ==
    /\ pc' = [pc EXCEPT ![t] = l]
    /\ \/ l = "place" /\ pos' = pos
       \/ /\ l = "take" /\ pos' = [pos EXCEPT ![t] = pos[t] + 1]
          /\ ChunkOf(pos[t] + 1) = ChunkOf(pos[t])
       \/ /\ l = "chunk" /\ pos' = [pos EXCEPT ![t] = pos[t] + 1]
          /\ \A j \in Nat : ChunkOf(j) = ChunkOf(pos[t]) => j <= pos[t]

LEMMA NextSlotMovesOn ==
    ASSUME VarsTyped, NEW t \in Threads, NextSlot(t)
    PROVE  \E l \in {"take", "chunk"} : MovesOn(t, l)
<1>1. /\ pos \in [Threads -> Nat] /\ pos[t] \in Nat
      /\ pos' = [pos EXCEPT ![t] = pos[t] + 1] /\ pos'[t] = pos[t] + 1
  BY DEF VarsTyped, NextSlot
<1>2. CASE ChunkEnd(pos[t] + 1)
  <2>1. pc' = [pc EXCEPT ![t] = "chunk"]
    BY <1>1, <1>2 DEF NextSlot, Goto
  <2>2. \A j \in Nat : ChunkOf(j) = ChunkOf(pos[t]) => j <= pos[t]
    BY <1>1, <1>2, ChunkFacts
  <2>. QED
    BY <1>1, <2>1, <2>2 DEF MovesOn
<1>3. CASE ~ChunkEnd(pos[t] + 1)
  <2>1. pc' = [pc EXCEPT ![t] = "take"]
    BY <1>1, <1>3 DEF NextSlot, Goto
  <2>2. ChunkOf(pos[t] + 1) = ChunkOf(pos[t])
    BY <1>1, <1>3, ChunkFacts
  <2>. QED
    BY <1>1, <2>1, <2>2 DEF MovesOn
<1>. QED
  BY <1>2, <1>3

\* The slot it leaves behind has been migrated, and no other.
LEMMA MovesOnMigrates ==
    ASSUME MemoryInv, TableInv, NEW t \in Threads, NEW l, Moving(t), MovesOn(t, l),
           UNCHANGED <<next_migration, rpc, cur, nxt>>, heap'[cur].size = heap[cur].size
    PROVE  /\ ChunksClaimed'
           /\ \A x \in Nat : Migrated(x)' <=> Migrated(x) \/ x = pos[t]
<1>. USE DEF TableInv
<1>0. /\ pc \in [Threads -> Labels] /\ pos \in [Threads -> Nat] /\ pos[t] \in Nat
      /\ pc[t] \in {"take", "place"} /\ next_migration \in Nat
  BY DEF MemoryInv, VarsTyped, Moving
<1>1. /\ \A u \in Threads \ {t} :
            /\ pc'[u] = pc[u] /\ pos'[u] = pos[u]
            /\ Moving(u)' <=> Moving(u)
            /\ BeforeUpdate(u)' <=> BeforeUpdate(u)
      /\ pc'[t] = l /\ BeforeUpdate(t)'
      /\ ~AwaitsUpdate(t)'
      /\ Moving(t)' <=> l # "chunk"
  BY <1>0 DEF MovesOn, Moving, BeforeUpdate, UpdateDone, Migrating, AwaitsUpdate
<1>2. \A u \in Threads : AwaitsUpdate(u)' => AwaitsUpdate(u)
  BY <1>1 DEF AwaitsUpdate
<1>3. l # "chunk" => ChunkOf(pos'[t]) = ChunkOf(pos[t])
  BY <1>0 DEF MovesOn
<1>4. \A u \in Threads : Moving(u)' => Moving(u) /\ ChunkOf(pos'[u]) = ChunkOf(pos[u])
  BY <1>1, <1>3
<1>5. ChunksClaimed'
  <2>1. \A u \in Threads : AwaitsUpdate(u)' => heap'[cur'].size <= next_migration' * ChunkSize
    BY <1>2 DEF ChunksClaimed, AwaitsUpdate
  <2>2. \A u \in Threads : Moving(u)' => ChunkOf(pos'[u]) < next_migration'
    BY <1>4 DEF ChunksClaimed
  <2>3. \A u, w \in Threads : Moving(u)' /\ Moving(w)' /\ u # w
                                 => ChunkOf(pos'[u]) # ChunkOf(pos'[w])
    BY <1>4 DEF ChunksClaimed
  <2>. QED
    BY <1>1, <2>1, <2>2, <2>3 DEF ChunksClaimed, AwaitsUpdate, ChunkOf
<1>6. ASSUME NEW x \in Nat, Migrated(x) \/ x = pos[t] PROVE Migrated(x)'
  <2>1. ChunkOf(x) < next_migration
    BY <1>6 DEF Migrated, ChunksClaimed
  <2>2. ASSUME NEW u \in Threads \ {t}, Moving(u), ChunkOf(pos[u]) = ChunkOf(x)
        PROVE  x < pos[u] \/ (pc[u] = "place" /\ x = pos[u])
    BY <1>6, <2>2 DEF Migrated, ChunksClaimed
  <2>3. ASSUME Moving(t)', ChunkOf(pos'[t]) = ChunkOf(x)
        PROVE  x < pos'[t] \/ (pc'[t] = "place" /\ x = pos'[t])
    <3>1. x < pos[t] \/ x = pos[t]
      BY <1>3, <1>1, <1>6, <2>3 DEF Migrated
    <3>. QED
      BY <1>0, <1>1, <2>3, <3>1 DEF MovesOn
  <2>. QED
    BY <1>1, <2>1, <2>2, <2>3 DEF Migrated, ChunkOf
<1>7. ASSUME NEW x \in Nat, Migrated(x)', x # pos[t] PROVE Migrated(x)
  <2>1. ChunkOf(x) < next_migration
    BY <1>7 DEF Migrated, ChunkOf
  <2>2. ASSUME NEW u \in Threads \ {t}, Moving(u), ChunkOf(pos[u]) = ChunkOf(x)
        PROVE  x < pos[u] \/ (pc[u] = "place" /\ x = pos[u])
    BY <1>1, <1>7, <2>2 DEF Migrated, ChunkOf
  <2>3. ASSUME ChunkOf(pos[t]) = ChunkOf(x)
        PROVE  x < pos[t]
    <3>1. CASE l = "chunk"
      BY <1>0, <1>7, <2>3, <3>1 DEF MovesOn
    <3>2. CASE l # "chunk"
      <4>1. x < pos'[t] \/ (pc'[t] = "place" /\ x = pos'[t])
        BY <1>1, <1>3, <1>7, <2>3, <3>2 DEF Migrated, ChunkOf
      <4>. QED
        BY <1>0, <1>1, <1>7, <3>2, <4>1 DEF MovesOn
    <3>. QED
      BY <3>1, <3>2
  <2>. QED
    BY <2>1, <2>2, <2>3 DEF Migrated
<1>. QED
  BY <1>5, <1>6, <1>7

\* set_migrate takes the slot that its chunk's owner is at, which has not been
\* migrated before, and it leaves a tombstone there.
LEMMA TakenOnce ==
    ASSUME MemoryInv, TableInv, NEW t \in Threads, pc[t] = "take",
           pos[t] < heap[local_seen[t]].size
    PROVE  /\ local_seen[t] = cur /\ next[t] = nxt /\ nxt # Null
           /\ pos[t] \in Indices(cur)
           /\ Content(cur, pos[t]) \in States \cup {Empty}
<1>1. local_seen[t] = cur /\ next[t] = nxt /\ nxt # Null
  BY OldTableLive
  DEF UsesOld, cur, nxt, MemoryInv, NewPointers, BeforeUpdate, Migrating
<1>2. cur \in InFlight /\ pos[t] \in Nat
  BY CurInFlight DEF MemoryInv, VarsTyped
<1>3. pos[t] \in Indices(cur) /\ Content(cur, pos[t]) \in Slots
  BY <1>1, <1>2, InFlightLive DEF Indices, Content
<1>4. ~Migrated(pos[t])
  BY <1>2 DEF Migrated, Moving
<1>5. Content(cur, pos[t]) # Tombstone
  BY <1>1, <1>3, <1>4 DEF TableInv, TombstonesMigrated
<1>. QED
  BY <1>1, <1>3, <1>5 DEF Slots

\* A slot's state is in the thread's hands now, and every thread that is looking
\* for it will find the tombstone.
LEMMA TakeKeepsTables ==
    ASSUME MemoryInv, MemoryInv', TableInv, NEW t \in Threads, NEW l,
           NEW k, k = cur, NEW i, i = pos[t], NEW s, s = Content(k, i),
           nxt # Null, i \in Indices(k), s \in States \cup {Empty},
           WritesSlot(k, i, Tombstone),
           pc[t] = "take", MovesOn(t, l),
           \/ /\ s \in States /\ l = "place"
              /\ hand' = [hand EXCEPT ![t] = s]
              /\ target' = [target EXCEPT ![t] = Slot(nxt, s, 0)]
           \/ s = Empty /\ l # "place" /\ UNCHANGED <<hand, target>>,
           UNCHANGED <<cur, nxt, arg, next_migration, seen_count, rpc>>
    PROVE  KeepsTables
<1>. USE DEF TableInv
<1>0. /\ pc \in [Threads -> Labels] /\ hand \in [Threads -> States \cup {Empty}]
      /\ pos \in [Threads -> Nat] /\ target \in [Threads -> Nat]
      /\ k \in InFlight /\ k # nxt /\ nxt \in InFlight /\ InFlight = {k, nxt}
      /\ Tombstone \in Slots \ {Empty} /\ Tombstone \notin States
      /\ s # Tombstone /\ hand[t] = Empty /\ Empty \notin States /\ i \in Nat
  BY CurInFlight, SeenSetAssumption
  DEF MemoryInv, VarsTyped, Slots, ThreadsCarry, InFlight
<1>1. Writes(k, i, Tombstone) /\ TablesGrow'
  BY <1>0, SlotWriteWrites
<1>2. InFlight' = InFlight
  BY DEF InFlight
<1>3. ChunksClaimed' /\ \A x \in Nat : Migrated(x)' <=> Migrated(x) \/ x = i
  <2>1. Moving(t) /\ heap'[cur].size = heap[cur].size
    BY <1>1 DEF Moving, Writes
  <2>. QED
    BY <2>1, MovesOnMigrates
<1>4. /\ \A x \in Indices(k) : x # i => Content(k, x)' = Content(k, x)
      /\ Content(k, i)' = Tombstone
      /\ \A x \in Indices(nxt) : Content(nxt, x)' = Content(nxt, x)
      /\ \A j \in InFlight :
            /\ Indices(j)' = Indices(j)
            /\ \A x \in States : \A d \in Nat :
                  /\ Slot(j, x, d)' = Slot(j, x, d)
                  /\ Slot(j, x, d) \in Indices(j)
                  /\ ProbingReaches(j, x, d) => ProbingReaches(j, x, d)'
  BY <1>0, <1>1 DEF Writes
<1>5. /\ \A u \in Threads \ {t} : /\ pc'[u] = pc[u] /\ pos'[u] = pos[u]
                                  /\ hand'[u] = hand[u] /\ target'[u] = target[u]
      /\ pc'[t] = l /\ l \in {"place", "take", "chunk"}
      /\ l = "place" => hand'[t] = s /\ target'[t] = Slot(nxt, s, 0) /\ s \in States
      /\ l # "place" => s = Empty /\ hand' = hand
      /\ s \in States => hand'[t] = s
  BY <1>0 DEF MovesOn
<1>6. \A u \in Threads : Probing(u)' => Probing(u) /\ u # t
  BY <1>5 DEF Probing
<1>7. TombstonesMigrated'
  <2>1. \A x \in Indices(k) : Content(k, x)' = Tombstone <=> Migrated(x) \/ x = i
    BY <1>4 DEF TombstonesMigrated
  <2>2. \A x \in Indices(k) : x \in Nat
    BY DEF Indices
  <2>. QED
    BY <1>0, <1>3, <1>4, <2>1, <2>2 DEF TombstonesMigrated
<1>8. StatesReachable'
  <2>1. ASSUME NEW j \in InFlight, NEW x \in Indices(j), NEW y \in States,
               y = Content(j, x)'
        PROVE  \E d \in Nat : x = Slot(j, y, d)' /\ ProbingReaches(j, y, d)'
    <3>1. y = Content(j, x)
      BY <1>0, <1>4, <2>1
    <3>2. PICK d \in Nat : x = Slot(j, y, d) /\ ProbingReaches(j, y, d)
      BY <3>1 DEF StatesReachable
    <3>. QED
      BY <1>4, <3>2
  <2>2. ASSUME NEW u \in Threads, pc'[u] = "place", NEW y, y = hand'[u]
        PROVE  \E d \in Nat : target'[u] = Slot(nxt, y, d)'
                              /\ ProbingReaches(nxt, y, d)'
    <3>1. CASE u = t
      <4>1. y = s /\ target'[t] = Slot(nxt, s, 0)' /\ 0 \in Nat
        BY <1>0, <1>4, <1>5, <2>2, <3>1
      <4>2. ProbingReaches(nxt, s, 0)'
        BY DEF ProbingReaches
      <4>. QED
        BY <3>1, <4>1, <4>2
    <3>2. CASE u # t
      <4>1. y = hand[u] /\ pc[u] = "place"
        BY <1>5, <2>2, <3>2
      <4>2. PICK d \in Nat : target[u] = Slot(nxt, y, d) /\ ProbingReaches(nxt, y, d)
        BY <4>1 DEF StatesReachable
      <4>3. y \in States
        BY <4>1 DEF MemoryInv, ThreadsCarry
      <4>4. target[u] = Slot(nxt, y, d)' /\ ProbingReaches(nxt, y, d)'
        BY <1>0, <1>4, <4>2, <4>3
      <4>. QED
        BY <1>5, <3>2, <4>4
    <3>. QED
      BY <3>1, <3>2
  <2>. QED
    BY <1>2, <1>4, <2>1, <2>2 DEF StatesReachable
<1>9. ProbedInVain'
  <2>1. ASSUME NEW u \in Threads, Probing(u), u # t, NEW e \in 0..pos[u]-1
        PROVE  Content(k, Slot(k, arg[u], e))' \notin {Empty, arg[u]}
    <3>1. Content(k, Slot(k, arg[u], e)) \notin {Empty, arg[u]}
      BY <2>1 DEF ProbedInVain
    <3>2. arg[u] \in States /\ pos[u] \in Nat
      BY <2>1, ProbesSlot
    <3>3. PICK x \in Indices(k) : x = Slot(k, arg[u], e) /\ x = Slot(k, arg[u], e)'
      <4>1. \A y \in States, d \in Nat : Slot(k, y, d)' = Slot(k, y, d) /\ Slot(k, y, d) \in Indices(k)
        BY <1>0, <1>4
      <4>2. e \in Nat
        BY <3>2
      <4>3. Slot(k, arg[u], e)' = Slot(k, arg[u], e) /\ Slot(k, arg[u], e) \in Indices(k)
        BY <3>2, <4>1, <4>2
      <4>. QED
        BY <4>3
    <3>4. Content(k, x)' = Content(k, x) \/ Content(k, x)' = Tombstone
      BY <1>4
    <3>. QED
      BY <1>0, <3>1, <3>2, <3>3, <3>4
  <2>. QED
    BY <1>5, <1>6, <2>1 DEF ProbedInVain
<1>10. /\ \A x \in States : InTable(k, x)' <=> (InTable(k, x) /\ x # s)
       /\ \A x : InTable(nxt, x)' <=> InTable(nxt, x)
       /\ \A x \in States : Carried(x)' <=> (Carried(x) \/ x = s)
       /\ s \in States => InTable(k, s)
  <2>1. \A x : InTable(k, x)' <=> \E y \in Indices(k) : Content(k, y)' = x
    BY <1>0, <1>4 DEF InTable
  <2>2. \A x \in States : InTable(k, x)' <=> (InTable(k, x) /\ x # s)
    <3>1. \A y \in Indices(k) : Content(k, y) = s /\ s \in States => y = i
      BY <1>0 DEF OnePlace
    <3>2. ASSUME NEW x \in States, InTable(k, x)'
          PROVE  InTable(k, x) /\ x # s
      <4>1. PICK y \in Indices(k) : Content(k, y)' = x
        BY <2>1, <3>2
      <4>2. y # i /\ Content(k, y) = x
        BY <1>0, <1>4, <4>1
      <4>. QED
        BY <3>1, <4>2 DEF InTable
    <3>3. ASSUME NEW x \in States, InTable(k, x), x # s
          PROVE  InTable(k, x)'
      <4>1. PICK y \in Indices(k) : Content(k, y) = x
        BY <3>3 DEF InTable
      <4>2. Content(k, y)' = x
        BY <1>4, <3>3, <4>1
      <4>. QED
        BY <2>1, <4>2
    <3>. QED
      BY <3>2, <3>3
  <2>3. \A x : InTable(nxt, x)' <=> InTable(nxt, x)
    BY <1>0, <1>4 DEF InTable
  <2>4. \A x \in States : Carried(x)' <=> (Carried(x) \/ x = s)
    <3>1. CASE l = "place"
      BY <1>0, <1>5, <3>1 DEF Carried
    <3>2. CASE l # "place"
      BY <1>0, <1>5, <3>2 DEF Carried
    <3>. QED
      BY <3>1, <3>2
  <2>. QED
    BY <2>2, <2>3, <2>4 DEF InTable
<1>11. MovedLeavesTrace'
  <2>. SUFFICES ASSUME NEW x \in States, InTable(nxt, x) \/ Carried(x) \/ x = s
                PROVE  \E d \in Nat :
                          /\ Content(k, Slot(k, x, d))' = Tombstone
                          /\ ProbingReaches(k, x, d)'
                          /\ \A u \in Threads : Probing(u)' /\ arg[u] = x => pos'[u] <= d
    BY <1>0, <1>10 DEF MovedLeavesTrace
  <2>1. CASE x = s
    <3>1. PICK d \in Nat : i = Slot(k, x, d) /\ ProbingReaches(k, x, d)
      BY <1>0, <2>1 DEF StatesReachable
    <3>2. ASSUME NEW u \in Threads, Probing(u), arg[u] = x
          PROVE  pos[u] <= d
      <4>1. d \in 0..pos[u]-1 => FALSE
        BY <3>1, <3>2, <2>1 DEF ProbedInVain
      <4>. QED
        BY <1>0, <4>1
    <3>3. Content(k, Slot(k, x, d))' = Tombstone
      BY <1>0, <1>4, <3>1
    <3>. QED
      BY <1>0, <1>4, <1>5, <1>6, <3>1, <3>2, <3>3
  <2>2. CASE InTable(nxt, x) \/ Carried(x)
    <3>1. PICK d \in Nat :
            /\ Content(k, Slot(k, x, d)) = Tombstone
            /\ ProbingReaches(k, x, d)
            /\ \A u \in Threads : Probing(u) /\ arg[u] = x => pos[u] <= d
      BY <2>2 DEF MovedLeavesTrace
    <3>2. PICK y \in Indices(k) : y = Slot(k, x, d) /\ y = Slot(k, x, d)'
      BY ZenonT(40), <1>0, <1>4
    <3>3. Content(k, y)' = Tombstone
      BY <1>4, <3>1, <3>2
    <3>. QED
      BY <1>0, <1>4, <1>5, <1>6, <3>1, <3>2, <3>3
  <2>. QED
    BY <2>1, <2>2
<1>12. OnePlace'
  <2>1. ASSUME NEW j \in InFlight, NEW x \in Indices(j), NEW y \in Indices(j),
               Content(j, x)' \in States, Content(j, x)' = Content(j, y)'
        PROVE  x = y
    <3>1. Content(j, x) \in States /\ Content(j, x) = Content(j, y)
      BY <1>0, <1>4, <2>1
    <3>. QED
      BY <3>1 DEF OnePlace
  <2>2. ASSUME NEW x \in States, InTable(k, x)', InTable(nxt, x)'
        PROVE  FALSE
    BY <1>10, <2>2 DEF OnePlace
  <2>3. ASSUME NEW u \in Threads, NEW j \in InFlight, NEW y \in States, y = hand'[u]
        PROVE  ~InTable(j, y)'
    <3>1. CASE y = s
      <4>1. ~InTable(nxt, s)
        BY <1>0, <1>10, <2>3, <3>1 DEF OnePlace
      <4>. QED
        BY <1>0, <1>10, <2>3, <3>1, <4>1
    <3>2. CASE y # s
      <4>1. y = hand[u]
        BY <1>0, <1>5, <2>3, <3>2
      <4>2. ~InTable(j, y)
        BY <2>3, <4>1 DEF OnePlace
      <4>. QED
        BY <1>0, <1>10, <2>3, <4>2
    <3>. QED
      BY <3>1, <3>2
  <2>4. ASSUME NEW u \in Threads, NEW w \in Threads, hand'[u] \in States,
               hand'[u] = hand'[w]
        PROVE  u = w
    <3>1. s \in States => ~Carried(s)
      BY <1>0, <1>10 DEF OnePlace, Carried
    <3>. QED
      BY <1>0, <1>5, <2>4, <3>1 DEF OnePlace, Carried
  <2>5. \A j \in InFlight' : \A x, y \in Indices(j)' :
          Content(j, x)' \in States /\ Content(j, x)' = Content(j, y)' => x = y
    BY <1>2, <1>4, <2>1
  <2>6. \A x \in States : ~(InTable(cur, x)' /\ InTable(nxt, x)')
    BY <2>2
  <2>7. (\A u \in Threads : \A j \in InFlight :
            hand[u] \in States => ~InTable(j, hand[u]))'
    <3>. SUFFICES ASSUME NEW u \in Threads, NEW j \in InFlight, hand'[u] \in States
                  PROVE  (~InTable(j, hand[u]))'
      BY <1>2
    <3>1. PICK y \in States : y = hand'[u]
      OBVIOUS
    <3>. QED
      BY <2>3, <3>1
  <2>8. \A u, w \in Threads : hand'[u] \in States /\ hand'[u] = hand'[w] => u = w
    BY <2>4
  <2>. QED
    BY <1>0, <2>5, <2>6, <2>7, <2>8 DEF OnePlace
<1>13. Kept' = Kept
  BY <1>0, <1>2, <1>10 DEF Kept
<1>14. Counting' = Counting
  BY <1>0, <1>5 DEF Counting
<1>15. ArgsInserted'
  BY <1>0, <1>5 DEF ArgsInserted, Inserting, Migrating
<1>. QED
  BY <1>1, <1>3, <1>7, <1>8, <1>9, <1>11, <1>12, <1>13, <1>14, <1>15, StillCounted DEF KeepsTables

LEMMA MigrateTakeKeepsTables ==
    ASSUME MemoryInv, MemoryInv', TableInv, NEW t \in Threads, MigrateTake(t)
    PROVE  KeepsTables
<1>0. pc[t] = "take" /\ pos[t] < heap[local_seen[t]].size /\ VarsTyped
  BY DEF MigrateTake, MemoryInv
<1>1. PICK k, i, s : k = cur /\ i = pos[t] /\ s = Content(k, i)
  OBVIOUS
<1>2. /\ local_seen[t] = k /\ next[t] = nxt /\ nxt # Null
      /\ i \in Indices(k) /\ s \in States \cup {Empty}
      /\ heap[local_seen[t]].bucket[pos[t]] = s
  BY <1>0, <1>1, TakenOnce DEF Content
<1>3. WritesSlot(k, i, Tombstone)
  BY <1>1, <1>2 DEF MigrateTake, WritesSlot
<1>4. UNCHANGED <<cur, nxt, arg, next_migration, seen_count, rpc>>
  BY DEF MigrateTake, cur, nxt, rendezvousVars
<1>5. CASE s \in States
  <2>1. /\ hand' = [hand EXCEPT ![t] = s]
        /\ target' = [target EXCEPT ![t] = FirstTarget(t, s)]
        /\ pc' = [pc EXCEPT ![t] = "place"] /\ pos' = pos
    BY <1>2, <1>5 DEF MigrateTake, Goto
  <2>2. FirstTarget(t, s) = Slot(nxt, s, 0)
    <3>1. Hash[s] + 0 = Hash[s]
      BY <1>5, SeenSetAssumption
    <3>. QED
      BY <1>2, <3>1 DEF FirstTarget, Slot
  <2>3. MovesOn(t, "place")
    BY <2>1 DEF MovesOn
  <2>. QED
    BY <1>0, <1>1, <1>2, <1>3, <1>4, <1>5, <2>1, <2>2, <2>3, TakeKeepsTables
<1>6. CASE s \notin States
  <2>1. s = Empty /\ NextSlot(t) /\ UNCHANGED <<hand, target>>
    BY <1>2, <1>6 DEF MigrateTake
  <2>2. PICK l \in {"take", "chunk"} : MovesOn(t, l)
    BY <1>0, <2>1, NextSlotMovesOn
  <2>. QED
    BY <1>0, <1>1, <1>2, <1>3, <1>4, <2>1, <2>2, TakeKeepsTables
<1>. QED
  BY <1>5, <1>6

\* The state in hand has its place, and what it has displaced goes to the slot
\* after, which probing for it comes to next.
LEMMA PlaceKeepsTables ==
    ASSUME MemoryInv, MemoryInv', TableInv, NEW t \in Threads, NEW l,
           NEW k, k = nxt, NEW i, i = target[t], NEW v, v = hand[t],
           NEW s, s = Content(k, i),
           nxt # Null, i \in Indices(k), v \in States, s \in States \cup {Empty},
           WritesSlot(k, i, v),
           pc[t] = "place", MovesOn(t, l), hand' = [hand EXCEPT ![t] = s],
           \/ /\ s \in States /\ l = "place"
              /\ target' = [target EXCEPT ![t] = SetIndex(k, i + 1)]
           \/ s = Empty /\ l # "place" /\ target' = [target EXCEPT ![t] = 0],
           UNCHANGED <<cur, nxt, arg, next_migration, seen_count, rpc>>
    PROVE  KeepsTables
<1>. USE DEF TableInv
<1>0. /\ pc \in [Threads -> Labels] /\ hand \in [Threads -> States \cup {Empty}]
      /\ pos \in [Threads -> Nat] /\ target \in [Threads -> Nat]
      /\ k \in InFlight /\ k # cur /\ cur \in InFlight /\ InFlight = {k, cur}
      /\ v \in Slots \ {Empty} /\ v # Tombstone /\ Empty \notin States
      /\ HeapTyped /\ k \in 1..Len(heap)
  <2>1. k \in InFlight /\ k # cur /\ cur \in InFlight /\ InFlight = {k, cur}
    BY CurInFlight DEF InFlight
  <2>2. k \in 1..Len(heap)
    BY <2>1, InFlightLive
  <2>. QED
    BY <2>1, <2>2, SeenSetAssumption DEF MemoryInv, VarsTyped, Slots
<1>1. Writes(k, i, v) /\ TablesGrow'
  BY <1>0, SlotWriteWrites
<1>2. InFlight' = InFlight
  BY DEF InFlight
<1>3. /\ \A j \in InFlight :
            /\ Indices(j)' = Indices(j)
            /\ \A x \in States : \A d \in Nat :
                  /\ Slot(j, x, d)' = Slot(j, x, d)
                  /\ Slot(j, x, d) \in Indices(j)
                  /\ ProbingReaches(j, x, d) => ProbingReaches(j, x, d)'
      /\ \A x \in Indices(k) : x # i => Content(k, x)' = Content(k, x)
      /\ Content(k, i)' = v
      /\ \A x \in Indices(cur) : Content(cur, x)' = Content(cur, x)
  BY <1>0, <1>1 DEF Writes
<1>4. ChunksClaimed' /\ \A x \in Nat : Migrated(x)' <=> Migrated(x)
  <2>1. heap'[cur].size = heap[cur].size
    BY <1>0, InFlightLive, WritesSlot(k, i, v) DEF WritesSlot
  <2>2. Moving(t) /\ pos[t] \in Nat
    BY <1>0 DEF Moving
  <2>3. ChunksClaimed' /\ \A x \in Nat : Migrated(x)' <=> Migrated(x) \/ x = pos[t]
    BY <2>1, <2>2, MovesOnMigrates
  <2>4. Migrated(pos[t])
    <3>1. ASSUME NEW u \in Threads, Moving(u), ChunkOf(pos[u]) = ChunkOf(pos[t])
          PROVE  u = t
      BY <2>2, <3>1 DEF ChunksClaimed
    <3>. QED
      BY <2>2, <3>1 DEF Migrated, ChunksClaimed
  <2>. QED
    BY <2>3, <2>4
<1>5. /\ \A u \in Threads \ {t} : /\ pc'[u] = pc[u] /\ pos'[u] = pos[u]
                                  /\ hand'[u] = hand[u] /\ target'[u] = target[u]
      /\ pc'[t] = l /\ l \in {"place", "take", "chunk"} /\ hand'[t] = s
      /\ l = "place" => s \in States /\ target'[t] = SetIndex(k, i + 1)
  BY <1>0 DEF MovesOn
<1>6. \A u \in Threads : Probing(u)' => Probing(u) /\ u # t
  BY <1>5 DEF Probing
<1>7. TombstonesMigrated'
  <2>1. \A x \in Indices(cur) : x \in Nat
    BY DEF Indices
  <2>. QED
    BY <1>0, <1>3, <1>4, <2>1 DEF TombstonesMigrated
<1>8. PICK e \in Nat : i = Slot(k, v, e) /\ ProbingReaches(k, v, e)
  BY DEF StatesReachable
<1>9. StatesReachable'
  <2>1. ASSUME NEW j \in InFlight, NEW x \in Indices(j), NEW y \in States,
               y = Content(j, x)'
        PROVE  \E d \in Nat : x = Slot(j, y, d)' /\ ProbingReaches(j, y, d)'
    <3>1. CASE j = k /\ x = i
      BY <1>3, <1>8, <2>1, <3>1
    <3>2. CASE ~(j = k /\ x = i)
      <4>1. y = Content(j, x)
        BY <1>0, <1>3, <2>1, <3>2
      <4>2. PICK d \in Nat : x = Slot(j, y, d) /\ ProbingReaches(j, y, d)
        BY <4>1 DEF StatesReachable
      <4>. QED
        BY <1>3, <4>2
    <3>. QED
      BY <3>1, <3>2
  <2>2. ASSUME NEW u \in Threads, pc'[u] = "place", NEW y, y = hand'[u]
        PROVE  \E d \in Nat : target'[u] = Slot(k, y, d)'
                              /\ ProbingReaches(k, y, d)'
    <3>1. CASE u = t
      <4>1. y = s /\ s \in States /\ target'[t] = SetIndex(k, i + 1)
        BY <1>5, <2>2, <3>1
      <4>2. PICK d \in Nat : i = Slot(k, s, d) /\ ProbingReaches(k, s, d)
        BY <1>0, <4>1 DEF StatesReachable
      <4>3. target'[t] = Slot(k, s, d + 1)
        <5>1. SetIndex(k, Slot(k, s, d) + 1) = Slot(k, s, d + 1)
          BY SMTT(30), <1>0, <4>1, NextToProbe
        <5>. QED
          BY <4>1, <4>2, <5>1
      <4>4. ProbingReaches(k, s, d + 1)
        <5>1. Content(k, Slot(k, s, d)) # Empty
          BY <1>0, <4>1, <4>2
        <5>2. \A f \in 0..(d + 1)-1 : f \in 0..d-1 \/ f = d
          OBVIOUS
        <5>. QED
          BY <4>2, <5>1, <5>2 DEF ProbingReaches
      <4>5. d + 1 \in Nat
        OBVIOUS
      <4>6. Slot(k, s, d + 1)' = Slot(k, s, d + 1) /\ ProbingReaches(k, s, d + 1)'
        BY <1>0, <1>3, <4>1, <4>4, <4>5
      <4>. QED
        BY <3>1, <4>1, <4>3, <4>5, <4>6
    <3>2. CASE u # t
      <4>1. y = hand[u] /\ pc[u] = "place"
        BY <1>5, <2>2, <3>2
      <4>2. PICK d \in Nat : target[u] = Slot(k, y, d) /\ ProbingReaches(k, y, d)
        BY <4>1 DEF StatesReachable
      <4>3. y \in States
        BY <4>1 DEF MemoryInv, ThreadsCarry
      <4>4. target[u] = Slot(k, y, d)' /\ ProbingReaches(k, y, d)'
        BY <1>0, <1>3, <4>2, <4>3
      <4>. QED
        BY <1>5, <3>2, <4>4
    <3>. QED
      BY <3>1, <3>2
  <2>. QED
    BY <1>2, <1>3, <2>1, <2>2 DEF StatesReachable
<1>10. ProbedInVain'
  <2>1. ASSUME NEW u \in Threads, Probing(u), u # t, NEW f \in 0..pos[u]-1
        PROVE  Content(cur, Slot(cur, arg[u], f))' \notin {Empty, arg[u]}
    <3>1. Content(cur, Slot(cur, arg[u], f)) \notin {Empty, arg[u]}
      BY <2>1 DEF ProbedInVain
    <3>2. arg[u] \in States /\ pos[u] \in Nat
      BY <2>1, ProbesSlot
    <3>3. PICK x \in Indices(cur) : x = Slot(cur, arg[u], f) /\ x = Slot(cur, arg[u], f)'
      BY <1>0, <1>3, <3>2
    <3>4. Content(cur, x)' = Content(cur, x)
      BY <1>3
    <3>. QED
      BY <3>1, <3>3, <3>4
  <2>. QED
    BY <1>5, <1>6, <2>1 DEF ProbedInVain
<1>11. ~InTable(k, v) /\ ~InTable(cur, v)
  BY <1>0 DEF OnePlace
<1>12. /\ \A x \in States : InTable(k, x)' <=> ((InTable(k, x) /\ x # s) \/ x = v)
       /\ \A x : InTable(cur, x)' <=> InTable(cur, x)
       /\ \A x \in States : Carried(x)' <=> ((Carried(x) /\ x # v) \/ x = s)
       /\ Carried(v) /\ InTable(k, s)
  <2>1. \A x : InTable(k, x)' <=> \E y \in Indices(k) : Content(k, y)' = x
    BY <1>0, <1>3 DEF InTable
  <2>2. \A x \in States : InTable(k, x)' <=> ((InTable(k, x) /\ x # s) \/ x = v)
    <3>1. \A y \in Indices(k) : Content(k, y) = s /\ s \in States => y = i
      BY <1>0 DEF OnePlace
    <3>2. ASSUME NEW x \in States, InTable(k, x)', x # v
          PROVE  InTable(k, x) /\ x # s
      <4>1. PICK y \in Indices(k) : Content(k, y)' = x
        BY <2>1, <3>2
      <4>2. y # i /\ Content(k, y) = x
        BY <1>0, <1>3, <3>2, <4>1
      <4>. QED
        BY <3>1, <4>2 DEF InTable
    <3>3. ASSUME NEW x \in States, InTable(k, x), x # s
          PROVE  InTable(k, x)'
      <4>1. PICK y \in Indices(k) : Content(k, y) = x
        BY <3>3 DEF InTable
      <4>2. Content(k, y)' = x
        BY <1>3, <3>3, <4>1
      <4>. QED
        BY <2>1, <4>2
    <3>4. InTable(k, v)'
      BY <1>3, <2>1
    <3>. QED
      BY <3>2, <3>3, <3>4
  <2>3. \A x : InTable(cur, x)' <=> InTable(cur, x)
    BY <1>0, <1>3 DEF InTable
  <2>4. \A x \in States : Carried(x)' <=> ((Carried(x) /\ x # v) \/ x = s)
    <3>1. \A u \in Threads : hand[u] = v => u = t
      BY DEF OnePlace
    <3>. QED
      BY <1>5, <3>1 DEF Carried
  <2>. QED
    BY <2>2, <2>3, <2>4 DEF Carried, InTable
<1>13. MovedLeavesTrace'
  <2>. SUFFICES ASSUME NEW x \in States, InTable(k, x) \/ Carried(x)
                PROVE  \E d \in Nat :
                          /\ Content(cur, Slot(cur, x, d))' = Tombstone
                          /\ ProbingReaches(cur, x, d)'
                          /\ \A u \in Threads : Probing(u)' /\ arg[u] = x => pos'[u] <= d
    BY <1>12 DEF MovedLeavesTrace
  <2>1. PICK d \in Nat :
          /\ Content(cur, Slot(cur, x, d)) = Tombstone
          /\ ProbingReaches(cur, x, d)
          /\ \A u \in Threads : Probing(u) /\ arg[u] = x => pos[u] <= d
    BY DEF MovedLeavesTrace
  <2>2. PICK y \in Indices(cur) : y = Slot(cur, x, d) /\ y = Slot(cur, x, d)'
    BY <1>0, <1>3
  <2>3. Content(cur, y)' = Tombstone
    BY <1>3, <2>1, <2>2
  <2>. QED
    BY <1>0, <1>3, <1>5, <1>6, <2>1, <2>2, <2>3
<1>14. OnePlace'
  <2>1. ASSUME NEW j \in InFlight, NEW x \in Indices(j), NEW y \in Indices(j),
               Content(j, x)' \in States, Content(j, x)' = Content(j, y)'
        PROVE  x = y
    <3>1. CASE j # k \/ (x # i /\ y # i)
      BY <1>0, <1>3, <2>1, <3>1 DEF OnePlace
    <3>2. CASE j = k /\ (x = i \/ y = i)
      BY <1>3, <1>11, <2>1, <3>2 DEF InTable
    <3>. QED
      BY <3>1, <3>2
  <2>2. ASSUME NEW x \in States, InTable(cur, x)', InTable(k, x)'
        PROVE  FALSE
    BY <1>11, <1>12, <2>2 DEF OnePlace
  <2>3. ASSUME NEW u \in Threads, NEW j \in InFlight, NEW y \in States, y = hand'[u]
        PROVE  ~InTable(j, y)'
    <3>1. CASE u = t
      <4>1. y = s /\ InTable(k, s) /\ ~InTable(cur, s) /\ s # v
        BY <1>5, <1>11, <1>12, <2>3, <3>1 DEF OnePlace
      <4>. QED
        BY <1>0, <1>12, <4>1
    <3>2. CASE u # t
      <4>1. y = hand[u] /\ y # v
        BY <1>5, <2>3, <3>2 DEF OnePlace
      <4>2. ~InTable(j, y)
        BY <2>3, <4>1 DEF OnePlace
      <4>. QED
        BY <1>0, <1>12, <4>1, <4>2
    <3>. QED
      BY <3>1, <3>2
  <2>4. ASSUME NEW u \in Threads, NEW w \in Threads, hand'[u] \in States,
               hand'[u] = hand'[w]
        PROVE  u = w
    <3>1. s \in States => ~Carried(s)
      BY <1>0, <1>12 DEF OnePlace, Carried
    <3>. QED
      BY <1>0, <1>5, <2>4, <3>1 DEF OnePlace, Carried
  <2>5. \A j \in InFlight' : \A x, y \in Indices(j)' :
          Content(j, x)' \in States /\ Content(j, x)' = Content(j, y)' => x = y
    BY <1>2, <1>3, <2>1
  <2>6. \A x \in States : ~(InTable(cur, x)' /\ InTable(nxt, x)')
    BY <2>2
  <2>7. (\A u \in Threads : \A j \in InFlight :
            hand[u] \in States => ~InTable(j, hand[u]))'
    <3>. SUFFICES ASSUME NEW u \in Threads, NEW j \in InFlight, hand'[u] \in States
                  PROVE  (~InTable(j, hand[u]))'
      BY <1>2
    <3>1. PICK y \in States : y = hand'[u]
      OBVIOUS
    <3>. QED
      BY <2>3, <3>1
  <2>8. \A u, w \in Threads : hand'[u] \in States /\ hand'[u] = hand'[w] => u = w
    BY <2>4
  <2>. QED
    BY <1>0, <2>5, <2>6, <2>7, <2>8 DEF OnePlace
<1>15. Kept' = Kept
  BY <1>0, <1>2, <1>12 DEF Kept
<1>16. Counting' = Counting
  BY <1>0, <1>5 DEF Counting
<1>17. ArgsInserted'
  BY <1>0, <1>5 DEF ArgsInserted, Inserting, Migrating
<1>. QED
  BY <1>1, <1>4, <1>7, <1>9, <1>10, <1>13, <1>14, <1>15, <1>16, <1>17, StillCounted DEF KeepsTables

LEMMA MigratePlaceKeepsTables ==
    ASSUME MemoryInv, MemoryInv', TableInv, NEW t \in Threads, MigratePlace(t)
    PROVE  KeepsTables
<1>0. /\ pc[t] = "place" /\ VarsTyped /\ hand[t] \in States /\ nxt # Null
      /\ next[t] = nxt /\ target[t] < heap[nxt].size /\ target[t] \in Nat
  BY DEF MigratePlace, MemoryInv, VarsTyped, ThreadsCarry, NewPointers, BeforeUpdate,
         Migrating, nxt
<1>1. PICK k, i, v, s : k = nxt /\ i = target[t] /\ v = hand[t] /\ s = Content(k, i)
  OBVIOUS
<1>2. /\ i \in Indices(k) /\ s \in States \cup {Empty}
      /\ heap[next[t]].bucket[target[t]] = s
  <2>1. k \in InFlight /\ k # cur
    BY <1>0, <1>1, CurInFlight
  <2>2. i \in Indices(k) /\ s \in Slots
    BY <1>0, <1>1, <2>1, InFlightLive DEF Indices, Content
  <2>3. s # Tombstone
    BY <1>0, <1>1, <2>2 DEF MemoryInv, TombstonesTell, Indices, Content, nxt
  <2>. QED
    BY <1>0, <1>1, <2>2, <2>3 DEF Slots, Content
<1>3. WritesSlot(k, i, v)
  BY <1>0, <1>1 DEF MigratePlace, WritesSlot
<1>4. /\ UNCHANGED <<cur, nxt, arg, next_migration, seen_count, rpc>>
      /\ hand' = [hand EXCEPT ![t] = s]
  BY <1>2 DEF MigratePlace, cur, nxt, rendezvousVars
<1>5. CASE s \in States
  <2>0. s # Empty
    BY <1>5, SeenSetAssumption
  <2>1. /\ target' = [target EXCEPT ![t] = SetIndex(k, i + 1)]
        /\ pc' = [pc EXCEPT ![t] = "place"] /\ pos' = pos
    <3>1. /\ target' = [target EXCEPT ![t] = SetIndex(next[t], target[t] + 1)]
          /\ UNCHANGED <<pc, pos>>
      BY <1>2, <2>0 DEF MigratePlace, Settled
    <3>. QED
      BY <1>0, <1>1, <3>1 DEF VarsTyped
  <2>2. MovesOn(t, "place")
    BY <2>1 DEF MovesOn
  <2>. QED
    BY <1>0, <1>1, <1>2, <1>3, <1>4, <1>5, <2>1, <2>2, PlaceKeepsTables
<1>6. CASE s \notin States
  <2>1. s = Empty /\ NextSlot(t) /\ target' = [target EXCEPT ![t] = 0]
    BY <1>2, <1>6 DEF MigratePlace, Settled
  <2>2. PICK l \in {"take", "chunk"} : MovesOn(t, l)
    BY <1>0, <2>1, NextSlotMovesOn
  <2>. QED
    BY <1>0, <1>1, <1>2, <1>3, <1>4, <2>1, <2>2, PlaceKeepsTables
<1>. QED
  BY <1>5, <1>6

-----------------------------------------------------------------------------
(***************************************************************************)
(* set_update.                                                             *)
(***************************************************************************)

\* When the leader drops the current table, it holds tombstones only.
LEMMA AllMigrated ==
    ASSUME MemoryInv, TableInv, NEW t \in Threads, rpc[t] \in {"lead", "outlead"},
           nxt # Null
    PROVE  /\ \A u \in Threads : /\ pc[u] \in {"meet", "optout", "joining", "done", "unborn"}
                                 /\ hand[u] \notin States
           /\ \A i \in Indices(cur) : Content(cur, i) = Tombstone
<1>1. \A u \in Threads \ {t} : rpc[u] \in {"wait", "out", "idle"}
  BY InvImpliesLeaderAlone DEF MemoryInv, LeaderAlone, Leading
<1>2. \A u \in Threads : pc[u] \in {"meet", "optout", "joining", "done", "unborn"}
  BY <1>1 DEF MemoryInv, ControlAgrees
<1>3. \A u \in Threads : hand[u] \notin States
  BY <1>2, SeenSetAssumption DEF MemoryInv, ThreadsCarry
<1>4. \E u \in Threads : pc[u] = "meet" /\ BeforeUpdate(u)
  BY <1>2 DEF TableInv, ChunksClaimed, BeforeUpdate, Migrating
<1>5. heap[cur].size <= next_migration * ChunkSize
  BY <1>4 DEF TableInv, ChunksClaimed
<1>6. ASSUME NEW i \in Indices(cur) PROVE Content(cur, i) = Tombstone
  <2>1. heap[cur].size \in Nat /\ next_migration \in Nat
    BY CurInFlight, InFlightLive DEF MemoryInv, VarsTyped
  <2>2. next_migration * ChunkSize \in Nat /\ i \in Nat /\ i < heap[cur].size
    BY <2>1, ChunkFacts DEF Indices
  <2>3. i < next_migration * ChunkSize
    BY <1>5, <2>1, <2>2
  <2>4. ChunkOf(i) < next_migration
    BY <2>1, <2>2, <2>3, ChunkFacts
  <2>5. Migrated(i)
    BY <1>2, <2>4 DEF Migrated, Moving
  <2>. QED
    BY <2>5 DEF TableInv, TombstonesMigrated
<1>. QED
  BY <1>2, <1>3, <1>6

LEMMA MeetLeadKeepsTables ==
    ASSUME MemoryInv, MemoryInv', TableInv, NEW t \in Threads, MeetLead(t)
    PROVE  KeepsTables
<1>. USE DEF TableInv
<1>0. /\ rpc[t] \in {"lead", "outlead"} /\ rpc \in [Threads -> RPC]
      /\ pc \in [Threads -> Labels] /\ pos \in [Threads -> Nat]
      /\ UNCHANGED <<pc, pos, arg, hand, target>>
      /\ pc[t] \in {"meet", "optout"} /\ UNCHANGED seen_count
  BY DEF MeetLead, LeaderAction, SetUpdate, MemoryInv, VarsTyped, ControlAgrees,
         RendezvousInv, RendezvousTypeOK, threadState, setState
<1>1. PICK r \in {"led", "outled"} : rpc' = [rpc EXCEPT ![t] = r]
  BY <1>0 DEF MeetLead, LeaderAction
<1>2. \A u \in Threads \ {t} : rpc[u] \in {"wait", "out", "idle"} /\ rpc'[u] = rpc[u]
  BY <1>0, <1>1, InvImpliesLeaderAlone DEF MemoryInv, LeaderAlone, Leading
<1>3. UpdateDone' /\ rpc'[t] \in {"led", "outled"}
  BY <1>0, <1>1 DEF UpdateDone
<1>4. \A u \in Threads : ~(pc[u] = "meet" /\ BeforeUpdate(u)')
  BY <1>0, <1>2, <1>3 DEF BeforeUpdate, Migrating
<1>5. CASE nxt = Null
  <2>1. SameTables
    BY <1>0, <1>5 DEF MeetLead, SetUpdate, SameTables, setState, cur, nxt
  <2>2. pc' = [pc EXCEPT ![t] = pc[t]] /\ pos' = pos
    BY <1>0
  <2>3. PICK l : l = pc[t]
    OBVIOUS
  <2>4. \A u \in Threads : AwaitsUpdate(u)' => AwaitsUpdate(u)
    BY <1>0, <1>4 DEF AwaitsUpdate
  <2>5. RendezvousMove(t, l)
    BY <1>0, <1>5, <2>1, <2>2, <2>3, <2>4 DEF RendezvousMove
  <2>. QED
    BY <2>5, RendezvousMoveKeepsTables
<1>6. CASE nxt # Null
  <2>0. PICK k : k = nxt
    OBVIOUS
  <2>1. /\ k \in InFlight /\ k # cur /\ k \in 1..Len(heap) /\ cur \in 1..Len(heap)
        /\ k # Null /\ Empty \notin States /\ Tombstone \notin States
    <3>1. k \in InFlight /\ k # cur /\ cur \in InFlight
      BY <1>6, <2>0, CurInFlight
    <3>. QED
      BY <1>6, <2>0, <3>1, InFlightLive, SeenSetAssumption
  <2>2. local_seen[t] = cur
    <3>1. rpc[t] = "lead" => pc[t] = "meet"
      BY DEF MemoryInv, ControlAgrees
    <3>2. rpc[t] = "outlead" => pc[t] = "optout"
      BY DEF MemoryInv, ControlAgrees
    <3>3. ~heap[local_seen[t]].freed
      BY <1>6 DEF MeetLead, FreesTwice, nxt
    <3>. QED
      BY <1>0, <1>6, <3>1, <3>2, <3>3 DEF MemoryInv, OldPointers, Published, cur, nxt
  <2>3. /\ FreesTable(cur) /\ next_migration' = 0 /\ cur' = k /\ nxt' = Null
    BY <1>6, <2>0, <2>2 DEF MeetLead, SetUpdate, FreesTable, cur, nxt
  <2>4. Len(heap') = Len(heap) /\ heap'[k] = heap[k]
    <3>1. PICK c \in 1..Len(heap) : c = cur
      BY <2>1
    <3>2. FreesTable(c) /\ HeapTyped
      BY <2>3, <3>1 DEF MemoryInv
    <3>3. Len(heap') = Len(heap) /\ \A j \in 1..Len(heap) \ {c} : heap'[j] = heap[j]
      BY <3>2, HeapFree
    <3>. QED
      BY <2>1, <3>1, <3>3
  <2>5. InFlight' = {k}
    BY <2>1, <2>3 DEF InFlight
  <2>6. /\ Indices(k)' = Indices(k)
        /\ \A i : Content(k, i)' = Content(k, i)
        /\ \A s, d : Slot(k, s, d)' = Slot(k, s, d)
    BY <2>4 DEF Indices, Content, Slot, SetIndex
  <2>7. /\ \A s, d : ProbingReaches(k, s, d)' <=> ProbingReaches(k, s, d)
        /\ \A s : InTable(k, s)' <=> InTable(k, s)
        /\ \A s : Carried(s)' <=> Carried(s)
    BY <1>0, <2>6 DEF ProbingReaches, InTable, Carried
  <2>8. /\ \A u \in Threads : /\ pc[u] \in {"meet", "optout", "joining", "done", "unborn"}
                              /\ hand[u] \notin States
        /\ \A i \in Indices(cur) : Content(cur, i) = Tombstone
    BY <1>0, <1>6, AllMigrated
  <2>9. \A u \in Threads : ~Moving(u)' /\ ~Probing(u)' /\ ~AwaitsUpdate(u)' /\ pc'[u] # "place"
    BY <1>0, <1>4, <2>8 DEF Moving, Probing, AwaitsUpdate
  <2>10. \A s \in States : ~InTable(cur, s) /\ ~Carried(s)
    BY <2>1, <2>8 DEF InTable, Carried
  <2>11. TablesGrow'
    BY <1>6, <2>0, <2>3, <2>4 DEF TablesGrow
  <2>12. ChunksClaimed'
    BY <2>3, <2>9 DEF ChunksClaimed, AwaitsUpdate
  <2>13. TombstonesMigrated' /\ MovedLeavesTrace'
    BY <2>3 DEF TombstonesMigrated, MovedLeavesTrace
  <2>14. StatesReachable' /\ ProbedInVain'
    BY <2>1, <2>5, <2>6, <2>7, <2>9 DEF StatesReachable, ProbedInVain
  <2>15. OnePlace'
    <3>1. \A u \in Threads : hand'[u] \notin States
      BY <1>0, <2>8
    <3>. QED
      BY <2>1, <2>3, <2>5, <2>6, <3>1 DEF OnePlace
  <2>16. Kept' = Kept
    <3>1. \A j \in InFlight : j = k \/ j = cur
      BY <2>0 DEF InFlight
    <3>. QED
      BY <2>1, <2>5, <2>7, <2>10, <3>1 DEF Kept
  <2>17. Counting' = Counting /\ ArgsInserted'
    BY <1>0 DEF Counting, ArgsInserted
  <2>. QED
    BY <1>0, <2>11, <2>12, <2>13, <2>14, <2>15, <2>16, <2>17, StillCounted
    DEF KeepsTables
<1>. QED
  BY <1>5, <1>6

-----------------------------------------------------------------------------

LEMMA InitEstablishesTableInv == Init => TableInv
<1>. SUFFICES ASSUME Init PROVE TableInv
  OBVIOUS
<1>0. MemoryInv
  BY InitEstablishesMemoryInv
<1>1. /\ cur = 1 /\ nxt = Null /\ InFlight = {1} /\ Len(heap) = 1
      /\ heap[1] = EmptyTable(InitialSize) /\ next_migration = 0 /\ seen_count = 0
  BY DEF Init, cur, nxt, InFlight, Null
<1>2. /\ \A t \in Threads : pc[t] \in {"idle", "unborn"} /\ hand[t] = Empty /\ arg[t] = Empty
      /\ Empty \notin States
  BY SeenSetAssumption DEF Init
<1>3. \A i \in Indices(1) : Content(1, i) = Empty
  BY <1>1 DEF Indices, Content, EmptyTable
<1>4. TablesGrow
  BY <1>1 DEF TablesGrow
<1>5. \A t \in Threads : ~Moving(t) /\ ~Probing(t)
  BY <1>2 DEF Moving, Probing
<1>6. ChunksClaimed
  BY <1>1, <1>2, <1>5 DEF ChunksClaimed
<1>7. TombstonesMigrated /\ MovedLeavesTrace
  BY <1>1 DEF TombstonesMigrated, MovedLeavesTrace
<1>8. StatesReachable /\ ProbedInVain
  BY <1>1, <1>2, <1>3, <1>5 DEF StatesReachable, ProbedInVain
<1>9. OnePlace
  BY <1>1, <1>2, <1>3 DEF OnePlace
<1>10. Kept = {}
  BY <1>1, <1>2, <1>3 DEF Kept, Carried, InTable
<1>11. Counting = {}
  BY <1>2 DEF Counting
<1>12. KeptCounted
  BY <1>1, <1>10, <1>11, FS_EmptySet DEF KeptCounted
<1>13. ArgsInserted
  BY <1>2 DEF ArgsInserted, Inserting, Migrating
<1>. QED
  BY <1>4, <1>6, <1>7, <1>8, <1>9, <1>12, <1>13 DEF TableInv

LEMMA NextPreservesTableInv ==
    MemoryInv /\ MemoryInv' /\ TableInv /\ [Next]_vars => TableInv'
<1>. SUFFICES ASSUME MemoryInv, MemoryInv', TableInv, [Next]_vars PROVE TableInv'
  OBVIOUS
<1>1. CASE UNCHANGED vars
  BY <1>1, NothingMovesKeepsTables DEF vars, KeepsTables
<1>2. ASSUME NEW t \in Threads, InsertStep(t) PROVE TableInv'
  BY <1>2, CheckOccupancyKeepsTables, ProbeKeepsTables, CompareAndSwapKeepsTables,
     CountInsertionKeepsTables, AllocateKeepsTables, MovesKeepTables,
     MigrateChunkKeepsTables, MigrateTakeKeepsTables, MigratePlaceKeepsTables,
     MigratePutKeepsTables, MeetKeepsTables, MeetLeadKeepsTables,
     MeetDepartKeepsTables, MeetLeaveKeepsTables, ExitOptOutKeepsTables
  DEF InsertStep, KeepsTables
<1>3. ASSUME NEW t \in Threads, ThreadStep(t) PROVE TableInv'
  BY <1>2, <1>3, SetThreadInitKeepsTables, NothingMovesKeepsTables DEF ThreadStep, Abort, KeepsTables
<1>4. ASSUME NEW t \in Threads, ExploreStep(t) PROVE TableInv'
  BY <1>4, MovesKeepTables, InsertKeepsTables DEF ExploreStep, CallerStep, KeepsTables
<1>. QED
  BY <1>1, <1>3, <1>4, StartThreadsKeepsTables DEF Next, Finished, KeepsTables

-----------------------------------------------------------------------------
(***************************************************************************)
(* What follows of the invariant.                                          *)
(***************************************************************************)

LEMMA InvImpliesStoredOnce ==
    ASSUME MemoryInv, TableInv
    PROVE  StoredOnce
<1>. SUFFICES ASSUME NEW s \in States PROVE Cardinality(Places(s)) <= 1
  BY DEF StoredOnce
<1>. USE DEF TableInv
<1>1. Live = InFlight
  BY InvImpliesPublishedOnly DEF PublishedOnly, TwoInFlight, InFlight, cur, nxt
<1>2. ASSUME NEW p \in Places(s)
      PROVE  \/ p \in Threads /\ hand[p] = s
             \/ \E k \in InFlight : \E i \in Indices(k) :
                   p = <<k, i>> /\ Content(k, i) = s
  <2>1. CASE p \in Threads /\ hand[p] = s
    BY <2>1
  <2>2. CASE /\ p \in Live \X (0..heap[Len(heap)].size - 1)
             /\ p[2] < heap[p[1]].size /\ heap[p[1]].bucket[p[2]] = s
    <3>1. PICK k \in InFlight, i \in 0..heap[Len(heap)].size - 1 : p = <<k, i>>
      BY <1>1, <2>2
    <3>2. i < heap[k].size /\ Content(k, i) = s
      BY <2>2, <3>1 DEF Content
    <3>3. Len(heap) \in InFlight
      BY CurInFlight DEF TablesGrow
    <3>4. i \in Indices(k)
      BY <3>1, <3>2, <3>3, InFlightLive DEF Indices
    <3>. QED
      BY <3>1, <3>2, <3>4
  <2>. QED
    BY <2>1, <2>2 DEF Places
<1>3. ASSUME NEW k \in InFlight, NEW i \in Indices(k), Content(k, i) = s,
             NEW j \in InFlight, NEW n \in Indices(j), Content(j, n) = s
      PROVE  k = j /\ i = n
  <2>1. k = j
    BY <1>3 DEF OnePlace, InTable, InFlight
  <2>. QED
    BY <1>3, <2>1 DEF OnePlace
<1>4. ASSUME NEW t \in Threads, hand[t] = s,
             NEW k \in InFlight, NEW i \in Indices(k), Content(k, i) = s
      PROVE  FALSE
  BY <1>4 DEF OnePlace, InTable
<1>5. ASSUME NEW p \in Places(s), NEW q \in Places(s) PROVE p = q
  <2>1. CASE p \in Threads /\ hand[p] = s
    BY <1>2, <1>4, <2>1 DEF OnePlace
  <2>2. CASE \E k \in InFlight : \E i \in Indices(k) : p = <<k, i>> /\ Content(k, i) = s
    <3>1. PICK k \in InFlight : \E i \in Indices(k) : p = <<k, i>> /\ Content(k, i) = s
      BY <2>2
    <3>2. PICK i \in Indices(k) : p = <<k, i>> /\ Content(k, i) = s
      BY <3>1
    <3>3. PICK j \in InFlight : \E n \in Indices(j) : q = <<j, n>> /\ Content(j, n) = s
      BY <1>2, <1>4, <3>2
    <3>4. PICK n \in Indices(j) : q = <<j, n>> /\ Content(j, n) = s
      BY <3>3
    <3>. QED
      BY <1>3, <3>2, <3>4
  <2>. QED
    BY <1>2, <2>1, <2>2
<1>6. CASE Places(s) = {}
  BY <1>6, FS_EmptySet
<1>7. CASE Places(s) # {}
  <2>1. PICK p : Places(s) = {p}
    BY <1>5, <1>7
  <2>. QED
    BY <2>1, FS_Singleton
<1>. QED
  BY <1>6, <1>7

LEMMA InvImpliesReachable ==
    ASSUME MemoryInv, TableInv
    PROVE  Reachable
<1>1. Live = InFlight
  BY InvImpliesPublishedOnly DEF PublishedOnly, TwoInFlight, InFlight, cur, nxt
<1>. SUFFICES ASSUME NEW k \in InFlight, NEW i \in 0..heap[k].size - 1,
                     NEW s \in States, s = heap[k].bucket[i],
                     NEW d \in 0..heap[k].size - 1,
                     d <= (i + heap[k].size - SetIndex(k, Hash[s])) % heap[k].size
              PROVE  heap[k].bucket[SetIndex(k, SetIndex(k, Hash[s]) + d)] # Empty
  BY <1>1 DEF Reachable
<1>2. PICK size \in Nat \ {0} : size = heap[k].size
  BY InFlightLive
<1>3. PICK D \in Nat : i = Slot(k, s, D) /\ ProbingReaches(k, s, D)
  BY DEF TableInv, StatesReachable, Indices, Content
<1>4. Hash[s] \in Nat
  BY SeenSetAssumption
<1>5. PICK h \in Nat : h = Hash[s]
  BY SMTT(30), <1>4
<1>6. i = (h + D) % size /\ SetIndex(k, Hash[s]) = h % size
  BY <1>2, <1>3, <1>5 DEF Slot, SetIndex
<1>7. d <= D % size
  BY <1>2, <1>6, DistanceBack
<1>8. D % size <= D
  <2>1. PICK q, r : q = D \div size /\ r = D % size
    OBVIOUS
  <2>2. Divides(D, size, q, r)
    BY <2>1, DivisionExists
  <2>3. q * size \in Nat
    BY <2>2 DEF Divides
  <2>. QED
    BY <2>1, <2>2, <2>3 DEF Divides
<1>9. D % size \in 0..size-1
  BY RemainderInRange
<1>10. d \in Nat /\ d <= D
  BY SMTT(30), <1>2, <1>7, <1>8, <1>9
<1>11. SetIndex(k, SetIndex(k, Hash[s]) + d) = Slot(k, s, d)
  BY <1>2, <1>5, <1>6, <1>10, RemainderOfSum DEF Slot, SetIndex
<1>12. Content(k, Slot(k, s, d)) # Empty
  <2>1. CASE d = D
    BY <1>3, <2>1, SeenSetAssumption DEF Content
  <2>2. CASE d # D
    BY <1>3, <1>10, <2>2 DEF ProbingReaches
  <2>. QED
    BY <2>1, <2>2
<1>. QED
  BY <1>11, <1>12 DEF Content

LEMMA InvImpliesTableSound == MemoryInv /\ TableInv => TableSound
<1>. SUFFICES ASSUME MemoryInv, TableInv PROVE TableSound
  OBVIOUS
<1>1. TypeOK /\ StoredOnce /\ Reachable
  BY InvImpliesTypeOK, InvImpliesStoredOnce, InvImpliesReachable
<1>2. MigratedOnce
  <2>. SUFFICES ASSUME NEW t \in Threads, pc[t] = "take",
                       pos[t] < heap[local_seen[t]].size
                PROVE  heap[local_seen[t]].bucket[pos[t]] # Tombstone
    BY DEF MigratedOnce
  <2>. QED
    BY TakenOnce, SeenSetAssumption DEF Content
<1>3. CountConsistent
  <2>1. Stored = Kept
    BY StoredIsKept DEF TableInv
  <2>. QED
    BY <2>1 DEF TableInv, KeptCounted, Counting, CountConsistent
<1>. QED
  BY <1>1, <1>2, <1>3 DEF TableSound

\* For any number of threads, states and hash, and any size of the tables: a state
\* is in one place only, linear probing finds it there, the occupancy counts the
\* states, and set_migrate takes no slot twice.
THEOREM SeenSetTableSound == Spec => []TableSound
<1>1. Init => MemoryInv /\ TableInv
  BY InitEstablishesMemoryInv, InitEstablishesTableInv
<1>2. (MemoryInv /\ TableInv) /\ [Next]_vars => (MemoryInv /\ TableInv)'
  BY NextPreservesMemoryInv, NextPreservesTableInv
<1>. QED
  BY <1>1, <1>2, InvImpliesTableSound, PTL DEF Spec

-----------------------------------------------------------------------------
(***************************************************************************)
(* The table implements a set.  In terms of what is kept, of the arguments *)
(* and of the threads that have added theirs, a step is one of four:       *)
(***************************************************************************)

Stays == UNCHANGED <<Kept, arg, Counting>>

Calls(t, s) ==
    /\ arg[t] = Empty /\ t \notin Counting
    /\ arg' = [arg EXCEPT ![t] = s]
    /\ UNCHANGED <<Kept, Counting>>

Adds(t) ==
    /\ arg[t] \in States \ Kept /\ t \notin Counting
    /\ Kept' = Kept \cup {arg[t]}
    /\ Counting' = Counting \cup {t}
    /\ UNCHANGED arg

Returns(t) ==
    /\ t \in Counting \/ arg[t] \in Kept
    /\ arg' = [arg EXCEPT ![t] = Empty]
    /\ Counting' = Counting \ {t}
    /\ UNCHANGED Kept

\* A thread that is not in the middle of counting, and does not come to it.
LEMMA NotToCount ==
    ASSUME pc \in [Threads -> Labels], NEW t \in Threads, pc[t] # "count",
           NEW l, l # "count", pc' = [pc EXCEPT ![t] = l]
    PROVE  Counting' = Counting
BY DEF Counting

\* What Probe and CompareAndSwap do about an occupied slot.
LEMMA OccupiedIs ==
    ASSUME MemoryInv, TableInv, NEW t \in Threads, Probing(t),
           Occupied(t, Content(cur, Slot(cur, arg[t], pos[t]))), Kept' = Kept
    PROVE  Stays \/ Returns(t)
<1>. DEFINE c == Content(cur, Slot(cur, arg[t], pos[t]))
<1>0. pc \in [Threads -> Labels] /\ pc[t] # "count"
  BY DEF MemoryInv, VarsTyped, Probing
<1>1. CASE SameState(t, c) /\ Goto(t, "idle") /\ arg' = [arg EXCEPT ![t] = Empty]
  <2>1. Counting' = Counting /\ t \notin Counting
    BY <1>0, <1>1, NotToCount DEF Goto, Counting
  <2>2. arg[t] \in States /\ Slot(cur, arg[t], pos[t]) \in Indices(cur)
    BY ProbesSlot
  <2>3. cur \in InFlight /\ InTable(cur, arg[t])
    BY <1>1, <2>2, CurInFlight DEF SameState, InTable
  <2>4. arg[t] \in Kept
    BY <2>2, <2>3 DEF Kept
  <2>. QED
    BY <1>1, <2>1, <2>4 DEF Returns
<1>2. CASE UNCHANGED arg /\ \E l \in {"get", "probe", "expand"} : Goto(t, l)
  BY <1>0, <1>2, NotToCount DEF Goto, Stays
<1>. QED
  BY <1>1, <1>2 DEF Occupied

\* The steps of one thread.
LEMMA ProbeIs ==
    ASSUME MemoryInv, MemoryInv', TableInv, NEW t \in Threads, Probe(t)
    PROVE  Stays \/ Returns(t)
<1>. DEFINE c == Content(cur, Slot(cur, arg[t], pos[t]))
<1>0. Probing(t) /\ heap[local_seen[t]].bucket[ProbedSlot(t)] = c
  BY ProbesSlot DEF Probe, Probing
<1>1. Kept' = Kept
  BY ProbeKeepsTables DEF KeepsTables
<1>2. CASE Occupied(t, c)
  BY <1>0, <1>1, <1>2, OccupiedIs
<1>3. CASE Goto(t, "cas") /\ UNCHANGED arg
  <2>1. pc \in [Threads -> Labels] /\ pc[t] # "count"
    BY DEF MemoryInv, VarsTyped, Probe
  <2>. QED
    BY <1>1, <1>3, <2>1, NotToCount DEF Goto, Stays
<1>. QED
  BY <1>0, <1>2, <1>3 DEF Probe

LEMMA CompareAndSwapIs ==
    ASSUME MemoryInv, MemoryInv', TableInv, NEW t \in Threads, CompareAndSwap(t)
    PROVE  Stays \/ Returns(t) \/ Adds(t)
<1>0. Probing(t) /\ pc[t] = "cas" /\ pc \in [Threads -> Labels]
  BY DEF CompareAndSwap, Probing, MemoryInv, VarsTyped
<1>1. CASE Fills(t)
  <2>1. Counting' = Counting \cup {t} /\ t \notin Counting
    BY <1>0, <1>1 DEF Fills, Goto, Counting
  <2>. QED
    BY <1>1, <2>1 DEF Fills, Adds
<1>2. CASE ~Fills(t)
  BY <1>0, <1>2, CompareAndSwapKeepsTables, OccupiedIs
<1>. QED
  BY <1>1, <1>2

LEMMA CountInsertionIs ==
    ASSUME MemoryInv, MemoryInv', TableInv, NEW t \in Threads, CountInsertion(t)
    PROVE  Returns(t)
<1>1. pc \in [Threads -> Labels] /\ Kept' = Kept
  BY CountInsertionKeepsTables DEF KeepsTables, MemoryInv, VarsTyped
<1>2. t \in Counting /\ Counting' = Counting \ {t}
  BY <1>1 DEF CountInsertion, Goto, Counting
<1>. QED
  BY <1>1, <1>2 DEF CountInsertion, Returns

LEMMA InsertIs ==
    ASSUME MemoryInv, MemoryInv', TableInv, NEW t \in Threads, NEW s \in States, Insert(t, s)
    PROVE  Calls(t, s)
<1>1. pc \in [Threads -> Labels] /\ Kept' = Kept /\ pc[t] = "idle"
  BY InsertKeepsTables DEF KeepsTables, MemoryInv, VarsTyped, Insert
<1>2. Counting' = Counting /\ t \notin Counting
  BY <1>1, NotToCount DEF Insert, Goto, Counting
<1>3. arg[t] = Empty
  BY <1>1 DEF TableInv, ArgsInserted, Inserting, Migrating
<1>. QED
  BY <1>1, <1>2, <1>3 DEF Insert, Calls

\* Steps that neither begin nor end an insertion.
LEMMA MigrationStays ==
    ASSUME MemoryInv, KeepsTables, NEW t \in Threads,
           \/ CheckOccupancy(t) \/ SetExpand(t) \/ SetExpandLock(t) \/ SetExpandAllocate(t)
           \/ MigrateGet(t) \/ MigrateChunk(t) \/ MigrateTake(t) \/ MigratePlace(t)
           \/ MigratePut(t) \/ Exit(t) \/ Reacquire(t) \/ SetThreadInit(t)
    PROVE  Stays
<1>1. pc \in [Threads -> Labels]
  BY DEF MemoryInv, VarsTyped
<1>2. /\ pc[t] # "count" /\ UNCHANGED arg
      /\ \E l : l # "count" /\ pc' \in {pc, [pc EXCEPT ![t] = l]}
  <2>1. CASE SetThreadInit(t)
    <3>1. rpc[t] = "new"
      BY <2>1 DEF SetThreadInit, ThreadMain
    <3>2. pc[t] = "unborn"
      BY <3>1 DEF MemoryInv, ControlAgrees
    <3>. QED
      BY <2>1, <3>2 DEF SetThreadInit, Goto
  <2>2. CASE \/ CheckOccupancy(t) \/ SetExpand(t) \/ SetExpandLock(t)
             \/ SetExpandAllocate(t) \/ MigrateGet(t) \/ MigratePut(t)
             \/ Exit(t) \/ Reacquire(t)
    BY <2>2 DEF CheckOccupancy, SetExpand, SetExpandLock, SetExpandAllocate, MigrateGet,
         MigratePut, Exit, Reacquire, Goto
  <2>3. CASE MigrateChunk(t) \/ MigrateTake(t) \/ MigratePlace(t)
    BY <2>3 DEF MigrateChunk, MigrateTake, MigratePlace, NextSlot, Goto
  <2>. QED
    BY <2>1, <2>2, <2>3
<1>3. Counting' = Counting
  BY <1>1, <1>2, NotToCount DEF Counting
<1>. QED
  BY <1>2, <1>3 DEF Stays, KeepsTables

LEMMA RendezvousStays ==
    ASSUME MemoryInv, KeepsTables, NEW t \in Threads,
           \/ MeetArrive(t) \/ MeetWait(t) \/ MeetLead(t) \/ MeetDepart(t) \/ MeetLeave(t)
           \/ ExitOptOut(t) \/ StartThreads(t) \/ Abort(t)
    PROVE  Stays
<1>1. pc \in [Threads -> Labels] /\ resume[t] # "count"
  BY DEF MemoryInv, VarsTyped
<1>2. CASE UNCHANGED <<pc, arg>>
  BY <1>2 DEF Counting, Stays, KeepsTables
<1>3. ASSUME NEW l, l # "count", pc' = [pc EXCEPT ![t] = l], pc[t] # "count", UNCHANGED arg
      PROVE  Stays
  BY <1>1, <1>3, NotToCount DEF Stays, KeepsTables
<1>4. CASE MeetArrive(t) \/ MeetWait(t) \/ MeetLead(t) \/ StartThreads(t) \/ Abort(t)
  BY <1>2, <1>4 DEF MeetArrive, MeetWait, MeetLead, StartThreads, Abort, threadState
<1>5. CASE MeetDepart(t) \/ MeetLeave(t)
  <2>1. CASE rpc[t] = "outled" /\ UNCHANGED threadState
    BY <1>2, <2>1 DEF threadState
  <2>2. CASE rpc[t] \in {"led", "woken"} /\ MigrateDone(t)
    <3>1. pc[t] = "meet"
      BY <2>2 DEF MemoryInv, ControlAgrees
    <3>2. PICK l : l = resume[t]
      OBVIOUS
    <3>. QED
      BY <1>1, <1>3, <2>2, <3>1, <3>2 DEF MigrateDone, Goto
  <2>. QED
    BY <1>5, <2>1, <2>2 DEF MeetDepart, MeetLeave, Depart, Leave
<1>6. CASE ExitOptOut(t)
  <2>1. CASE UNCHANGED pc
    BY <1>2, <1>6, <2>1 DEF ExitOptOut
  <2>2. CASE pc' = [pc EXCEPT ![t] = IF t = Main THEN "joining" ELSE "done"]
    BY <1>3, <1>6, <2>2 DEF ExitOptOut
  <2>. QED
    BY <1>6, <2>1, <2>2 DEF ExitOptOut, Goto
<1>. QED
  BY <1>4, <1>5, <1>6

LEMMA StepIs ==
    ASSUME MemoryInv, MemoryInv', TableInv, [Next]_vars
    PROVE  \/ Stays
           \/ \E t \in Threads :
                 Adds(t) \/ Returns(t) \/ \E s \in States : Calls(t, s)
<1>1. CASE UNCHANGED vars
  <2>1. KeepsTables
    BY <1>1, NothingMovesKeepsTables DEF vars
  <2>. QED
    BY <1>1, <2>1 DEF vars, threadState, Stays, KeepsTables, Counting
<1>2. ASSUME NEW t \in Threads, InsertStep(t)
      PROVE  Stays \/ Adds(t) \/ Returns(t)
  <2>1. CASE \/ CheckOccupancy(t) \/ SetExpand(t) \/ SetExpandLock(t)
             \/ SetExpandAllocate(t) \/ MigrateGet(t) \/ MigrateChunk(t) \/ MigrateTake(t)
             \/ MigratePlace(t) \/ MigratePut(t) \/ Reacquire(t)
    <3>1. KeepsTables
      BY <2>1, CheckOccupancyKeepsTables, AllocateKeepsTables, MovesKeepTables,
         MigrateChunkKeepsTables, MigrateTakeKeepsTables, MigratePlaceKeepsTables,
         MigratePutKeepsTables
    <3>. QED
      BY <2>1, <3>1, MigrationStays
  <2>2. CASE \/ MeetArrive(t) \/ MeetWait(t) \/ MeetLead(t) \/ MeetDepart(t)
             \/ MeetLeave(t) \/ ExitOptOut(t)
    <3>1. KeepsTables
      BY <2>2, MeetKeepsTables, MeetLeadKeepsTables, MeetDepartKeepsTables,
         MeetLeaveKeepsTables, ExitOptOutKeepsTables
    <3>. QED
      BY <2>2, <3>1, RendezvousStays
  <2>3. CASE Probe(t) \/ CompareAndSwap(t) \/ CountInsertion(t)
    BY <2>3, ProbeIs, CompareAndSwapIs, CountInsertionIs
  <2>. QED
    BY <1>2, <2>1, <2>2, <2>3 DEF InsertStep
<1>3. ASSUME NEW t \in Threads, ThreadStep(t)
      PROVE  Stays \/ Adds(t) \/ Returns(t)
  <2>1. CASE SetThreadInit(t)
    BY <2>1, SetThreadInitKeepsTables, MigrationStays
  <2>2. CASE Abort(t)
    BY <2>2, NothingMovesKeepsTables, RendezvousStays DEF Abort
  <2>. QED
    BY <1>2, <1>3, <2>1, <2>2 DEF ThreadStep
<1>4. ASSUME NEW t \in Threads, ExploreStep(t)
      PROVE  Stays \/ \E s \in States : Calls(t, s)
  BY <1>4, MovesKeepTables, MigrationStays, InsertIs DEF ExploreStep, CallerStep
<1>5. ASSUME NEW t \in Threads, StartThreads(t) PROVE Stays
  BY <1>5, StartThreadsKeepsTables, RendezvousStays
<1>6. CASE Next
  <2>1. CASE Finished
    BY <1>1, <2>1 DEF Finished
  <2>. QED
    BY <1>3, <1>4, <1>5, <1>6, <2>1 DEF Next
<1>. QED
  BY <1>1, <1>6

\* What A's op is of.
OpOf(a, added) == [arg |-> a, added |-> added]
Op == [t \in Threads |-> OpOf(arg[t], pc[t] = "count")]

LEMMA OpIsCounting ==
    Op = [t \in Threads |-> OpOf(arg[t], t \in Counting)]
BY DEF Op, Counting

LEMMA OpChanges ==
    ASSUME arg \in [Threads -> States \cup {Empty}], NEW t \in Threads,
           NEW a, arg' = [arg EXCEPT ![t] = a], NEW b \in BOOLEAN,
           Counting' = IF b THEN Counting \cup {t} ELSE Counting \ {t}
    PROVE  Op' = [Op EXCEPT ![t] = OpOf(a, b)]
<1>1. Op' = [u \in Threads |-> OpOf(arg'[u], u \in Counting')]
  BY OpIsCounting DEF Counting, Op
<1>2. ASSUME NEW u \in Threads
      PROVE  OpOf(arg'[u], u \in Counting')
               = IF u = t THEN OpOf(a, b) ELSE OpOf(arg[u], u \in Counting)
  <2>1. CASE u = t
    <3>1. arg'[u] = a
      BY <2>1
    <3>2. (u \in Counting') = b
      <4>1. CASE b = TRUE
        BY <2>1, <4>1
      <4>2. CASE b = FALSE
        BY <2>1, <4>2
      <4>. QED
        BY <4>1, <4>2
    <3>. QED
      BY <2>1, <3>1, <3>2, Zenon
  <2>2. CASE u # t
    <3>1. arg'[u] = arg[u]
      BY <2>2
    <3>2. (u \in Counting') = (u \in Counting)
      <4>1. u \in Counting' <=> u \in Counting
        BY <2>2 DEF Counting
      <4>. QED
        BY <4>1
    <3>. QED
      BY <2>2, <3>1, <3>2, Zenon
  <2>. QED
    BY <2>1, <2>2
<1>3. Op' = [u \in Threads |-> IF u = t THEN OpOf(a, b) ELSE OpOf(arg[u], u \in Counting)]
  BY <1>1, <1>2, Zenon
<1>4. [Op EXCEPT ![t] = OpOf(a, b)]
        = [u \in Threads |-> IF u = t THEN OpOf(a, b) ELSE OpOf(arg[u], u \in Counting)]
  BY OpIsCounting, Zenon
<1>. QED
  BY <1>3, <1>4

LEMMA OpFields ==
    ASSUME NEW a, NEW b
    PROVE  /\ OpOf(a, b).arg = a /\ OpOf(a, b).added = b
           /\ \A c : [OpOf(a, b) EXCEPT !.added = c] = OpOf(a, c)
BY DEF OpOf

\* The steps of the set, in terms of Op.
LEMMA SetSteps ==
    ASSUME NEW t \in Threads, NEW s \in States
    PROVE  /\ A!Call(t, s) <=> /\ Op[t] = OpOf(Empty, FALSE)
                               /\ Op' = [Op EXCEPT ![t] = OpOf(s, FALSE)]
                               /\ UNCHANGED Stored
           /\ A!Add(t) <=> /\ Op[t].arg \in States \ Stored
                           /\ Stored' = Stored \cup {Op[t].arg}
                           /\ Op' = [Op EXCEPT ![t].added = TRUE]
           /\ A!ReturnTrue(t) <=> /\ Op[t].added
                                  /\ Op' = [Op EXCEPT ![t] = OpOf(Empty, FALSE)]
                                  /\ UNCHANGED Stored
           /\ A!ReturnFalse(t) <=> /\ Op[t].arg \in Stored
                                   /\ ~Op[t].added
                                   /\ Op' = [Op EXCEPT ![t] = OpOf(Empty, FALSE)]
                                   /\ UNCHANGED Stored
BY Zenon DEF A!Call, A!Add, A!ReturnTrue, A!ReturnFalse, A!NoOp, Op, OpOf

LEMMA InitImplementsSet == Init => A!SetInit
<1>. SUFFICES ASSUME Init PROVE A!SetInit
  OBVIOUS
<1>1. MemoryInv /\ TableInv
  BY InitEstablishesMemoryInv, InitEstablishesTableInv
<1>2. Stored = Kept
  BY <1>1, StoredIsKept DEF TableInv
<1>3. Kept = {}
  <2>1. InFlight = {1} /\ heap[1] = EmptyTable(InitialSize)
    BY DEF Init, InFlight, cur, nxt, Null
  <2>2. (\A t \in Threads : hand[t] = Empty) /\ Empty \notin States
    BY SeenSetAssumption DEF Init
  <2>3. \A s \in States : ~InTable(1, s)
    BY <2>1, <2>2 DEF InTable, Indices, Content, EmptyTable
  <2>. QED
    BY <2>1, <2>2, <2>3 DEF Kept, Carried
<1>4. \A t \in Threads : arg[t] = Empty /\ ~(pc[t] = "count")
  BY DEF Init
<1>5. \A t \in Threads : OpOf(arg[t], pc[t] = "count") = OpOf(Empty, FALSE)
  <2>. SUFFICES ASSUME NEW t \in Threads
                PROVE  OpOf(arg[t], pc[t] = "count") = OpOf(Empty, FALSE)
    OBVIOUS
  <2>1. arg[t] = Empty /\ (pc[t] = "count") = FALSE
    BY <1>4
  <2>. QED
    BY <2>1, Zenon
<1>6. Op = [t \in Threads |-> OpOf(Empty, FALSE)]
  BY <1>5, Zenon DEF Op
<1>. QED
  BY <1>2, <1>3, <1>6, Zenon DEF A!SetInit, A!NoOp, Op, OpOf

LEMMA NextImplementsSet ==
    /\ MemoryInv /\ TableInv /\ MemoryInv' /\ [Next]_vars
    /\ Stored = Kept /\ (Stored = Kept)'
    => [A!SetNext]_(A!setVars)
<1>. SUFFICES ASSUME MemoryInv, MemoryInv', TableInv, [Next]_vars, Stored = Kept,
                     (Stored = Kept)'
              PROVE  [A!SetNext]_(A!setVars)
  OBVIOUS
<1>1. Stored = Kept /\ Stored' = Kept'
  OBVIOUS
<1>2. arg \in [Threads -> States \cup {Empty}] /\ Empty \notin States
  BY SeenSetAssumption DEF MemoryInv, VarsTyped
<1>3. \A t \in Threads : Op[t] = OpOf(arg[t], t \in Counting)
  BY OpIsCounting, Zenon
<1>4. CASE Stays
  <2>1. Op' = [t \in Threads |-> OpOf(arg'[t], t \in Counting')]
    BY DEF Counting, Op
  <2>2. Op' = Op
    BY <1>4, <2>1, OpIsCounting DEF Stays
  <2>. QED
    BY <1>1, <1>4, <2>2, Zenon DEF Stays, A!setVars, Op, OpOf
<1>5. ASSUME NEW t \in Threads, NEW s \in States, Calls(t, s) PROVE A!SetNext
  <2>1. Op' = [Op EXCEPT ![t] = OpOf(s, FALSE)]
    <3>1. Counting' = IF FALSE THEN Counting \cup {t} ELSE Counting \ {t}
      BY <1>5 DEF Calls
    <3>. QED
      BY <1>2, <1>5, <3>1, OpChanges DEF Calls
  <2>2. Op[t] = OpOf(Empty, FALSE)
    <3>1. arg[t] = Empty /\ (t \in Counting) = FALSE
      BY <1>5 DEF Calls
    <3>. QED
      BY <1>3, <3>1, Zenon
  <2>3. A!Call(t, s)
    BY <1>1, <1>5, <2>1, <2>2, SetSteps DEF Calls
  <2>. QED
    BY <2>3 DEF A!SetNext
<1>6. ASSUME NEW t \in Threads, Adds(t) PROVE A!SetNext
  <2>1. Op' = [Op EXCEPT ![t] = OpOf(arg[t], TRUE)]
    <3>1. Counting' = IF TRUE THEN Counting \cup {t} ELSE Counting \ {t}
      BY <1>6 DEF Adds
    <3>2. PICK a : a = arg[t]
      OBVIOUS
    <3>3. arg' = [arg EXCEPT ![t] = a]
      BY <1>2, <1>6, <3>2 DEF Adds
    <3>4. Op' = [Op EXCEPT ![t] = OpOf(a, TRUE)]
      BY <1>2, <3>1, <3>3, OpChanges
    <3>. QED
      BY <3>2, <3>4
  <2>2. Op[t].arg = arg[t] /\ [Op[t] EXCEPT !.added = TRUE] = OpOf(arg[t], TRUE)
    <3>1. PICK a : a = arg[t]
      OBVIOUS
    <3>2. (t \in Counting) = FALSE
      BY <1>6 DEF Adds
    <3>3. Op[t] = OpOf(a, FALSE)
      BY <1>3, <3>1, <3>2, Zenon
    <3>4. OpOf(a, FALSE).arg = a /\ [OpOf(a, FALSE) EXCEPT !.added = TRUE] = OpOf(a, TRUE)
      BY OpFields
    <3>. QED
      BY <3>1, <3>3, <3>4, Zenon
  <2>3. Op' = [Op EXCEPT ![t].added = TRUE]
    BY <2>1, <2>2
  <2>4. PICK s \in States : s = arg[t]
    BY <1>6 DEF Adds
  <2>5. A!Add(t)
    BY <1>1, <1>6, <2>2, <2>3, <2>4, SetSteps DEF Adds
  <2>. QED
    BY <2>5 DEF A!SetNext
<1>7. ASSUME NEW t \in Threads, Returns(t) PROVE A!SetNext
  <2>1. Op' = [Op EXCEPT ![t] = OpOf(Empty, FALSE)]
    <3>1. Counting' = IF FALSE THEN Counting \cup {t} ELSE Counting \ {t}
      BY <1>7 DEF Returns
    <3>. QED
      BY <1>2, <1>7, <3>1, OpChanges DEF Returns
  <2>2. Op[t].arg = arg[t] /\ (Op[t].added <=> t \in Counting)
    <3>1. PICK a, b : a = arg[t] /\ b = (t \in Counting)
      OBVIOUS
    <3>2. Op[t] = OpOf(a, b)
      BY <1>3, <3>1, Zenon
    <3>3. OpOf(a, b).arg = a /\ OpOf(a, b).added = b
      BY OpFields
    <3>. QED
      BY <3>1, <3>2, <3>3, Zenon
  <2>3. CASE t \in Counting
    <3>1. PICK s : s \in States
      BY <1>7, <2>3 DEF TableInv, ArgsInserted, Counting
    <3>. QED
      BY <1>1, <1>7, <2>1, <2>2, <2>3, <3>1, SetSteps DEF Returns, A!SetNext
  <2>4. CASE t \notin Counting
    <3>1. PICK s \in States : s = arg[t]
      BY <1>7, <2>4 DEF Returns, Kept
    <3>2. A!ReturnFalse(t)
      BY <1>1, <1>7, <2>1, <2>2, <2>4, <3>1, SetSteps DEF Returns
    <3>. QED
      BY <3>2 DEF A!SetNext
  <2>. QED
    BY <2>3, <2>4
<1>8. CASE \E t \in Threads : Adds(t) \/ Returns(t) \/ \E s \in States : Calls(t, s)
  BY <1>5, <1>6, <1>7, <1>8
<1>. QED
  BY <1>4, <1>8, StepIs

\* For any number of threads, states and hash, and any size of the tables,
\* set_insert is linearizable: every step of the table is a step of the abstract
\* set, in which an insertion takes effect at one moment and its return says
\* whether it added the state, or no step of it at all.
THEOREM SeenSetImplementsSet == Spec => ImplementsSet
<1>1. Init => MemoryInv /\ TableInv
  BY InitEstablishesMemoryInv, InitEstablishesTableInv
<1>2. (MemoryInv /\ TableInv) /\ [Next]_vars => (MemoryInv /\ TableInv)'
  BY NextPreservesMemoryInv, NextPreservesTableInv
<1>3. MemoryInv /\ TableInv => Stored = Kept
  BY StoredIsKept DEF TableInv
<1>. QED
  BY <1>1, <1>2, <1>3, NextImplementsSet, InitImplementsSet, PTL DEF Spec, ImplementsSet, A!SetSpec
=============================================================================
