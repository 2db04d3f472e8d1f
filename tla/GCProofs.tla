------------------------------ MODULE GCProofs ------------------------------
(***************************************************************************)
(* Proofs about ObjHeap, for every capacity and every set of objects, and  *)
(* about GC, for every heap, ring, bit set and program.                    *)
(***************************************************************************)
EXTENDS GC, FiniteSetTheorems, SequenceTheorems, Recursion, TLAPS

(***************************************************************************)
(* ObjHeap.                                                                *)
(***************************************************************************)
\* The live ids are finitely many, so that counting them means something.
LEMMA LiveIdsFinite ==
  /\ IsFiniteSet(LiveIds)
  /\ Cardinality(LiveIds) \in Nat
<1>1. IsFiniteSet(CellIds)
  BY CapacityAssumption, FS_Interval DEF CellIds
<1>2. LiveIds \subseteq CellIds
  BY DEF LiveIds
<1> QED BY <1>1, <1>2, FS_Subset, FS_CardinalityType

\* Filling an empty cell makes its id live and one more id live.
LEMMA StoreAddsOne ==
  ASSUME NEW id \in CellIds, NEW object \in Objects,
         cells \in [CellIds -> Objects \cup {NullCell}], cells[id] = NullCell,
         cells' = [cells EXCEPT ![id] = object]
  PROVE  Cardinality(LiveIds') = Cardinality(LiveIds) + 1
<1>1. LiveIds' = LiveIds \cup {id} /\ id \notin LiveIds
  BY ObjectsAssumption DEF LiveIds
<1> QED BY <1>1, LiveIdsFinite, FS_AddElement

\* Emptying a cell makes one id less live.
LEMMA EraseRemovesOne ==
  ASSUME NEW id \in CellIds, cells \in [CellIds -> Objects \cup {NullCell}],
         cells[id] # NullCell, cells' = [cells EXCEPT ![id] = NullCell]
  PROVE  Cardinality(LiveIds') = Cardinality(LiveIds) - 1
<1>1. LiveIds' = LiveIds \ {id} /\ id \in LiveIds
  BY ObjectsAssumption DEF LiveIds
<1> QED BY <1>1, LiveIdsFinite, FS_RemoveElement

LEMMA HeapInitInv == HeapInit => HeapInv
<1> SUFFICES ASSUME HeapInit PROVE HeapInv
  OBVIOUS
<1> USE CapacityAssumption DEF HeapInit, CellIds, DudId
<1>1. HeapTypeOK
  BY DEF HeapTypeOK
<1>2. FreeListSound
  BY DEF FreeListSound, FreeIds
<1>3. NoCellLost
  BY DEF NoCellLost
<1>4. LiveIds = {}
  BY DEF LiveIds
<1>5. FreePlusLive /\ CostCountsLive
  BY <1>4, FS_EmptySet DEF FreePlusLive, CostCountsLive, OBJECT_COST
<1> QED BY <1>1, <1>2, <1>3, <1>5 DEF HeapInv
-----------------------------------------------------------------------------
(***************************************************************************)
(* Each function of the heap keeps the invariant.                          *)
(***************************************************************************)
\* heap_store keeps the invariant in each of its three cases: an erased id is
\* used again, the watermark moves, or the object is refused.
LEMMA StoreKeepsInv ==
  ASSUME HeapInv, NEW object \in Objects, heap_store(object)
  PROVE  HeapInv'
<1> USE DEF DudId
<1>t. HeapTypeOK
  BY DEF HeapInv
<1>n. /\ CellCapacity \in Nat /\ CellIds = 0 .. CellCapacity - 1
      /\ next_free_id_pos \in -1 .. CellCapacity - 1
      /\ next_cell_id \in 0 .. CellCapacity
      /\ cost \in Nat /\ Cardinality(LiveIds) \in Nat
  BY <1>t, CapacityAssumption, LiveIdsFinite DEF HeapTypeOK, CellIds
<1>c. cells \in [CellIds -> Objects \cup {NullCell}] /\ object # NullCell
  BY <1>t, ObjectsAssumption DEF HeapTypeOK
<1>f. free_ids \in [CellIds -> CellIds]
  BY <1>t DEF HeapTypeOK
<1>u. free_ids' = free_ids /\ tenure_count' = tenure_count /\ heap_status' = heap_status
  BY DEF heap_store
<1>1. CASE next_free_id_pos >= 0
  <2> DEFINE id == free_ids[next_free_id_pos]
  <2>1. id \in CellIds /\ id < next_cell_id /\ cells[id] = NullCell
    BY <1>1, <1>n, <1>f DEF HeapInv, FreeListSound, FreeIds
  <2>2. id = GeneratedId /\ id # DudId
    BY <1>1, <1>n, <2>1 DEF GeneratedId
  <2>3. next_free_id_pos' = next_free_id_pos - 1 /\ next_cell_id' = next_cell_id
    BY <1>1 DEF heap_store, heap_gen_id
  <2>4. cost' = cost + OBJECT_COST /\ last_id' = id
    BY <2>2 DEF heap_store
  <2>5. cells' = [cells EXCEPT ![id] = object]
    BY <2>2 DEF heap_store
  <2>6. Cardinality(LiveIds') = Cardinality(LiveIds) + 1
    BY <1>c, <2>1, <2>5, StoreAddsOne
  <2>7. FreeIds = FreeIds' \cup {id} /\ id \notin FreeIds'
    BY <1>1, <1>n, <1>u, <2>3 DEF HeapInv, FreeListSound, FreeIds
  <2> HIDE DEF id
  <2>8. \A j \in CellIds : cells'[j] = IF j = id THEN object ELSE cells[j]
    BY <1>c, <2>5
  <2>9. HeapTypeOK'
    BY <1>1, <1>c, <1>n, <1>t, <1>u, <2>1, <2>3, <2>4, <2>5 DEF HeapTypeOK, OBJECT_COST
  <2>10. FreeListSound'
    <3>1. FreeIds \subseteq CellIds
      BY <1>n, <1>f DEF FreeIds
    <3>2. \A j \in FreeIds' : j < next_cell_id' /\ cells'[j] = NullCell
      BY <2>3, <2>7, <2>8, <3>1 DEF HeapInv, FreeListSound
    <3>3. \A i, j \in 0 .. next_free_id_pos' : free_ids'[i] = free_ids'[j] => i = j
      BY <1>1, <1>n, <1>u, <2>3 DEF HeapInv, FreeListSound
    <3> QED BY <3>2, <3>3 DEF FreeListSound
  <2>11. NoCellLost'
    <3>1. ASSUME NEW j \in 0 .. next_cell_id - 1, cells'[j] = NullCell
          PROVE  j \in FreeIds'
      <4>1. j \in CellIds
        BY <1>n
      <4>2. j # id /\ cells[j] = NullCell
        BY <1>c, <2>8, <3>1, <4>1
      <4>3. j \in FreeIds
        BY <4>2 DEF HeapInv, NoCellLost
      <4> QED BY <2>7, <4>2, <4>3
    <3>2. \A j \in next_cell_id .. CellCapacity - 1 : cells'[j] = NullCell
      BY <1>n, <2>1, <2>8 DEF HeapInv, NoCellLost
    <3> QED BY <2>3, <3>1, <3>2 DEF NoCellLost
  <2>12. FreePlusLive' /\ CostCountsLive'
    <3>1. FreePlusLive'
      BY <1>n, <2>3, <2>4, <2>6 DEF HeapInv, FreePlusLive
    <3>2. cost = 64 * Cardinality(LiveIds) /\ cost' = cost + 64
      BY <2>4 DEF HeapInv, CostCountsLive, OBJECT_COST
    <3>3. CostCountsLive'
      BY <1>n, <2>6, <3>2 DEF CostCountsLive, OBJECT_COST
    <3> QED BY <3>1, <3>3
  <2> QED BY <2>9, <2>10, <2>11, <2>12 DEF HeapInv
<1>2. CASE next_free_id_pos = -1 /\ next_cell_id < CellCapacity
  <2>1. next_cell_id \in CellIds /\ cells[next_cell_id] = NullCell
    BY <1>2, <1>n DEF HeapInv, NoCellLost
  <2>2. GeneratedId = next_cell_id /\ next_cell_id # DudId
    BY <1>2, <1>n DEF GeneratedId
  <2>3. next_cell_id' = next_cell_id + 1 /\ next_free_id_pos' = -1
    BY <1>2 DEF heap_store, heap_gen_id
  <2>4. cost' = cost + OBJECT_COST /\ last_id' = next_cell_id
    BY <2>2 DEF heap_store
  <2>5. cells' = [cells EXCEPT ![next_cell_id] = object]
    BY <2>2 DEF heap_store
  <2>6. Cardinality(LiveIds') = Cardinality(LiveIds) + 1
    BY <1>c, <2>1, <2>5, StoreAddsOne
  <2>7. FreeIds = {} /\ FreeIds' = {}
    BY <1>2, <2>3 DEF FreeIds
  <2>8. \A j \in CellIds : cells'[j] = IF j = next_cell_id THEN object ELSE cells[j]
    BY <1>c, <2>5
  <2>9. HeapTypeOK'
    BY <1>2, <1>c, <1>n, <1>t, <1>u, <2>1, <2>3, <2>4, <2>5 DEF HeapTypeOK, OBJECT_COST
  <2>10. FreeListSound'
    BY <2>3, <2>7 DEF FreeListSound
  <2>11. NoCellLost'
    <3>1. \A j \in 0 .. next_cell_id : cells'[j] # NullCell
      BY <1>2, <1>n, <1>c, <2>7, <2>8 DEF HeapInv, NoCellLost
    <3>2. \A j \in next_cell_id + 1 .. CellCapacity - 1 : cells'[j] = NullCell
      BY <1>n, <2>8 DEF HeapInv, NoCellLost
    <3> QED BY <1>n, <2>3, <3>1, <3>2 DEF NoCellLost
  <2>12. FreePlusLive' /\ CostCountsLive'
    <3>1. FreePlusLive'
      BY <1>2, <1>n, <2>3, <2>4, <2>6 DEF HeapInv, FreePlusLive
    <3>2. cost = 64 * Cardinality(LiveIds) /\ cost' = cost + 64
      BY <2>4 DEF HeapInv, CostCountsLive, OBJECT_COST
    <3>3. CostCountsLive'
      BY <1>n, <2>6, <3>2 DEF CostCountsLive, OBJECT_COST
    <3> QED BY <3>1, <3>3
  <2> QED BY <2>9, <2>10, <2>11, <2>12 DEF HeapInv
<1>3. CASE next_free_id_pos = -1 /\ next_cell_id = CellCapacity
  <2>1. GeneratedId = DudId
    BY <1>3, <1>n DEF GeneratedId
  <2>2. last_id' = DudId /\ cells' = cells /\ cost' = cost
    BY <2>1 DEF heap_store
  <2>3. next_free_id_pos' = next_free_id_pos /\ next_cell_id' = next_cell_id
    BY <1>3, <1>n DEF heap_store, heap_gen_id
  <2>4. HeapTypeOK'
    BY <1>t, <1>u, <2>2, <2>3 DEF HeapTypeOK
  <2> QED BY <1>u, <2>2, <2>3, <2>4
          DEF HeapInv, FreeListSound, NoCellLost, FreePlusLive,
              CostCountsLive, LiveIds, FreeIds
<1> QED BY <1>1, <1>2, <1>3, <1>n

\* heap_erase of a live object keeps the invariant; in particular the stack of
\* free ids has room for the id.
LEMMA EraseKeepsInv ==
  ASSUME HeapInv, NEW id \in CellIds, Erasable(id),
         cells[id] \notin NoDel \cup {NullCell}, heap_erase(id)
  PROVE  HeapInv'
<1> DEFINE top == next_free_id_pos + 1
<1>t. HeapTypeOK
  BY DEF HeapInv
<1>n. /\ CellCapacity \in Nat /\ CellIds = 0 .. CellCapacity - 1
      /\ next_free_id_pos \in -1 .. CellCapacity - 1
      /\ next_cell_id \in 0 .. CellCapacity
      /\ cost \in Nat /\ Cardinality(LiveIds) \in Nat
  BY <1>t, CapacityAssumption, LiveIdsFinite DEF HeapTypeOK, CellIds
<1>c. cells \in [CellIds -> Objects \cup {NullCell}] /\ cells[id] # NullCell
  BY <1>t DEF HeapTypeOK
<1>f. free_ids \in [CellIds -> CellIds]
  BY <1>t DEF HeapTypeOK
<1>1. cells' = [cells EXCEPT ![id] = NullCell]
  BY DEF heap_erase
<1>2. cost' = cost - OBJECT_COST /\ next_free_id_pos' = top
  BY DEF heap_erase, heap_reserve_id
<1>3. free_ids' = [free_ids EXCEPT ![top] = id]
  BY DEF heap_erase, heap_reserve_id
<1>4. /\ next_cell_id' = next_cell_id /\ tenure_count' = tenure_count
      /\ last_id' = last_id /\ heap_status' = heap_status
  BY DEF heap_erase
<1>5. Cardinality(LiveIds') = Cardinality(LiveIds) - 1
  BY <1>1, <1>c, EraseRemovesOne
<1>6. Cardinality(LiveIds) > 0
  <2>1. id \in LiveIds
    BY <1>c DEF LiveIds
  <2> QED BY <1>n, <2>1, LiveIdsFinite, FS_EmptySet
<1>7. top \in CellIds /\ id < next_cell_id
  BY <1>6, <1>n DEF HeapInv, FreePlusLive, Erasable
<1>8. \A pos \in 0 .. next_free_id_pos : free_ids'[pos] = free_ids[pos]
  BY <1>3, <1>f, <1>n
<1>9. free_ids'[top] = id /\ id \notin FreeIds
  BY <1>3, <1>7, <1>c, <1>f DEF HeapInv, FreeListSound
<1>10. FreeIds' = FreeIds \cup {id}
  BY <1>2, <1>7, <1>8, <1>9, <1>n DEF FreeIds
<1>11. \A j \in CellIds : cells'[j] = IF j = id THEN NullCell ELSE cells[j]
  BY <1>1, <1>c
<1>12. HeapTypeOK'
  <2>1. cost' \in Nat
    BY <1>2, <1>6, <1>n DEF HeapInv, CostCountsLive, OBJECT_COST
  <2> QED BY <1>1, <1>2, <1>3, <1>4, <1>7, <1>n, <1>t, <2>1 DEF HeapTypeOK
<1>13. FreeListSound'
  <2>1. \A i \in 0 .. next_free_id_pos : free_ids'[i] # id
    BY <1>8, <1>9 DEF FreeIds
  <2>2. \A i, j \in 0 .. next_free_id_pos : free_ids'[i] = free_ids'[j] => i = j
    BY <1>8 DEF HeapInv, FreeListSound
  <2>3. \A i, j \in 0 .. top : free_ids'[i] = free_ids'[j] => i = j
    BY <1>9, <1>n, <2>1, <2>2
  <2>4. FreeIds \subseteq CellIds
    BY <1>f, <1>n DEF FreeIds
  <2>5. \A j \in FreeIds' : j < next_cell_id' /\ cells'[j] = NullCell
    BY <1>4, <1>7, <1>10, <1>11, <2>4 DEF HeapInv, FreeListSound
  <2> QED BY <1>2, <2>3, <2>5 DEF FreeListSound
<1>14. NoCellLost'
  <2>1. \A j \in 0 .. next_cell_id - 1 : cells'[j] = NullCell => j \in FreeIds'
    BY <1>10, <1>11, <1>n DEF HeapInv, NoCellLost
  <2>2. \A j \in next_cell_id .. CellCapacity - 1 : cells'[j] = NullCell
    BY <1>11, <1>n DEF HeapInv, NoCellLost
  <2> QED BY <1>4, <2>1, <2>2 DEF NoCellLost
<1>15. FreePlusLive' /\ CostCountsLive'
  <2>1. FreePlusLive'
    BY <1>2, <1>4, <1>5, <1>n DEF HeapInv, FreePlusLive
  <2>2. cost = 64 * Cardinality(LiveIds) /\ cost' = cost - 64
    BY <1>2 DEF HeapInv, CostCountsLive, OBJECT_COST
  <2>3. CostCountsLive'
    BY <1>5, <1>n, <2>2 DEF CostCountsLive, OBJECT_COST
  <2> QED BY <2>1, <2>3
<1> QED BY <1>12, <1>13, <1>14, <1>15 DEF HeapInv

\* Nothing else touches what the invariant relates.
LEMMA OtherStepsKeepInv ==
  ASSUME HeapInv, heap_status' \in {"open", "closed", "crashed"},
         tenure_count' \in {tenure_count, next_cell_id},
         UNCHANGED <<cells, free_ids, next_free_id_pos, next_cell_id, cost,
                     last_id>>
  PROVE  HeapInv'
BY DEF HeapInv, HeapTypeOK, FreeListSound, NoCellLost, FreePlusLive,
       CostCountsLive, LiveIds, FreeIds

LEMMA HeapStepKeepsInv == HeapInv /\ [HeapNext]_heapVars => HeapInv'
<1> SUFFICES ASSUME HeapInv, [HeapNext]_heapVars PROVE HeapInv'
  OBVIOUS
<1>t. heap_status \in {"open", "closed", "crashed"}
  BY DEF HeapInv, HeapTypeOK
<1>1. ASSUME NEW object \in Objects, heap_store(object) PROVE HeapInv'
  BY <1>1, StoreKeepsInv
<1>2. ASSUME NEW id \in CellIds, heap_erase(id) PROVE HeapInv'
  <2>1. CASE Erasable(id) /\ cells[id] \notin NoDel \cup {NullCell}
    BY <1>2, <2>1, EraseKeepsInv
  <2>2. CASE ~ (Erasable(id) /\ cells[id] \notin NoDel \cup {NullCell})
    BY <1>2, <1>t, <2>2, OtherStepsKeepInv DEF heap_erase, heapVars
  <2> QED BY <2>1, <2>2
<1>3. CASE heap_tenure
  BY <1>3, <1>t, OtherStepsKeepInv DEF heap_tenure
<1>4. CASE heap_del
  BY <1>4, OtherStepsKeepInv DEF heap_del
<1>5. CASE UNCHANGED heapVars
  BY <1>5, <1>t, OtherStepsKeepInv DEF heapVars
<1> QED BY <1>1, <1>2, <1>3, <1>4, <1>5 DEF HeapNext
-----------------------------------------------------------------------------
\* The heap invariant (types, a sound free list, no lost cell, a free list that
\* fits its buffer, an exact cost) holds in every state of every heap.
THEOREM HeapInvariance == HeapSpec => []HeapInv
BY HeapInitInv, HeapStepKeepsInv, PTL DEF HeapSpec

\* In every reachable state of every heap, the collector's trigger and the
\* share of live cells agree (heap_is_ripe, cost_to_gc).
THEOREM HeapRipeAtTwoThirds == HeapSpec => []RipeAtTwoThirds
<1>1. HeapInv => RipeAtTwoThirds
  <2> SUFFICES ASSUME HeapInv PROVE RipeAtTwoThirds
    OBVIOUS
  <2> DEFINE n == Cardinality(LiveIds)
  <2>1. n \in Nat /\ CellCapacity \in Nat /\ cost = 64 * n
    BY LiveIdsFinite, CapacityAssumption DEF HeapInv, CostCountsLive, OBJECT_COST
  <2>2. heap_is_ripe <=> 64 * n > (128 * CellCapacity) \div 3
    BY <2>1 DEF heap_is_ripe, CostToGc, OBJECT_COST
  <2>3. 64 * n > (128 * CellCapacity) \div 3 <=> 3 * n > 2 * CellCapacity
    BY <2>1
  <2> QED BY <2>2, <2>3 DEF RipeAtTwoThirds
<1> QED BY <1>1, HeapInvariance, PTL

\* heap_store picks an empty cell and leaves the live ones alone.
LEMMA StoreSparesLive ==
  ASSUME HeapInv, NEW object \in Objects, heap_store(object), NEW id \in LiveIds
  PROVE  cells'[id] = cells[id]
<1>t. /\ cells \in [CellIds -> Objects \cup {NullCell}]
      /\ id \in CellIds /\ cells[id] # NullCell
  BY DEF HeapInv, HeapTypeOK, LiveIds
<1>1. CASE GeneratedId = DudId
  BY <1>1 DEF heap_store
<1>2. CASE GeneratedId # DudId
  <2>1. CASE next_free_id_pos >= 0
    <3>1. GeneratedId \in FreeIds
      BY <2>1 DEF GeneratedId, FreeIds, HeapInv, HeapTypeOK
    <3>2. cells[GeneratedId] = NullCell
      BY <3>1 DEF HeapInv, FreeListSound
    <3> QED BY <1>t, <1>2, <3>2 DEF heap_store
  <2>2. CASE ~ next_free_id_pos >= 0
    <3>1. GeneratedId = next_cell_id /\ next_cell_id < CellCapacity
      BY <1>2, <2>2 DEF GeneratedId
    <3>2. next_cell_id \in next_cell_id .. CellCapacity - 1
      BY <3>1, CapacityAssumption DEF HeapInv, HeapTypeOK
    <3>3. cells[GeneratedId] = NullCell
      BY <3>1, <3>2 DEF HeapInv, NoCellLost
    <3> QED BY <1>t, <1>2, <3>3 DEF heap_store
  <2> QED BY <2>1, <2>2
<1> QED BY <1>1, <1>2

LEMMA HeapStepSparesLive ==
  ASSUME HeapInv, [HeapNext]_heapVars
  PROVE  [\A id \in LiveIds : cells'[id] \in {cells[id], NullCell}]_heapVars
<1> SUFFICES ASSUME HeapNext, NEW id \in LiveIds
             PROVE  cells'[id] \in {cells[id], NullCell}
  OBVIOUS
<1>1. ASSUME NEW object \in Objects, heap_store(object)
      PROVE  cells'[id] = cells[id]
  BY <1>1, StoreSparesLive
<1>2. ASSUME NEW erased \in CellIds, heap_erase(erased)
      PROVE  cells'[id] \in {cells[id], NullCell}
  <2>1. cells \in [CellIds -> Objects \cup {NullCell}] /\ id \in CellIds
    BY DEF HeapInv, HeapTypeOK, LiveIds
  <2> QED BY <1>2, <2>1 DEF heap_erase, heapVars
<1>3. CASE heap_tenure \/ heap_del
  BY <1>3 DEF heap_tenure, heap_del
<1> QED BY <1>1, <1>2, <1>3 DEF HeapNext

\* No step of the heap overwrites the cell of a live object: an id a program
\* holds goes on meaning the same object until it is erased.
THEOREM HeapNoOverwrite == HeapSpec => NoOverwrite
<1>1. HeapInv /\ [HeapNext]_heapVars
        => [\A id \in LiveIds : cells'[id] \in {cells[id], NullCell}]_heapVars
  BY HeapStepSparesLive
<1> QED BY <1>1, HeapInvariance, PTL DEF HeapSpec, NoOverwrite

\* A live object below the tenure mark is never moved nor erased.
THEOREM HeapTenuredStay == HeapSpec => TenuredStay
<1>1. HeapInv /\ [HeapNext]_heapVars
        => [\A id \in LiveIds : id < tenure_count => cells'[id] = cells[id]]_heapVars
  <2> SUFFICES ASSUME HeapInv, HeapNext, NEW id \in LiveIds, id < tenure_count
               PROVE  cells'[id] = cells[id]
    OBVIOUS
  <2>1. ASSUME NEW object \in Objects, heap_store(object)
        PROVE  cells'[id] = cells[id]
    BY <2>1, StoreSparesLive
  <2>2. ASSUME NEW erased \in CellIds, heap_erase(erased)
        PROVE  cells'[id] = cells[id]
    <3>1. /\ cells \in [CellIds -> Objects \cup {NullCell}]
          /\ id \in Int /\ tenure_count \in Int /\ id \in CellIds
      BY CapacityAssumption DEF HeapInv, HeapTypeOK, LiveIds, CellIds
    <3>2. Erasable(erased) => erased # id
      BY <3>1 DEF Erasable, CellIds
    <3> QED BY <2>2, <3>1, <3>2 DEF heap_erase, heapVars
  <2>3. CASE heap_tenure \/ heap_del
    BY <2>3 DEF heap_tenure, heap_del
  <2> QED BY <2>1, <2>2, <2>3 DEF HeapNext
<1> QED BY <1>1, HeapInvariance, PTL DEF HeapSpec, TenuredStay

\* The heap implements the table of handles: a store yields a handle nobody
\* else has, and is refused only when every cell is taken.
THEOREM HeapImplementsTable == HeapSpec => ImplementsTable
<1>1. HeapInit => Table!TableInit
  BY DEF HeapInit, Table!TableInit
<1>2. HeapInv /\ [HeapNext]_heapVars => [Table!TableNext]_(Table!tableVars)
  <2> SUFFICES ASSUME HeapInv, HeapNext
               PROVE  [Table!TableNext]_(Table!tableVars)
    BY DEF heapVars, Table!tableVars
  <2>o. heap_status = "open"
    BY DEF HeapNext
  <2>n. /\ CellCapacity \in Nat /\ CellIds = 0 .. CellCapacity - 1
        /\ next_free_id_pos \in -1 .. CellCapacity - 1
        /\ next_cell_id \in 0 .. CellCapacity
        /\ free_ids \in [CellIds -> CellIds]
    BY CapacityAssumption DEF CellIds, HeapInv, HeapTypeOK
  <2>1. ASSUME NEW object \in Objects, heap_store(object)
        PROVE  Table!TableNext
    <3>1. CASE GeneratedId # DudId
      <4>1. GeneratedId \in CellIds /\ cells[GeneratedId] = NullCell
        BY <2>n, <3>1 DEF GeneratedId, HeapInv, FreeListSound, NoCellLost, FreeIds
      <4>2. Table!Store(object)
        BY <2>1, <3>1, <4>1 DEF heap_store, Table!Store, Table!Taken
      <4> QED BY <2>o, <4>2 DEF Table!TableNext
    <3>2. CASE GeneratedId = DudId
      <4>1. next_free_id_pos = -1 /\ next_cell_id = CellCapacity
        BY <2>n, <3>2 DEF GeneratedId, DudId
      <4>2. \A id \in CellIds : cells[id] # NullCell
        BY <2>n, <4>1 DEF HeapInv, NoCellLost, FreeIds
      <4>3. Table!Refuse
        BY <2>1, <3>2, <4>2 DEF heap_store, Table!Refuse, Table!Taken
      <4> QED BY <2>o, <4>3 DEF Table!TableNext
    <3> QED BY <3>1, <3>2
  <2>2. ASSUME NEW id \in CellIds, heap_erase(id)
        PROVE  [Table!TableNext]_(Table!tableVars)
    <3>1. CASE ~ Erasable(id)
      BY <2>2, <3>1 DEF heap_erase, heapVars, Table!tableVars
    <3>2. CASE Erasable(id) /\ cells[id] \in NoDel \cup {NullCell}
      <4>1. Table!Crash(id)
        BY <2>2, <3>2 DEF heap_erase, Table!Crash, Table!Taken
      <4> QED BY <2>o, <4>1 DEF Table!TableNext
    <3>3. CASE Erasable(id) /\ cells[id] \notin NoDel \cup {NullCell}
      <4>1. Table!Release(id)
        BY <2>2, <3>3 DEF heap_erase, Table!Release, Table!Taken
      <4> QED BY <2>o, <4>1 DEF Table!TableNext
    <3> QED BY <3>1, <3>2, <3>3
  <2>3. CASE heap_tenure
    BY <2>3 DEF heap_tenure, Table!tableVars
  <2>4. CASE heap_del
    <3>1. Table!Close
      BY <2>4 DEF heap_del, Table!Close
    <3> QED BY <2>o, <3>1 DEF Table!TableNext
  <2> QED BY <2>1, <2>2, <2>3, <2>4 DEF HeapNext
<1> QED BY <1>1, <1>2, HeapInvariance, PTL
        DEF HeapSpec, ImplementsTable, Table!TableSpec

(***************************************************************************)
(* GC.                                                                     *)
(***************************************************************************)
\* A write beyond the bit set ends the process with the heap as it was.
Damaged ==
  /\ heap_status' = "crashed"
  /\ UNCHANGED <<cells, free_ids, next_free_id_pos, next_cell_id,
                 tenure_count, cost, last_id>>

\* What the books need of the collector: it resumes an instruction that makes
\* an object of a kind the program has.
GCInv ==
  /\ HeapInv
  /\ scan \in Nat
  /\ phase # "run" => making.kind \in Objects

\* Marking reads the heap only.
LEMMA MarkingSparesHeap ==
  ASSUME NEW ids, BitSet_set_at(ids)
  PROVE  UNCHANGED heapVars \/ Damaged
BY DEF BitSet_set_at, Damaged, heapVars

\* No instruction and no step of a collection touches the heap but through
\* heap_store and heap_erase.
LEMMA StepsUseTheHeap ==
  ASSUME GCInv, [Next]_vars
  PROVE  [HeapNext]_heapVars \/ Damaged
<1>1. CASE Instruction
  <2>0. heap_status = "open" /\ phase = "run"
    BY <1>1 DEF Instruction
  <2>1. CASE put_k \/ load_err_ref \/ pop \/ \E slot \in 1 .. Len(stack) :
                                                 load_local(slot) \/ store_local(slot)
    BY <2>1 DEF put_k, load_err_ref, pop, load_local, store_local, PushValue
  <2>2. CASE native_string
    BY <2>0, <2>2 DEF native_string, HeapNext
  <2>3. CASE raise_err
    BY <2>0, <2>3 DEF raise_err, HeapNext
  <2>4. ASSUME NEW count \in 0 .. MaxItems, mk_closure(count) PROVE HeapNext
    BY <2>0, <2>4 DEF mk_closure, HeapNext
  <2>5. ASSUME NEW kind \in Objects, NEW count, Make(kind, count)
        PROVE  HeapNext \/ UNCHANGED heapVars
    BY <2>0, <2>5 DEF Make, StoreMade, HeapNext
  <2>6. ASSUME NEW count \in 0 .. MaxItems, mk_list(count) PROVE HeapNext \/ UNCHANGED heapVars
    BY <2>5, <2>6 DEF mk_list
  <2>7. CASE mk_dict
    BY <2>5, <2>7 DEF mk_dict
  <2> QED BY <1>1, <2>1, <2>2, <2>3, <2>4, <2>6, <2>7 DEF Instruction
<1>2. CASE Update
  BY <1>2 DEF Update, set_idx
<1>3. CASE Collect
  <2>0. heap_status = "open"
    BY <1>3 DEF Collect
  <2>1. CASE scan_roots \/ mark_done \/ sweep_done
    BY <2>1 DEF scan_roots, mark_done, sweep_done
  <2>2. CASE mark_next
    <3> DEFINE id == AtHead(next_ids)
    <3>1. CASE mark_list(id) \/ mark_string(id) \/ mark_upvals(id)
      BY <3>1, MarkingSparesHeap DEF mark_list, mark_string, mark_upvals
    <3>2. CASE mark_dict(id) \/ mark_nothing
      BY <3>2 DEF mark_dict, mark_nothing
    <3> QED BY <2>2, <3>1, <3>2 DEF mark_next
  <2>3. CASE mark_dict_node
    BY <2>3, MarkingSparesHeap DEF mark_dict_node
  <2>4. CASE sweep
    <3>1. CASE scan \in reach_bits
      BY <2>4, <3>1 DEF sweep
    <3>2. CASE scan \notin reach_bits
      <4>1. heap_erase(scan)
        BY <2>4, <3>2 DEF sweep
      <4>2. CASE scan \in CellIds
        BY <2>0, <4>1, <4>2 DEF HeapNext
      <4>3. CASE scan \notin CellIds
        <5>1. scan \in Nat /\ scan >= CellCapacity /\ next_cell_id \in 0 .. CellCapacity
          BY <4>3, CapacityAssumption DEF GCInv, HeapInv, HeapTypeOK, CellIds
        <5>2. ~ Erasable(scan)
          BY <5>1, CapacityAssumption DEF Erasable
        <5> QED BY <4>1, <5>2 DEF heap_erase
      <4> QED BY <4>2, <4>3
    <3> QED BY <3>1, <3>2
  <2>5. CASE resume
    BY <2>0, <2>5 DEF resume, StoreMade, GCInv, HeapNext
  <2> QED BY <1>3, <2>1, <2>2, <2>3, <2>4, <2>5 DEF Collect
<1>4. CASE UNCHANGED vars
  BY <1>4 DEF vars
<1> QED BY <1>1, <1>2, <1>3, <1>4 DEF Next

LEMMA GCInitInv == Init => GCInv
BY HeapInitInv DEF Init, GCInv

\* The counter and the pending object, through each step.
LEMMA ControlKept ==
  ASSUME GCInv, Next
  PROVE  scan' \in Nat /\ (phase' # "run" => making'.kind \in Objects)
<1>t. scan \in Nat /\ (phase # "run" => making.kind \in Objects)
  BY DEF GCInv
<1>1. CASE Instruction
  <2>0. phase = "run"
    BY <1>1 DEF Instruction
  <2>1. CASE put_k \/ load_err_ref \/ pop \/ native_string \/ raise_err \/
             \E slot \in 1 .. Len(stack) : load_local(slot) \/ store_local(slot)
    BY <1>t, <2>1 DEF put_k, load_err_ref, pop, native_string, raise_err, load_local,
                      store_local, PushValue, gcVars
  <2>2. ASSUME NEW count \in 0 .. MaxItems, mk_closure(count)
        PROVE  UNCHANGED gcVars
    BY <2>2 DEF mk_closure
  <2>3. ASSUME NEW kind \in Objects, NEW count, Make(kind, count)
        PROVE  UNCHANGED scan /\ (phase' # "run" => making'.kind \in Objects)
    BY <2>0, <2>3 DEF Make
  <2>4. ASSUME NEW count \in 0 .. MaxItems, mk_list(count)
        PROVE  UNCHANGED scan /\ (phase' # "run" => making'.kind \in Objects)
    BY <2>3, <2>4 DEF mk_list
  <2>5. CASE mk_dict
    BY <1>t, <2>3, <2>5 DEF mk_dict
  <2> QED BY <1>1, <1>t, <2>1, <2>2, <2>4, <2>5 DEF Instruction, gcVars
<1>2. CASE Update
  BY <1>2, <1>t DEF Update, set_idx, gcVars
<1>3. CASE Collect
  <2>1. CASE scan_roots
    BY <1>t, <2>1 DEF scan_roots
  <2>2. CASE mark_done
    BY <1>t, <2>2 DEF mark_done
  <2>3. CASE mark_next
    BY <1>t, <2>3 DEF mark_next
  <2>4. CASE mark_dict_node
    BY <1>t, <2>4 DEF mark_dict_node
  <2>5. CASE sweep
    BY <1>t, <2>5 DEF sweep
  <2>6. CASE sweep_done
    BY <1>t, <2>6 DEF sweep_done
  <2>7. CASE resume
    BY <1>t, <2>7 DEF resume
  <2> QED BY <1>3, <2>1, <2>2, <2>3, <2>4, <2>5, <2>6, <2>7 DEF Collect
<1> QED BY <1>1, <1>2, <1>3 DEF Next

LEMMA GCStepKeepsInv == GCInv /\ [Next]_vars => GCInv'
<1> SUFFICES ASSUME GCInv, [Next]_vars PROVE GCInv'
  OBVIOUS
<1>1. HeapInv'
  <2>1. CASE [HeapNext]_heapVars
    BY <2>1, HeapStepKeepsInv DEF GCInv
  <2>2. CASE Damaged
    BY <2>2, OtherStepsKeepInv DEF Damaged, GCInv
  <2> QED BY <2>1, <2>2, StepsUseTheHeap
<1>2. CASE Next
  BY <1>1, <1>2, ControlKept DEF GCInv
<1>3. CASE UNCHANGED vars
  BY <1>1, <1>3 DEF GCInv, vars, gcVars
<1> QED BY <1>2, <1>3
-----------------------------------------------------------------------------
\* Whatever program runs, and however its collections end, the heap's books
\* balance: no id is free twice, no cell is lost, cost is exact.
THEOREM CollectorKeepsBooks == Spec => []BooksBalance
<1>1. GCInv => BooksBalance
  BY DEF GCInv, HeapInv, BooksBalance
<1> QED BY <1>1, GCInitInv, GCStepKeepsInv, PTL DEF Spec

\* Whatever program runs, a collection included, no step puts an object into
\* the cell of a live one.
THEOREM CollectorNeverOverwrites == Spec => NoOverwrite
<1>1. GCInv /\ [Next]_vars
        => [\A id \in LiveIds : cells'[id] \in {cells[id], NullCell}]_heapVars
  <2> SUFFICES ASSUME GCInv, [Next]_vars
               PROVE  [\A id \in LiveIds : cells'[id] \in {cells[id], NullCell}]_heapVars
    OBVIOUS
  <2>1. CASE [HeapNext]_heapVars
    BY <2>1, HeapStepSparesLive DEF GCInv
  <2>2. CASE Damaged
    BY <2>2 DEF Damaged, heapVars
  <2> QED BY <2>1, <2>2, StepsUseTheHeap
<1> QED BY <1>1, GCInitInv, GCStepKeepsInv, PTL DEF Spec, NoOverwrite
-----------------------------------------------------------------------------
(***************************************************************************)
(* The rings.                                                              *)
(***************************************************************************)
\* The position after p, in the ring of a given size.
LEMMA AfterIs ==
  ASSUME NEW size \in Nat \ {0}, NEW contents, NEW queue \in Rings(size, contents),
         NEW pos \in 0 .. size - 1
  PROVE  After(queue, pos) = IF pos = size - 1 THEN 0 ELSE pos + 1
<1>1. DOMAIN queue.slots = 0 .. size - 1
  BY DEF Rings
<1>2. Cardinality(DOMAIN queue.slots) = size
  BY <1>1, FS_Interval
<1>3. CASE pos = size - 1
  BY <1>2, <1>3 DEF After
<1>4. CASE pos # size - 1
  BY <1>2, <1>4 DEF After
<1> QED BY <1>3, <1>4

\* What is in a ring: the positions from the head to the tail.  The one at the
\* tail, the item pushed last, is not handed out while it is there.
Occupied(queue) ==
  {pos \in DOMAIN queue.slots :
     IF queue.head <= queue.tail THEN queue.head <= pos /\ pos <= queue.tail
     ELSE queue.head <= pos \/ pos <= queue.tail}

\* A push stores at the position after the tail and leaves the others alone.
LEMMA PushStores ==
  ASSUME NEW size \in Nat \ {0}, NEW contents, NEW queue \in Rings(size, contents),
         NEW item \in contents
  PROVE  /\ Push(queue, item) \in Rings(size, contents)
         /\ Push(queue, item).head = queue.head
         /\ Push(queue, item).tail = IF queue.tail = size - 1 THEN 0 ELSE queue.tail + 1
         /\ Push(queue, item).slots[Push(queue, item).tail] = item
         /\ \A pos \in 0 .. size - 1 : pos # Push(queue, item).tail =>
              Push(queue, item).slots[pos] = queue.slots[pos]
<1> DEFINE tail == After(queue, queue.tail)
           pushed == Push(queue, item)
<1>1. queue.tail \in 0 .. size - 1
  BY DEF Rings
<1>2. tail = IF queue.tail = size - 1 THEN 0 ELSE queue.tail + 1
  BY <1>1, AfterIs
<1>3. tail \in 0 .. size - 1
  BY <1>1, <1>2
<1> HIDE DEF tail
<1>4. pushed = [queue EXCEPT !.tail = tail, !.slots[tail] = item]
  BY DEF Push, tail
<1>5. pushed = [slots |-> [queue.slots EXCEPT ![tail] = item], head |-> queue.head, tail |-> tail]
  BY <1>4 DEF Rings
<1>6. pushed \in Rings(size, contents)
  <2>1. [queue.slots EXCEPT ![tail] = item] \in [0 .. size - 1 -> contents]
    BY <1>3 DEF Rings
  <2> QED BY <1>3, <1>5, <2>1 DEF Rings
<1>7. /\ pushed.slots[tail] = item
      /\ \A pos \in 0 .. size - 1 : pos # tail => pushed.slots[pos] = queue.slots[pos]
  BY <1>3, <1>5 DEF Rings
<1>8. pushed.head = queue.head /\ pushed.tail = tail
  BY <1>5
<1> HIDE DEF pushed
<1> QED BY <1>2, <1>6, <1>7, <1>8 DEF pushed

\* A push that does not fill the ring occupies one position more.
LEMMA PushOccupies ==
  ASSUME NEW size \in Nat \ {0}, NEW contents, NEW queue \in Rings(size, contents),
         NEW item \in contents, ~ Exhausted(Push(queue, item))
  PROVE  LET pushed == Push(queue, item)
         IN  /\ pushed.head = queue.head
             /\ pushed.tail \notin Occupied(queue)
             /\ Occupied(pushed) = Occupied(queue) \cup {pushed.tail}
             /\ pushed.slots[pushed.tail] = item
             /\ \A pos \in Occupied(queue) : pushed.slots[pos] = queue.slots[pos]
<1> DEFINE pushed == Push(queue, item)
<1>1. /\ pushed \in Rings(size, contents)
      /\ pushed.head = queue.head
      /\ pushed.tail = IF queue.tail = size - 1 THEN 0 ELSE queue.tail + 1
      /\ pushed.slots[pushed.tail] = item
      /\ \A pos \in 0 .. size - 1 : pos # pushed.tail => pushed.slots[pos] = queue.slots[pos]
  BY PushStores
<1>2. pushed.head # pushed.tail
  BY DEF Exhausted
<1> HIDE DEF pushed
<1>3. /\ DOMAIN queue.slots = 0 .. size - 1 /\ DOMAIN pushed.slots = 0 .. size - 1
      /\ queue.head \in 0 .. size - 1 /\ queue.tail \in 0 .. size - 1
  BY <1>1 DEF Rings
<1>4. pushed.tail \notin Occupied(queue)
  BY <1>1, <1>2, <1>3 DEF Occupied
<1>5. Occupied(pushed) = Occupied(queue) \cup {pushed.tail}
  BY <1>1, <1>2, <1>3 DEF Occupied
<1>6. \A pos \in Occupied(queue) : pushed.slots[pos] = queue.slots[pos]
  BY <1>1, <1>3, <1>4 DEF Occupied
<1> QED BY <1>1, <1>4, <1>5, <1>6 DEF pushed

\* A pop from a ring that is not exhausted frees the position of the head.
LEMMA PopFrees ==
  ASSUME NEW size \in Nat \ {0}, NEW contents, NEW queue \in Rings(size, contents)
  PROVE  /\ Pop(queue) \in Rings(size, contents)
         /\ Pop(queue).slots = queue.slots
         /\ ~ Exhausted(queue) => /\ queue.head \in Occupied(queue)
                                  /\ Occupied(Pop(queue)) = Occupied(queue) \ {queue.head}
<1> DEFINE popped == Pop(queue)
           head == After(queue, queue.head)
<1>1. queue.head \in 0 .. size - 1 /\ queue.tail \in 0 .. size - 1
  BY DEF Rings
<1>2. head = IF queue.head = size - 1 THEN 0 ELSE queue.head + 1
  BY <1>1, AfterIs
<1> HIDE DEF head
<1>3. popped = [queue EXCEPT !.head = head]
  BY DEF Pop, head
<1>4. /\ popped \in Rings(size, contents) /\ popped.slots = queue.slots
      /\ popped.head = head /\ popped.tail = queue.tail
  BY <1>1, <1>2, <1>3 DEF Rings
<1>5. DOMAIN queue.slots = 0 .. size - 1
  BY DEF Rings
<1> HIDE DEF popped
<1>6. ASSUME ~ Exhausted(queue)
      PROVE  queue.head \in Occupied(queue) /\ Occupied(popped) = Occupied(queue) \ {queue.head}
  BY <1>1, <1>2, <1>4, <1>5, <1>6 DEF Occupied, Exhausted
<1> QED BY <1>4, <1>6 DEF popped

\* An exhausted ring still holds the item pushed last.
LEMMA ExhaustedHoldsLast ==
  ASSUME NEW size \in Nat \ {0}, NEW contents, NEW queue \in Rings(size, contents),
         Exhausted(queue)
  PROVE  Occupied(queue) = {queue.tail}
BY DEF Occupied, Exhausted, Rings

\* The loop that pushes the objects among some values: what it has done after
\* each turn.
LEMMA PushesTurns ==
  ASSUME NEW size \in Nat \ {0}, NEW contents, NEW queue \in Rings(size, contents),
         NEW S, NEW values \in Seq(S), ObjectsIn(values) \subseteq contents
  PROVE  LET ring == Pushes(queue, values)
         IN  /\ ring \in [0 .. Len(values) -> Rings(size, contents)]
             /\ ring[0] = queue
             /\ \A n \in 1 .. Len(values) :
                  ring[n] = IF IsObject(values[n]) THEN Push(ring[n - 1], values[n])
                            ELSE ring[n - 1]
<1> DEFINE T == Rings(size, contents)
           Turn(q, n) == IF IsObject(values[n]) THEN Push(q, values[n]) ELSE q
           next == [n \in 1 .. Len(values) |-> [q \in T |-> Turn(q, n)]]
<1>1. Len(values) \in Nat
  OBVIOUS
<1>2. ASSUME NEW n \in 1 .. Len(values), NEW q \in T
      PROVE  Turn(q, n) \in T
  <2>1. CASE IsObject(values[n])
    <3>1. values[n] \in contents
      BY <2>1 DEF ObjectsIn, ToSet
    <3>2. Push(q, values[n]) \in T
      BY <3>1, PushStores
    <3> QED BY <2>1, <3>2
  <2>2. CASE ~ IsObject(values[n])
    BY <2>2
  <2> QED BY <2>1, <2>2
<1> HIDE DEF T, Turn
<1>3. next \in [1 .. Len(values) -> [T -> T]]
  BY <1>2
<1>4. queue \in T
  BY DEF T
<1> HIDE DEF next
<1>5. PICK f \in [0 .. Len(values) -> T] : Follows(f, Len(values), queue, next)
  BY <1>1, <1>3, <1>4, RecursiveFunction
<1>6. ASSUME NEW n \in 1 .. Len(values)
      PROVE  f[n] = Turn(f[n - 1], n)
  <2>1. n - 1 \in 0 .. Len(values)
    BY <1>1
  <2>2. f[n - 1] \in T
    BY <2>1, <1>5
  <2>3. f[n] = next[n][f[n - 1]]
    BY <1>5 DEF Follows
  <2> QED BY <2>2, <2>3 DEF next
<1> DEFINE IsRing(r) == r = [n \in 0 .. Len(values) |->
                               IF n = 0 THEN queue ELSE Turn(r[n - 1], n)]
<1>7. IsRing(f)
  <2>1. f[0] = queue
    BY <1>5 DEF Follows
  <2>2. \A n \in 0 .. Len(values) : f[n] = IF n = 0 THEN queue ELSE Turn(f[n - 1], n)
    BY <1>1, <1>6, <2>1
  <2> QED BY <2>2, <1>5
<1>8. Pushes(queue, values) = CHOOSE r : IsRing(r)
  BY DEF Pushes, Turn
<1> DEFINE ring == Pushes(queue, values)
<1>9. IsRing(ring)
  <2> HIDE DEF IsRing
  <2> QED BY <1>7, <1>8
<1> HIDE DEF ring
<1>10. ring[0] = queue /\ \A n \in 1 .. Len(values) : ring[n] = Turn(ring[n - 1], n)
  BY <1>1, <1>9
<1>11. ring \in [0 .. Len(values) -> T]
  <2> DEFINE Good == {n \in 0 .. Len(values) : ring[n] \in T}
  <2>1. 0 \in Good
    BY <1>1, <1>4, <1>10
  <2>2. ASSUME NEW n \in 1 .. Len(values), n - 1 \in Good PROVE n \in Good
    BY <1>1, <1>2, <1>10, <2>2
  <2>3. 0 .. Len(values) \subseteq Good
    <3> HIDE DEF Good
    <3> QED BY <1>1, <2>1, <2>2, UpTo
  <2>4. \A n \in 0 .. Len(values) : ring[n] \in T
    BY <2>3
  <2>5. ring = [n \in 0 .. Len(values) |-> ring[n]]
    BY <1>9
  <2> HIDE DEF Good
  <2> QED BY <2>4, <2>5
<1> QED BY <1>10, <1>11 DEF ring, T, Turn

LEMMA PushAllTyped ==
  ASSUME NEW size \in Nat \ {0}, NEW contents, NEW queue \in Rings(size, contents),
         NEW S, NEW values \in Seq(S), ObjectsIn(values) \subseteq contents
  PROVE  PushAll(queue, values) \in Rings(size, contents)
<1>1. Len(values) \in 0 .. Len(values)
  OBVIOUS
<1> QED BY <1>1, PushesTurns DEF PushAll

\* As long as no push fills the ring, the positions that were occupied keep
\* their ids, and the new ones hold the objects among the values, each of them.
Extends(all, queue, ids) ==
  /\ all.head = queue.head
  /\ Occupied(queue) \subseteq Occupied(all)
  /\ \A pos \in Occupied(queue) : all.slots[pos] = queue.slots[pos]
  /\ \A pos \in Occupied(all) \ Occupied(queue) : all.slots[pos] \in ids
  /\ \A id \in ids : \E pos \in Occupied(all) \ Occupied(queue) : all.slots[pos] = id

LEMMA ExtendsByOne ==
  ASSUME NEW size \in Nat \ {0}, NEW contents, NEW queue \in Rings(size, contents),
         NEW ring \in Rings(size, contents), NEW ids, Extends(ring, queue, ids),
         NEW item \in contents, ~ Exhausted(Push(ring, item))
  PROVE  Extends(Push(ring, item), queue, ids \cup {item})
<1> DEFINE more == Push(ring, item)
<1>1. /\ more.head = ring.head
      /\ more.tail \notin Occupied(ring)
      /\ Occupied(more) = Occupied(ring) \cup {more.tail}
      /\ more.slots[more.tail] = item
      /\ \A pos \in Occupied(ring) : more.slots[pos] = ring.slots[pos]
  BY PushOccupies
<1> HIDE DEF more
<1>3. more.tail \notin Occupied(queue)
  BY <1>1 DEF Extends
<1>4. \A pos \in Occupied(more) \ Occupied(queue) : more.slots[pos] \in ids \cup {item}
  BY <1>1 DEF Extends
<1>5. \A id \in ids \cup {item} :
        \E pos \in Occupied(more) \ Occupied(queue) : more.slots[pos] = id
  <2>1. ASSUME NEW id \in ids
        PROVE  \E pos \in Occupied(more) \ Occupied(queue) : more.slots[pos] = id
    <3>1. PICK pos \in Occupied(ring) \ Occupied(queue) : ring.slots[pos] = id
      BY <2>1 DEF Extends
    <3> QED BY <1>1, <3>1
  <2> QED BY <1>1, <1>3, <2>1
<1> QED BY <1>1, <1>4, <1>5 DEF Extends, more

LEMMA PushAllOccupies ==
  ASSUME NEW size \in Nat \ {0}, NEW contents, NEW queue \in Rings(size, contents),
         NEW S, NEW values \in Seq(S), ObjectsIn(values) \subseteq contents,
         ~ Overflows(queue, values)
  PROVE  Extends(PushAll(queue, values), queue, ObjectsIn(values))
<1> DEFINE ring == Pushes(queue, values)
           Before(n) == {values[m] : m \in {m \in 1 .. n : IsObject(values[m])}}
           Good == {n \in 0 .. Len(values) : Extends(ring[n], queue, Before(n))}
<1>1. /\ Len(values) \in Nat
      /\ ring \in [0 .. Len(values) -> Rings(size, contents)]
      /\ ring[0] = queue
      /\ \A n \in 1 .. Len(values) :
           ring[n] = IF IsObject(values[n]) THEN Push(ring[n - 1], values[n])
                     ELSE ring[n - 1]
  BY PushesTurns
<1>2. \A n \in 1 .. Len(values) : IsObject(values[n]) => ~ Exhausted(ring[n])
  BY DEF Overflows
<1> HIDE DEF ring
<1>3. 0 \in Good
  <2>1. Before(0) = {}
    OBVIOUS
  <2>2. Extends(queue, queue, {})
    BY DEF Extends
  <2>3. 0 \in 0 .. Len(values)
    BY <1>1
  <2> HIDE DEF Before
  <2> QED BY <1>1, <2>1, <2>2, <2>3
<1>4. ASSUME NEW n \in 1 .. Len(values), n - 1 \in Good
      PROVE  n \in Good
  <2>0. n \in 0 .. Len(values) /\ n - 1 \in 0 .. Len(values) /\ n \in Nat
    BY <1>1
  <2>1. CASE IsObject(values[n])
    <3>1. ring[n] = Push(ring[n - 1], values[n]) /\ ~ Exhausted(ring[n])
      BY <1>1, <1>2, <2>1
    <3>2. values[n] \in contents
      BY <2>1 DEF ObjectsIn, ToSet
    <3>3. Before(n) = Before(n - 1) \cup {values[n]}
      <4>1. \A m \in 1 .. n : m = n \/ m \in 1 .. n - 1
        BY <2>0
      <4>2. n \in 1 .. n /\ \A m \in 1 .. n - 1 : m \in 1 .. n
        BY <2>0
      <4> QED BY <2>1, <4>1, <4>2
    <3>4. Extends(ring[n - 1], queue, Before(n - 1))
      BY <1>4
    <3>5. ring[n - 1] \in Rings(size, contents)
      BY <1>1, <2>0
    <3> HIDE DEF Before
    <3>6. Extends(ring[n], queue, Before(n))
      BY <3>1, <3>2, <3>3, <3>4, <3>5, ExtendsByOne
    <3> QED BY <2>0, <3>6
  <2>2. CASE ~ IsObject(values[n])
    <3>1. ring[n] = ring[n - 1]
      BY <1>1, <2>2
    <3>2. Before(n) = Before(n - 1)
      <4>1. \A m \in 1 .. n : m = n \/ m \in 1 .. n - 1
        BY <2>0
      <4>2. \A m \in 1 .. n - 1 : m \in 1 .. n
        BY <2>0
      <4> QED BY <2>2, <4>1, <4>2
    <3> HIDE DEF Before
    <3> QED BY <2>0, <1>4, <3>1, <3>2
  <2> QED BY <2>1, <2>2
<1>5. 0 .. Len(values) \subseteq Good
  <2> HIDE DEF Good
  <2> QED BY <1>1, <1>3, <1>4, UpTo
<1>6. Before(Len(values)) = ObjectsIn(values)
  <2>1. DOMAIN values = 1 .. Len(values)
    OBVIOUS
  <2> QED BY <2>1 DEF ObjectsIn, ToSet
<1>7. Len(values) \in 0 .. Len(values)
  BY <1>1
<1> HIDE DEF Before
<1> QED BY <1>5, <1>6, <1>7 DEF PushAll, ring
-----------------------------------------------------------------------------
(***************************************************************************)
(* Types.                                                                  *)
(***************************************************************************)
\* What a dict's values need of the bound on items: a node of its tree has a
\* number up to MaxItems.
DictsFit == \A id \in CellIds : cells[id] = "dict" => Len(items[id]) <= MaxItems

ProgramTypes ==
  /\ items \in [CellIds -> Seq(Values)]
  /\ stack \in Seq(Values) /\ stack # <<>>
  /\ error_oid \in CellIds \cup {DudId}
  /\ DictsFit

\* The search of a dict's tree ends before it marks a value: the first pop
\* hands out the blank, and the root is what was pushed last.
DictNodesLost ==
  LET queue == dict_nodes.queue
  IN  Exhausted(queue) \/ (AtHead(queue) = 0 /\ After(queue, queue.head) = queue.tail)

CollectorTypes ==
  /\ phase \in {"run", "roots", "mark", "dict", "sweep", "make"}
  /\ making \in [kind : {"list", "dict"}, count : 0 .. Sp]
  /\ phase = "run" => making = NoObject
  /\ making.kind = "dict" => making.count = 0
  /\ next_ids \in Rings(HeapPopMax, CellIds \cup {DudId})
  /\ reach_bits \subseteq CellIds \cap 0 .. BitsLen - 1
  /\ dict_nodes \in [id : CellIds \cup {DudId}, queue : Rings(CellCapacity, 0 .. MaxItems)]
  /\ overflowed \in BOOLEAN
  /\ phase = "dict" => /\ dict_nodes.id \in CellIds /\ cells[dict_nodes.id] = "dict"
                       /\ DictNodesLost

TypeInv == GCInv /\ ProgramTypes /\ CollectorTypes

LEMMA NotEmpty ==
  ASSUME NEW S, NEW seq \in Seq(S)
  PROVE  seq # <<>> <=> Len(seq) >= 1
<1>1. Len(<<>>) = 0
  OBVIOUS
<1> QED BY <1>1, EmptySeq

\* The first and the last values of a sequence.
LEMMA FirstValues ==
  ASSUME NEW S, NEW seq \in Seq(S), NEW n \in 0 .. Len(seq)
  PROVE  /\ SubSeq(seq, 1, Len(seq) - n) \in Seq(S)
         /\ Len(SubSeq(seq, 1, Len(seq) - n)) = Len(seq) - n
<1> DEFINE m == Len(seq) - n
<1>1. Len(seq) \in Nat /\ m \in 0 .. Len(seq) /\ \A i \in 1 .. m : seq[i] \in S
  BY LenProperties
<1> HIDE DEF m
<1>2. SubSeq(seq, 1, m) \in Seq(S) /\ Len(SubSeq(seq, 1, m)) = IF 1 <= m THEN m - 1 + 1 ELSE 0
  BY <1>1, SubSeqProperties
<1>3. Len(SubSeq(seq, 1, m)) = m
  BY <1>1, <1>2
<1> QED BY <1>2, <1>3 DEF m

LEMMA LastValues ==
  ASSUME NEW S, NEW seq \in Seq(S), NEW n \in 0 .. Len(seq)
  PROVE  /\ SubSeq(seq, Len(seq) - n + 1, Len(seq)) \in Seq(S)
         /\ Len(SubSeq(seq, Len(seq) - n + 1, Len(seq))) = n
<1> DEFINE m == Len(seq) - n + 1
           k == Len(seq)
<1>1. /\ k \in Nat /\ m \in Int /\ n \in Nat /\ m >= 1
      /\ \A i \in m .. k : seq[i] \in S
      /\ n = k - m + 1
  BY LenProperties
<1> HIDE DEF m, k
<1>2. SubSeq(seq, m, k) \in Seq(S) /\ Len(SubSeq(seq, m, k)) = IF m <= k THEN k - m + 1 ELSE 0
  BY <1>1, SubSeqProperties
<1>3. Len(SubSeq(seq, m, k)) = n
  BY <1>1, <1>2
<1> QED BY <1>2, <1>3 DEF m, k

\* A stored object gets contents that fit its cell.
LEMMA FillTyped ==
  ASSUME GCInv, GCInv', ProgramTypes, NEW kind, heap_store(kind),
         NEW contents \in Seq(Values), kind = "dict" => Len(contents) <= MaxItems,
         Fill(contents)
  PROVE  items' \in [CellIds -> Seq(Values)] /\ DictsFit' /\ last_id' \in Values
<1>1. last_id' \in CellIds \cup {DudId} /\ last_id' = GeneratedId
  BY DEF GCInv, HeapInv, HeapTypeOK, heap_store
<1>2. items \in [CellIds -> Seq(Values)] /\ DictsFit /\ cells \in [CellIds -> Objects \cup {NullCell}]
  BY DEF GCInv, HeapInv, HeapTypeOK, ProgramTypes
<1>3. CASE last_id' = DudId
  <2>1. items' = items /\ cells' = cells
    BY <1>1, <1>3 DEF Fill, heap_store
  <2> QED BY <1>1, <1>2, <2>1 DEF DictsFit, Values
<1>4. CASE last_id' # DudId
  <2>1. /\ last_id' \in CellIds
        /\ items' = [items EXCEPT ![last_id'] = contents]
        /\ cells' = [cells EXCEPT ![last_id'] = kind]
    BY <1>1, <1>4 DEF Fill, heap_store
  <2>2. items' \in [CellIds -> Seq(Values)]
    BY <1>2, <2>1
  <2>3. ASSUME NEW id \in CellIds, cells'[id] = "dict" PROVE Len(items'[id]) <= MaxItems
    <3>1. CASE id = last_id'
      BY <1>2, <2>1, <2>3, <3>1
    <3>2. CASE id # last_id'
      BY <1>2, <2>1, <2>3, <3>2 DEF DictsFit
    <3> QED BY <3>1, <3>2
  <2> QED BY <2>1, <2>2, <2>3 DEF DictsFit, Values
<1> QED BY <1>3, <1>4

\* What an instruction may do to the collector: nothing, or begin a collection.
LEMMA CollectorRests ==
  ASSUME TypeInv, phase = "run", UNCHANGED gcVars, stack' \in Seq(Values), stack' # <<>>
  PROVE  CollectorTypes'
<1>1. making = NoObject /\ making' = making
  BY DEF TypeInv, CollectorTypes, gcVars
<1>2. Len(stack') \in Nat /\ Len(stack') >= 1
  BY NotEmpty, LenProperties
<1>3. making' \in [kind : {"list", "dict"}, count : 0 .. Sp']
  BY <1>1, <1>2 DEF NoObject, Sp
<1> QED BY <1>1, <1>3 DEF TypeInv, CollectorTypes, gcVars, NoObject, DictNodesLost

LEMMA PushTyped ==
  ASSUME TypeInv, phase = "run", NEW value \in Values, PushValue(value)
  PROVE  ProgramTypes' /\ CollectorTypes'
<1>1. stack' \in Seq(Values) /\ stack' # <<>>
  BY AppendProperties DEF PushValue, TypeInv, ProgramTypes
<1>2. UNCHANGED <<cells, items, error_oid, gcVars>>
  BY DEF PushValue, heapVars
<1>3. CollectorTypes'
  BY <1>1, <1>2, CollectorRests
<1> QED BY <1>1, <1>2, <1>3 DEF TypeInv, ProgramTypes, DictsFit

\* The end of MK_LIST and MK_DICT.
LEMMA StoreMadeTyped ==
  ASSUME GCInv, GCInv', ProgramTypes, NEW kind, NEW count \in 0 .. Sp,
         StoreMade(kind, count), kind = "dict" => count = 0
  PROVE  ProgramTypes'
<1> DEFINE made == SubSeq(stack, Len(stack) - count + 1, Len(stack))
           below == SubSeq(stack, 1, Len(stack) - count)
<1>1. /\ heap_store(kind) /\ Fill(made)
      /\ stack' = Append(below, last_id') /\ UNCHANGED error_oid
  BY DEF StoreMade, PoppedBy
<1>2. stack \in Seq(Values) /\ count \in 0 .. Len(stack)
  BY LenProperties DEF ProgramTypes, Sp
<1>3. made \in Seq(Values) /\ Len(made) = count /\ below \in Seq(Values)
  BY <1>2, FirstValues, LastValues
<1>4. kind = "dict" => Len(made) <= MaxItems
  BY <1>3, BoundsAssumption
<1> HIDE DEF made, below
<1>5. items' \in [CellIds -> Seq(Values)] /\ DictsFit' /\ last_id' \in Values
  BY <1>1, <1>3, <1>4, FillTyped
<1>6. stack' \in Seq(Values) /\ stack' # <<>>
  BY <1>1, <1>3, <1>5, AppendProperties
<1> QED BY <1>1, <1>5, <1>6 DEF ProgramTypes

LEMMA InstructionTyped ==
  ASSUME TypeInv, GCInv', Instruction
  PROVE  ProgramTypes' /\ CollectorTypes'
<1>0. /\ phase = "run" /\ GCInv /\ ProgramTypes
      /\ stack \in Seq(Values) /\ Len(stack) \in Nat /\ Len(stack) >= 1
  <2>1. phase = "run" /\ GCInv /\ ProgramTypes
    BY DEF Instruction, TypeInv
  <2>2. stack \in Seq(Values) /\ stack # <<>>
    BY DEF TypeInv, ProgramTypes
  <2> QED BY <2>1, <2>2, NotEmpty
<1>1. CASE put_k \/ load_err_ref \/ \E slot \in 1 .. Len(stack) : load_local(slot)
  <2>1. \E value \in Values : PushValue(value)
    BY <1>0, <1>1 DEF put_k, load_err_ref, load_local, Values, ProgramTypes
  <2> QED BY <1>0, <2>1, PushTyped
<1>2. CASE pop
  <2>1. stack' \in Seq(Values) /\ stack' # <<>>
    <3>1. Len(stack) > 1 /\ stack' = SubSeq(stack, 1, Len(stack) - 1) /\ 1 \in 0 .. Len(stack)
      BY <1>0, <1>2 DEF pop, PoppedBy, Sp
    <3>2. stack' \in Seq(Values) /\ Len(stack') = Len(stack) - 1
      BY <1>0, <3>1, FirstValues
    <3>3. Len(stack') >= 1
      BY <1>0, <3>1, <3>2
    <3> QED BY <3>2, <3>3, NotEmpty
  <2>2. UNCHANGED <<cells, items, error_oid, gcVars>>
    BY <1>2 DEF pop, heapVars
  <2>3. CollectorTypes'
    BY <1>0, <2>1, <2>2, CollectorRests
  <2> QED BY <1>0, <2>1, <2>2, <2>3 DEF ProgramTypes, DictsFit
<1>3. ASSUME NEW slot \in 1 .. Len(stack), store_local(slot)
      PROVE  ProgramTypes' /\ CollectorTypes'
  <2>1. stack' \in Seq(Values) /\ stack' # <<>>
    <3>1. /\ Len(stack) > 1 /\ 1 \in 0 .. Len(stack) /\ slot \in 1 .. Len(stack) - 1
          /\ stack' = [SubSeq(stack, 1, Len(stack) - 1) EXCEPT ![slot] = Top]
      BY <1>0, <1>3 DEF store_local, PoppedBy
    <3>2. /\ SubSeq(stack, 1, Len(stack) - 1) \in Seq(Values)
          /\ Len(SubSeq(stack, 1, Len(stack) - 1)) = Len(stack) - 1
      BY <1>0, <3>1, FirstValues
    <3>3. Top \in Values
      BY <1>0 DEF Top
    <3>4. stack' \in Seq(Values) /\ Len(stack') = Len(stack) - 1
      BY <3>1, <3>2, <3>3
    <3>5. Len(stack') >= 1
      BY <1>0, <3>1, <3>4
    <3> QED BY <3>4, <3>5, NotEmpty
  <2>2. UNCHANGED <<cells, items, error_oid, gcVars>>
    BY <1>3 DEF store_local, heapVars
  <2>3. CollectorTypes'
    BY <1>0, <2>1, <2>2, CollectorRests
  <2> QED BY <1>0, <2>1, <2>2, <2>3 DEF ProgramTypes, DictsFit
<1>4. CASE native_string
  <2>1. /\ heap_store("string") /\ Fill(<<>>) /\ <<>> \in Seq(Values)
        /\ "string" # "dict"
    BY <1>4 DEF native_string
  <2>2. items' \in [CellIds -> Seq(Values)] /\ DictsFit' /\ last_id' \in Values
    BY <1>0, <2>1, FillTyped
  <2>3. stack' = Append(stack, last_id') /\ UNCHANGED <<error_oid, gcVars>>
    BY <1>4 DEF native_string
  <2>4. stack' \in Seq(Values) /\ stack' # <<>>
    BY <1>0, <2>2, <2>3, AppendProperties
  <2>5. CollectorTypes'
    BY <1>0, <2>3, <2>4, CollectorRests
  <2> QED BY <1>0, <2>2, <2>3, <2>4, <2>5 DEF ProgramTypes
<1>5. ASSUME NEW count \in 0 .. MaxItems, mk_closure(count)
      PROVE  ProgramTypes' /\ CollectorTypes'
  <2> DEFINE captures == SubSeq(stack, Len(stack) - count + 1, Len(stack))
             below == SubSeq(stack, 1, Len(stack) - (count + 1))
  <2>1. /\ heap_store("closure") /\ Fill(captures)
        /\ stack' = Append(below, last_id') /\ UNCHANGED <<error_oid, gcVars>>
        /\ count \in Nat /\ Len(stack) - 1 > count
    BY <1>5, BoundsAssumption DEF mk_closure, PoppedBy, Sp
  <2>2. captures \in Seq(Values)
    <3>1. count \in 0 .. Len(stack)
      BY <1>0, <2>1
    <3> QED BY <1>0, <3>1, LastValues
  <2>3. below \in Seq(Values)
    <3>1. PICK n \in 0 .. Len(stack) : n = count + 1
      BY <1>0, <2>1
    <3> QED BY <1>0, <3>1, FirstValues
  <2> HIDE DEF captures, below
  <2>4. items' \in [CellIds -> Seq(Values)] /\ DictsFit' /\ last_id' \in Values
    BY <1>0, <2>1, <2>2, FillTyped
  <2>5. stack' \in Seq(Values) /\ stack' # <<>>
    BY <2>1, <2>3, <2>4, AppendProperties
  <2>6. CollectorTypes'
    BY <1>0, <2>1, <2>5, CollectorRests
  <2> QED BY <1>0, <2>1, <2>4, <2>5, <2>6 DEF ProgramTypes
<1>6. CASE raise_err
  <2>0. <<Top>> \in Seq(Values)
    <3>1. Top \in Values
      BY <1>0 DEF Top
    <3> QED BY <3>1
  <2>1. /\ heap_store("err") /\ "err" # "dict" /\ Fill(<<Top>>)
        /\ error_oid' = last_id' /\ UNCHANGED gcVars
        /\ Len(stack) > 1 /\ stack' = SubSeq(stack, 1, Len(stack) - 1) /\ 1 \in 0 .. Len(stack)
    BY <1>0, <1>6 DEF raise_err, Sp, Top, PoppedBy
  <2>2. items' \in [CellIds -> Seq(Values)] /\ DictsFit'
    <3>1. PICK data \in Seq(Values) : data = <<Top>>
      BY <2>0
    <3>2. heap_store("err") /\ Fill(data) /\ "err" # "dict"
      BY <2>1, <3>1
    <3> QED BY <1>0, <3>2, FillTyped
  <2>3. stack' \in Seq(Values) /\ Len(stack') = Len(stack) - 1
    BY <1>0, <2>1, FirstValues
  <2>4. stack' # <<>>
    <3>1. Len(stack') >= 1
      BY <1>0, <2>1, <2>3
    <3> QED BY <2>3, <3>1, NotEmpty
  <2>5. error_oid' \in CellIds \cup {DudId}
    BY <2>1 DEF GCInv, HeapInv, HeapTypeOK
  <2>6. CollectorTypes'
    BY <1>0, <2>1, <2>3, <2>4, CollectorRests
  <2> QED BY <1>0, <2>2, <2>3, <2>4, <2>5, <2>6 DEF ProgramTypes
<1>7. ASSUME NEW kind \in {"list", "dict"}, NEW count \in 0 .. Sp, Make(kind, count),
             kind = "dict" => count = 0
      PROVE  ProgramTypes' /\ CollectorTypes'
  <2>1. CASE heap_is_ripe
    <3>1. /\ UNCHANGED <<cells, items, stack, error_oid, scan, next_ids, reach_bits,
                         dict_nodes, overflowed>>
          /\ phase' = "roots" /\ making' = [kind |-> kind, count |-> count]
      BY <1>7, <2>1 DEF Make, heapVars, vmVars
    <3>2. CollectorTypes'
      BY <1>0, <1>7, <3>1 DEF TypeInv, CollectorTypes, Sp
    <3> QED BY <1>0, <3>1, <3>2 DEF ProgramTypes, DictsFit
  <2>2. CASE ~ heap_is_ripe
    <3>1. StoreMade(kind, count) /\ UNCHANGED gcVars
      BY <1>7, <2>2 DEF Make, StoreMade, gcVars
    <3>2. ProgramTypes'
      BY <1>0, <1>7, <3>1, StoreMadeTyped
    <3>3. CollectorTypes'
      BY <1>0, <3>1, <3>2, CollectorRests DEF ProgramTypes
    <3> QED BY <3>2, <3>3
  <2> QED BY <2>1, <2>2
<1>8. ASSUME NEW count \in 0 .. MaxItems, mk_list(count)
      PROVE  ProgramTypes' /\ CollectorTypes'
  <2>1. count \in 0 .. Sp /\ Make("list", count) /\ "list" # "dict"
    BY <1>0, <1>8, BoundsAssumption DEF mk_list, Sp
  <2> QED BY <2>1, <1>7
<1>9. CASE mk_dict
  <2>1. 0 \in 0 .. Sp /\ Make("dict", 0)
    BY <1>0, <1>9 DEF mk_dict, Sp
  <2> QED BY <2>1, <1>7
<1> QED BY <1>1, <1>2, <1>3, <1>4, <1>5, <1>6, <1>8, <1>9 DEF Instruction

\* An object that heap_get finds is in the cell of that id.
LEMMA GetFinds ==
  ASSUME GCInv, NEW id, id \in CellIds \cup {DudId}, heap_get(id) # NullCell
  PROVE  id \in CellIds /\ cells[id] = heap_get(id)
BY DEF heap_get, DudId

LEMMA UpdateTyped ==
  ASSUME TypeInv, Update
  PROVE  ProgramTypes' /\ CollectorTypes'
<1>1. PICK n \in 1 .. MaxItems : set_idx(n)
  BY DEF Update
<1> DEFINE id == stack[Len(stack) - 2]
           old == items[id]
           new == IF n > Len(old) THEN Append(old, Top) ELSE [old EXCEPT ![n] = Top]
<1>2. /\ phase = "run" /\ GCInv /\ ProgramTypes
      /\ stack \in Seq(Values) /\ Len(stack) \in Nat /\ Len(stack) > 3
      /\ n \in Nat /\ n <= MaxItems /\ n >= 1 /\ n <= Len(old) + 1
      /\ heap_get(id) \in {"list", "dict"}
      /\ stack' = SubSeq(stack, 1, Len(stack) - 2)
      /\ UNCHANGED <<heapVars, error_oid, gcVars>>
  BY <1>1, LenProperties, BoundsAssumption DEF Update, set_idx, TypeInv, ProgramTypes, Sp, PoppedBy
<1>u. items' = [items EXCEPT ![id] = new]
  BY <1>1 DEF set_idx
<1>3. Top \in Values /\ id \in Values
  BY <1>2 DEF Top
<1>4. id \in CellIds
  <2>1. CASE id \in CellIds \cup {DudId}
    BY <1>2, <2>1, GetFinds, DeletionAssumption
  <2>2. CASE id = Imm
    BY <1>2, <2>2, DeletionAssumption DEF heap_get, Imm
  <2> QED BY <1>3, <2>1, <2>2 DEF Values
<1>5. old \in Seq(Values)
  BY <1>2, <1>4 DEF ProgramTypes
<1>6. new \in Seq(Values) /\ (Len(old) <= MaxItems => Len(new) <= MaxItems)
  <2>1. CASE n > Len(old)
    BY <1>2, <1>3, <1>5, <2>1, AppendProperties
  <2>2. CASE n <= Len(old)
    BY <1>2, <1>3, <1>5, <2>2
  <2> QED BY <1>2, <1>5, <2>1, <2>2
<1> HIDE DEF id, new
<1>7. items' \in [CellIds -> Seq(Values)]
  BY <1>2, <1>u, <1>4, <1>6 DEF ProgramTypes
<1>8. DictsFit'
  <2>1. items \in [CellIds -> Seq(Values)] /\ DictsFit
    BY <1>2 DEF ProgramTypes
  <2>2. ASSUME NEW other \in CellIds, cells[other] = "dict"
        PROVE  Len(items'[other]) <= MaxItems
    <3>1. CASE other = id
      BY <1>2, <1>u, <1>4, <1>6, <2>1, <2>2, <3>1 DEF DictsFit
    <3>2. CASE other # id
      BY <1>2, <1>u, <1>4, <2>1, <2>2, <3>2 DEF DictsFit
    <3> QED BY <3>1, <3>2
  <2> QED BY <1>2, <2>2 DEF DictsFit, heapVars
<1>9. stack' \in Seq(Values) /\ stack' # <<>>
  <2>1. 2 \in 0 .. Len(stack)
    BY <1>2
  <2>2. stack' \in Seq(Values) /\ Len(stack') = Len(stack) - 2
    BY <1>2, <2>1, FirstValues
  <2>3. Len(stack') >= 1
    BY <1>2, <2>2
  <2> QED BY <2>2, <2>3, NotEmpty
<1>10. CollectorTypes'
  BY <1>2, <1>9, CollectorRests
<1> QED BY <1>2, <1>7, <1>8, <1>9, <1>10 DEF ProgramTypes

\* Marking sets bits of ids only.
LEMMA BitsTyped ==
  ASSUME TypeInv, NEW ids \in SUBSET Values, BitSet_set_at(ids)
  PROVE  /\ reach_bits' \subseteq CellIds \cap 0 .. BitsLen - 1
         /\ cells' = cells
<1>1. BitsLen \in Nat
  BY QueueAssumption DEF BitsLen
<1>2. Values \cap 0 .. BitsLen - 1 \subseteq CellIds
  BY <1>1 DEF Values, DudId, Imm
<1> QED BY <1>2 DEF BitSet_set_at, TypeInv, CollectorTypes, heapVars

LEMMA EmptyRingTyped ==
  ASSUME NEW size \in Nat \ {0}, NEW contents, NEW blank \in contents
  PROVE  EmptyRing(size, blank) \in Rings(size, contents)
BY DEF EmptyRing, Rings

\* The ring of a dict's nodes after the push of its root.
LEMMA RootPushed ==
  ASSUME NEW node \in 0 .. MaxItems
  PROVE  LET queue == Push(NoDict.queue, node)
         IN  /\ queue \in Rings(CellCapacity, 0 .. MaxItems)
             /\ Exhausted(queue) \/ (AtHead(queue) = 0 /\ After(queue, queue.head) = queue.tail)
<1> DEFINE nodes == 0 .. MaxItems
           empty == EmptyRing(CellCapacity, 0)
           queue == Push(empty, node)
<1>0. 0 \in nodes /\ node \in nodes /\ CellCapacity \in Nat \ {0}
  BY CapacityAssumption, BoundsAssumption
<1> HIDE DEF nodes
<1>1. empty \in Rings(CellCapacity, nodes)
  BY <1>0, EmptyRingTyped
<1>2. empty.slots = [pos \in 0 .. CellCapacity - 1 |-> 0] /\ empty.head = 0 /\ empty.tail = 0
  BY DEF EmptyRing
<1> HIDE DEF empty
<1>3. /\ queue \in Rings(CellCapacity, nodes)
      /\ queue.head = empty.head
      /\ queue.tail = IF empty.tail = CellCapacity - 1 THEN 0 ELSE empty.tail + 1
      /\ \A pos \in 0 .. CellCapacity - 1 : pos # queue.tail => queue.slots[pos] = empty.slots[pos]
  BY <1>0, <1>1, PushStores
<1> HIDE DEF queue
<1>4. 0 \in 0 .. CellCapacity - 1
  BY <1>0
<1>5. After(queue, 0) = IF 0 = CellCapacity - 1 THEN 0 ELSE 0 + 1
  BY <1>0, <1>3, <1>4, AfterIs
<1>6. Exhausted(queue) \/ (AtHead(queue) = 0 /\ After(queue, queue.head) = queue.tail)
  <2>1. CASE CellCapacity = 1
    BY <1>2, <1>3, <2>1 DEF Exhausted
  <2>2. CASE CellCapacity # 1
    <3>1. queue.tail = 1 /\ queue.head = 0
      BY <1>0, <1>2, <1>3, <2>2
    <3>2. queue.slots[0] = 0
      BY <1>2, <1>3, <1>4, <3>1
    <3> QED BY <1>0, <1>5, <2>2, <3>1, <3>2 DEF AtHead
  <2> QED BY <2>1, <2>2
<1>7. NoDict.queue = empty
  BY DEF NoDict, empty
<1> QED BY <1>3, <1>6, <1>7 DEF queue, nodes

\* While the stack, the contents and the dicts stay, only the collector's own
\* variables are to be typed.
LEMMA ProgramRests ==
  ASSUME ProgramTypes, UNCHANGED <<items, stack, error_oid>>,
         \A id \in CellIds : cells'[id] = "dict" => cells[id] = "dict"
  PROVE  ProgramTypes'
BY DEF ProgramTypes, DictsFit

LEMMA ScanTyped ==
  ASSUME TypeInv, scan_roots
  PROVE  ProgramTypes' /\ CollectorTypes'
<1> DEFINE ids == CellIds \cup {DudId}
<1>0. /\ GCInv /\ ProgramTypes /\ stack \in Seq(Values) /\ stack # <<>>
      /\ next_ids \in Rings(HeapPopMax, ids) /\ HeapPopMax \in Nat \ {0}
  BY QueueAssumption DEF TypeInv, ProgramTypes, CollectorTypes
<1>1. Top \in Values
  BY <1>0, NotEmpty, LenProperties DEF Top
<1>2. IsObject(Top) => Push(next_ids, Top) \in Rings(HeapPopMax, ids)
  <2>1. ASSUME IsObject(Top) PROVE Top \in ids
    BY <1>1, <2>1 DEF Values, IsObject
  <2> QED BY <1>0, <2>1, PushStores
<1>3. next_ids' \in Rings(HeapPopMax, ids) /\ overflowed' \in BOOLEAN
  BY <1>0, <1>2 DEF scan_roots, TypeInv, CollectorTypes
<1>4. UNCHANGED <<cells, items, stack, error_oid, making, reach_bits, dict_nodes>>
      /\ phase \in {"roots"} /\ phase' \in {"roots", "mark"}
  BY DEF scan_roots, heapVars, vmVars
<1>5. ProgramTypes'
  BY <1>0, <1>4, ProgramRests
<1>6. CollectorTypes'
  BY <1>3, <1>4 DEF TypeInv, CollectorTypes, Sp
<1> QED BY <1>5, <1>6

LEMMA DoneTyped ==
  ASSUME TypeInv, mark_done \/ sweep_done
  PROVE  ProgramTypes' /\ CollectorTypes'
<1> DEFINE ids == CellIds \cup {DudId}
<1>1. /\ UNCHANGED <<cells, items, stack, error_oid, making, dict_nodes>>
      /\ phase' \in {"sweep", "make"} /\ phase \in {"mark", "sweep"}
  BY DEF mark_done, sweep_done, heapVars, vmVars
<1>2. EmptyRing(HeapPopMax, DudId) \in Rings(HeapPopMax, ids)
  BY EmptyRingTyped, QueueAssumption
<1>3. /\ reach_bits' \in {reach_bits, {}} /\ overflowed' \in {overflowed, FALSE}
      /\ next_ids' \in {next_ids, EmptyRing(HeapPopMax, DudId)}
  BY DEF mark_done, sweep_done
<1>4. ProgramTypes'
  BY <1>1, ProgramRests DEF TypeInv
<1>5. next_ids' \in Rings(HeapPopMax, ids)
  BY <1>2, <1>3 DEF TypeInv, CollectorTypes
<1>6. CollectorTypes'
  BY <1>1, <1>3, <1>5 DEF TypeInv, CollectorTypes, Sp
<1> QED BY <1>4, <1>6

LEMMA MarkNextTyped ==
  ASSUME TypeInv, mark_next
  PROVE  ProgramTypes' /\ CollectorTypes'
<1> DEFINE ids == CellIds \cup {DudId}
           id == AtHead(next_ids)
<1>0. /\ GCInv /\ ProgramTypes /\ items \in [CellIds -> Seq(Values)]
      /\ next_ids \in Rings(HeapPopMax, ids) /\ HeapPopMax \in Nat \ {0}
      /\ reach_bits \subseteq CellIds \cap 0 .. BitsLen - 1 /\ overflowed \in BOOLEAN
  BY QueueAssumption DEF TypeInv, ProgramTypes, CollectorTypes
<1>1. id \in ids /\ Pop(next_ids) \in Rings(HeapPopMax, ids)
  BY <1>0, PopFrees DEF AtHead, Rings
<1>2. ASSUME id \in CellIds
      PROVE  /\ items[id] \in Seq(Values)
             /\ ObjectsIn(items[id]) \subseteq ids
  <2>1. items[id] \in Seq(Values)
    BY <1>0, <1>2
  <2>2. \A n \in DOMAIN items[id] : items[id][n] \in Values
    BY <2>1, LenProperties
  <2> QED BY <2>1, <2>2 DEF ObjectsIn, ToSet, IsObject, Values
<1>3. heap_get(id) # NullCell => id \in CellIds /\ cells[id] = heap_get(id)
  BY <1>0, <1>1, GetFinds
<1>4. UNCHANGED <<items, stack, error_oid, making>> /\ phase = "mark" /\ phase' \in {"mark", "dict"}
  BY DEF mark_next, vmVars, mark_list, mark_string, mark_dict, mark_upvals, mark_nothing
<1> HIDE DEF id
<1>5. CASE heap_get(id) = "list" /\ mark_list(id)
  <2>1. id \in CellIds
    BY <1>3, <1>5, DeletionAssumption
  <2>2. {id} \in SUBSET Values /\ BitSet_set_at({id})
    BY <1>5, <2>1 DEF mark_list, Values
  <2>3. reach_bits' \subseteq CellIds \cap 0 .. BitsLen - 1 /\ cells' = cells
    BY <2>2, BitsTyped
  <2>4. next_ids' \in Rings(HeapPopMax, ids)
    BY <1>0, <1>1, <1>2, <1>5, <2>1, PushAllTyped DEF mark_list
  <2>5. UNCHANGED <<phase, dict_nodes>> /\ overflowed' \in BOOLEAN
    BY <1>5 DEF mark_list
  <2>6. ProgramTypes'
    BY <1>0, <1>4, <2>3, ProgramRests
  <2> QED BY <1>4, <2>3, <2>4, <2>5, <2>6 DEF TypeInv, CollectorTypes, Sp
<1>6. CASE (heap_get(id) = "string" /\ mark_string(id)) \/ (heap_get(id) = "closure" /\ mark_upvals(id))
  <2>1. id \in CellIds
    BY <1>3, <1>6, DeletionAssumption
  <2>2. PICK marked \in SUBSET Values : BitSet_set_at(marked)
    BY <1>2, <1>6, <2>1 DEF mark_string, mark_upvals, Values
  <2>3. reach_bits' \subseteq CellIds \cap 0 .. BitsLen - 1 /\ cells' = cells
    BY <2>2, BitsTyped
  <2>4. next_ids' = Pop(next_ids) /\ UNCHANGED <<phase, dict_nodes, overflowed>>
    BY <1>6 DEF mark_string, mark_upvals
  <2>5. ProgramTypes'
    BY <1>0, <1>4, <2>3, ProgramRests
  <2> QED BY <1>1, <1>4, <2>3, <2>4, <2>5 DEF TypeInv, CollectorTypes, Sp
<1>7. CASE heap_get(id) = "dict" /\ mark_dict(id)
  <2> DEFINE node == IF items[id] = <<>> THEN 0 ELSE 1
             queue == Push(NoDict.queue, node)
  <2>1. id \in CellIds /\ cells[id] = "dict"
    BY <1>3, <1>7, DeletionAssumption
  <2>2. node \in 0 .. MaxItems
    <3>1. items[id] # <<>> => Len(items[id]) >= 1
      BY <1>2, <2>1, NotEmpty
    <3>2. Len(items[id]) <= MaxItems /\ Len(items[id]) \in Nat
      BY <1>0, <1>2, <2>1, LenProperties DEF ProgramTypes, DictsFit
    <3> QED BY <3>1, <3>2, BoundsAssumption
  <2>3. /\ queue \in Rings(CellCapacity, 0 .. MaxItems)
        /\ Exhausted(queue) \/ (AtHead(queue) = 0 /\ After(queue, queue.head) = queue.tail)
    BY <2>2, RootPushed
  <2>4. /\ dict_nodes' = [id |-> id, queue |-> queue] /\ next_ids' = Pop(next_ids)
        /\ phase' = "dict" /\ UNCHANGED <<cells, reach_bits, overflowed>>
    BY <1>7 DEF mark_dict, heapVars
  <2> HIDE DEF node, queue
  <2>5. ProgramTypes'
    BY <1>0, <1>4, <2>4, ProgramRests
  <2>6. /\ dict_nodes' \in [id : CellIds \cup {DudId}, queue : Rings(CellCapacity, 0 .. MaxItems)]
        /\ dict_nodes'.id \in CellIds /\ cells'[dict_nodes'.id] = "dict" /\ DictNodesLost'
    BY <2>1, <2>3, <2>4 DEF DictNodesLost
  <2> QED BY <1>1, <1>4, <2>4, <2>5, <2>6 DEF TypeInv, CollectorTypes, Sp
<1>8. CASE mark_nothing
  <2>1. next_ids' = Pop(next_ids) /\ UNCHANGED <<cells, phase, reach_bits, dict_nodes, overflowed>>
    BY <1>8 DEF mark_nothing, heapVars
  <2>2. ProgramTypes'
    BY <1>0, <1>4, <2>1, ProgramRests
  <2> QED BY <1>1, <1>4, <2>1, <2>2 DEF TypeInv, CollectorTypes, Sp
<1> QED BY <1>5, <1>6, <1>7, <1>8 DEF mark_next, id

LEMMA MarkDictNodeTyped ==
  ASSUME TypeInv, mark_dict_node
  PROVE  /\ ProgramTypes' /\ CollectorTypes'
         /\ UNCHANGED <<cells, reach_bits, next_ids, overflowed>>
<1> DEFINE queue == dict_nodes.queue
           nodes == 0 .. MaxItems
<1>0. /\ ProgramTypes /\ queue \in Rings(CellCapacity, nodes) /\ CellCapacity \in Nat \ {0}
      /\ Exhausted(queue) \/ (AtHead(queue) = 0 /\ After(queue, queue.head) = queue.tail)
      /\ dict_nodes \in [id : CellIds \cup {DudId}, queue : Rings(CellCapacity, nodes)]
      /\ dict_nodes.id \in CellIds /\ cells[dict_nodes.id] = "dict"
  BY CapacityAssumption DEF TypeInv, CollectorTypes, mark_dict_node, DictNodesLost
<1>1. /\ UNCHANGED <<items, stack, error_oid, making, next_ids, overflowed>> /\ phase = "dict"
      /\ \/ Exhausted(queue) /\ phase' = "mark" /\ dict_nodes' = NoDict
         \/ dict_nodes' = [dict_nodes EXCEPT !.queue = Pop(queue)] /\ phase' = phase /\ ~ Exhausted(queue)
      /\ UNCHANGED <<cells, reach_bits>>
  BY <1>0 DEF mark_dict_node, vmVars, heapVars
<1>2. ProgramTypes'
  BY <1>0, <1>1, ProgramRests
<1> HIDE DEF nodes
<1>3. CASE Exhausted(queue) /\ phase' = "mark" /\ dict_nodes' = NoDict
  <2>1. 0 \in nodes
    BY BoundsAssumption DEF nodes
  <2>2. dict_nodes' \in [id : CellIds \cup {DudId}, queue : Rings(CellCapacity, nodes)]
    BY <1>0, <1>3, <2>1, EmptyRingTyped DEF NoDict
  <2> QED BY <1>1, <1>2, <1>3, <2>2 DEF TypeInv, CollectorTypes, Sp, nodes
<1>4. CASE /\ dict_nodes' = [dict_nodes EXCEPT !.queue = Pop(queue)]
           /\ phase' = phase /\ ~ Exhausted(queue)
  <2>1. Pop(queue) \in Rings(CellCapacity, nodes)
    BY <1>0, PopFrees
  <2>2. Pop(queue).head = queue.tail /\ Pop(queue).tail = queue.tail
    BY <1>0, <1>4 DEF Pop, Rings
  <2>3. dict_nodes'.queue = Pop(queue) /\ dict_nodes'.id = dict_nodes.id
        /\ dict_nodes' \in [id : CellIds \cup {DudId}, queue : Rings(CellCapacity, nodes)]
    BY <1>0, <1>4, <2>1
  <2>4. DictNodesLost'
    BY <2>2, <2>3 DEF DictNodesLost, Exhausted
  <2> QED BY <1>0, <1>1, <1>2, <1>4, <2>3, <2>4 DEF TypeInv, CollectorTypes, Sp, nodes
<1> QED BY <1>1, <1>2, <1>3, <1>4

\* A sweep that erases an object clears its contents; one that does not leaves
\* everything in place.
LEMMA SweepTyped ==
  ASSUME TypeInv, sweep
  PROVE  ProgramTypes' /\ CollectorTypes'
<1>0. /\ ProgramTypes /\ items \in [CellIds -> Seq(Values)]
      /\ cells \in [CellIds -> Objects \cup {NullCell}]
  BY DEF TypeInv, ProgramTypes, GCInv, HeapInv, HeapTypeOK
<1>1. /\ phase = "sweep"
      /\ UNCHANGED <<stack, error_oid, phase, making, next_ids, reach_bits, dict_nodes, overflowed>>
  BY DEF sweep
<1>2. CASE scan \in reach_bits
  <2>1. UNCHANGED <<cells, items>>
    BY <1>2 DEF sweep, heapVars
  <2> QED BY <1>0, <1>1, <2>1, ProgramRests DEF TypeInv, CollectorTypes, Sp
<1>3. CASE scan \notin reach_bits
  <2>1. items' = [id \in CellIds |-> IF id = scan /\ cells'[id] = NullCell THEN <<>> ELSE items[id]]
    BY <1>3 DEF sweep
  <2>2. \A id \in CellIds : cells'[id] \in {cells[id], NullCell}
    <3>1. heap_erase(scan)
      BY <1>3 DEF sweep
    <3> QED BY <1>0, <3>1 DEF heap_erase, heapVars
  <2>3. items' \in [CellIds -> Seq(Values)]
    <3>1. <<>> \in Seq(Values)
      OBVIOUS
    <3> QED BY <1>0, <2>1, <3>1
  <2>4. DictsFit'
    <3>1. ASSUME NEW id \in CellIds, cells'[id] = "dict" PROVE Len(items'[id]) <= MaxItems
      <4>1. cells[id] = "dict" /\ cells'[id] # NullCell
        BY <2>2, <3>1, DeletionAssumption
      <4>2. items'[id] = items[id]
        BY <2>1, <4>1
      <4> QED BY <1>0, <4>1, <4>2 DEF ProgramTypes, DictsFit
    <3> QED BY <3>1 DEF DictsFit
  <2>5. ProgramTypes'
    BY <1>0, <1>1, <2>3, <2>4 DEF ProgramTypes
  <2> QED BY <1>1, <2>5 DEF TypeInv, CollectorTypes, Sp
<1> QED BY <1>2, <1>3

LEMMA ResumeTyped ==
  ASSUME TypeInv, GCInv', resume
  PROVE  ProgramTypes' /\ CollectorTypes'
<1>1. /\ GCInv /\ ProgramTypes /\ making.count \in 0 .. Sp
      /\ making.kind = "dict" => making.count = 0
      /\ StoreMade(making.kind, making.count)
  BY DEF resume, TypeInv, CollectorTypes
<1>2. ProgramTypes'
  BY <1>1, StoreMadeTyped
<1>3. /\ phase' = "run" /\ making' = NoObject
      /\ UNCHANGED <<next_ids, reach_bits, dict_nodes, overflowed>>
  BY DEF resume, StoreMade
<1>4. Len(stack') \in Nat /\ Len(stack') >= 1
  BY <1>2, NotEmpty, LenProperties DEF ProgramTypes
<1>5. CollectorTypes'
  BY <1>3, <1>4 DEF TypeInv, CollectorTypes, NoObject, Sp
<1> QED BY <1>2, <1>5

LEMMA TypesInit == Init => TypeInv
<1> SUFFICES ASSUME Init PROVE TypeInv
  OBVIOUS
<1>1. GCInv
  BY GCInitInv
<1>2. ProgramTypes
  <2>1. items = [id \in CellIds |-> <<>>] /\ <<>> \in Seq(Values)
    BY DEF Init
  <2>2. stack = <<Imm>> /\ Imm \in Values
    BY DEF Init, Values
  <2>3. stack \in Seq(Values) /\ stack # <<>>
    BY <2>2
  <2>4. DictsFit
    BY DeletionAssumption DEF Init, HeapInit, DictsFit
  <2> QED BY <2>1, <2>3, <2>4 DEF Init, ProgramTypes
<1>3. CollectorTypes
  <2>1. Sp = 0
    BY DEF Init, Sp
  <2>2. making \in [kind : {"list", "dict"}, count : 0 .. Sp] /\ making = NoObject
    BY <2>1 DEF Init, NoObject
  <2>3. next_ids \in Rings(HeapPopMax, CellIds \cup {DudId})
    BY EmptyRingTyped, QueueAssumption DEF Init
  <2>4. dict_nodes \in [id : CellIds \cup {DudId}, queue : Rings(CellCapacity, 0 .. MaxItems)]
    <3>1. EmptyRing(CellCapacity, 0) \in Rings(CellCapacity, 0 .. MaxItems)
      BY EmptyRingTyped, CapacityAssumption, BoundsAssumption
    <3> QED BY <3>1 DEF Init, NoDict
  <2>5. phase = "run" /\ reach_bits = {} /\ overflowed = FALSE
    BY DEF Init
  <2>6. making.kind # "dict"
    BY <2>2 DEF NoObject
  <2> QED BY <2>2, <2>3, <2>4, <2>5, <2>6 DEF CollectorTypes
<1> QED BY <1>1, <1>2, <1>3 DEF TypeInv

LEMMA TypesStep == TypeInv /\ [Next]_vars => TypeInv'
<1> SUFFICES ASSUME TypeInv, [Next]_vars PROVE TypeInv'
  OBVIOUS
<1>1. GCInv'
  BY GCStepKeepsInv DEF TypeInv
<1>2. CASE Instruction
  BY <1>1, <1>2, InstructionTyped DEF TypeInv
<1>3. CASE Update
  BY <1>1, <1>3, UpdateTyped DEF TypeInv
<1>4. CASE scan_roots
  BY <1>1, <1>4, ScanTyped DEF TypeInv
<1>5. CASE mark_done \/ sweep_done
  BY <1>1, <1>5, DoneTyped DEF TypeInv
<1>6. CASE mark_next
  BY <1>1, <1>6, MarkNextTyped DEF TypeInv
<1>7. CASE mark_dict_node
  BY <1>1, <1>7, MarkDictNodeTyped DEF TypeInv
<1>8. CASE sweep
  BY <1>1, <1>8, SweepTyped DEF TypeInv
<1>9. CASE resume
  BY <1>1, <1>9, ResumeTyped DEF TypeInv
<1>10. CASE UNCHANGED vars
  BY <1>1, <1>10 DEF TypeInv, ProgramTypes, CollectorTypes, DictsFit, DictNodesLost, Sp,
                     vars, heapVars, vmVars, gcVars
<1> QED BY <1>2, <1>3, <1>4, <1>5, <1>6, <1>7, <1>8, <1>9, <1>10 DEF Next, Collect

\* The collector works within its types whatever the program: the ring hands
\* out ids and the dud id only, a bit is set for an id that has a position, the
\* pending instruction finds its values on the stack.
THEOREM CollectorTypesCorrect == Spec => []GCTypeOK
<1>1. TypeInv => GCTypeOK
  BY DEF TypeInv, GCInv, HeapInv, ProgramTypes, CollectorTypes, GCTypeOK
<1> QED BY <1>1, TypesInit, TypesStep, PTL DEF Spec
-----------------------------------------------------------------------------
(***************************************************************************)
(* Why the marks are sound.  A set of ids supports the marks if it has     *)
(* what the top of the stack refers to and is closed under the lists and   *)
(* closures in it that this collection cannot erase: a list that is Kept,  *)
(* and any closure.  What is marked or queued is in every such set.  The   *)
(* condition on lists is what makes this survive the sweep: a list that is *)
(* erased was never part of the support.                                   *)
(***************************************************************************)
Children(id) == ObjectsIn(items[id]) \ {DudId}

Kept(id) == id \in reach_bits \/ id >= BitsLen

Supports(ids) ==
  /\ ObjectsIn(<<Top>>) \ {DudId} \subseteq ids
  /\ \A id \in ids : cells[id] = "list" /\ Kept(id) => Children(id) \subseteq ids
  /\ \A id \in ids : cells[id] = "closure" => Children(id) \subseteq ids

Marking == heap_status = "open" /\ phase \in {"roots", "mark", "dict"}

MarksSupported ==
  \A ids \in SUBSET CellIds : Supports(ids) =>
    /\ reach_bits \subseteq ids
    /\ Marking => next_ids \in Rings(HeapPopMax, ids \cup {DudId})

\* Between two collections the collector is as it was at the start.
Idle ==
  phase \in {"run", "make"} =>
    /\ scan = 0 /\ reach_bits = {} /\ ~ overflowed
    /\ next_ids = EmptyRing(HeapPopMax, DudId)

\* What the sweep has passed is marked or gone.  The cells of tenured objects
\* would not be; the VM tenures none.
Swept ==
  heap_status = "open" /\ phase = "sweep" =>
    \A id \in LiveIds : id < scan => id \in reach_bits

MarksInv == TypeInv /\ tenure_count = 0 /\ Idle /\ MarksSupported /\ Swept

LEMMA TopIs ==
  ASSUME ProgramTypes
  PROVE  /\ Top \in Values
         /\ ObjectsIn(<<Top>>) = IF Top = Imm THEN {} ELSE {Top}
<1>1. Top \in Values
  BY NotEmpty, LenProperties DEF ProgramTypes, Top
<1> DEFINE top == Top
<1>2. ToSet(<<top>>) = {top}
  BY DEF ToSet
<1> QED BY <1>1, <1>2 DEF ObjectsIn, IsObject

\* An instruction begins a collection, or leaves the collector alone.
LEMMA InstructionsCollect ==
  ASSUME Instruction \/ Update
  PROVE  /\ phase = "run" /\ UNCHANGED <<scan, next_ids, reach_bits, dict_nodes, overflowed>>
         /\ phase' \in {"run", "roots"} /\ tenure_count' = tenure_count
<1>1. CASE Instruction
  <2>1. CASE put_k \/ load_err_ref \/ pop \/ native_string \/ raise_err \/
             \E slot \in 1 .. Len(stack) : load_local(slot) \/ store_local(slot)
    BY <1>1, <2>1 DEF Instruction, put_k, pop, native_string, raise_err, load_err_ref, load_local,
                      store_local, PushValue, gcVars, heapVars, heap_store
  <2>2. ASSUME NEW count \in 0 .. MaxItems, mk_closure(count)
        PROVE  UNCHANGED <<gcVars, tenure_count>>
    BY <2>2 DEF mk_closure, heap_store
  <2>3. ASSUME NEW kind, NEW count, Make(kind, count), phase = "run"
        PROVE  /\ UNCHANGED <<scan, next_ids, reach_bits, dict_nodes, overflowed>>
               /\ phase' \in {"run", "roots"} /\ tenure_count' = tenure_count
    BY <2>3 DEF Make, StoreMade, heap_store, heapVars
  <2>4. CASE mk_dict \/ \E count \in 0 .. MaxItems : mk_list(count)
    BY <1>1, <2>3, <2>4 DEF Instruction, mk_list, mk_dict
  <2> QED BY <1>1, <2>1, <2>2, <2>4 DEF Instruction, gcVars
<1>2. CASE Update
  BY <1>2 DEF Update, set_idx, gcVars, heapVars
<1> QED BY <1>1, <1>2

\* A step that keeps the stack and marks more finds its support among the
\* sets that supported the marks before.
LEMMA SupportsBefore ==
  ASSUME UNCHANGED <<cells, items, stack>>, reach_bits \subseteq reach_bits',
         NEW ids \in SUBSET CellIds, Supports(ids)'
  PROVE  Supports(ids)
BY DEF Supports, Kept, Children, Top

LEMMA ScanSupported ==
  ASSUME MarksInv, scan_roots, heap_status = "open"
  PROVE  MarksSupported'
<1> SUFFICES ASSUME NEW ids \in SUBSET CellIds, Supports(ids)'
             PROVE  /\ reach_bits' \subseteq ids
                    /\ Marking' => next_ids' \in Rings(HeapPopMax, ids \cup {DudId})
  BY DEF MarksSupported
<1>1. /\ UNCHANGED <<cells, items, stack, reach_bits>>
      /\ phase = "roots"
      /\ next_ids' = next_ids \/ (IsObject(Top) /\ next_ids' = Push(next_ids, Top))
  BY DEF scan_roots, heapVars, vmVars
<1>2. Supports(ids)
  BY <1>1, SupportsBefore
<1>3. reach_bits \subseteq ids /\ next_ids \in Rings(HeapPopMax, ids \cup {DudId})
  BY <1>1, <1>2 DEF MarksInv, MarksSupported, Marking
<1>4. IsObject(Top) => Top \in ids \cup {DudId}
  BY <1>2, TopIs DEF Supports, MarksInv, TypeInv, IsObject
<1>5. IsObject(Top) => Push(next_ids, Top) \in Rings(HeapPopMax, ids \cup {DudId})
  BY <1>3, <1>4, PushStores, QueueAssumption
<1> QED BY <1>1, <1>3, <1>5

LEMMA MarkNextSupported ==
  ASSUME MarksInv, mark_next, heap_status = "open"
  PROVE  MarksSupported'
<1>h. PICK id : id = AtHead(next_ids)
  OBVIOUS
<1> SUFFICES ASSUME NEW ids \in SUBSET CellIds, Supports(ids)'
             PROVE  /\ reach_bits' \subseteq ids
                    /\ next_ids' \in Rings(HeapPopMax, ids \cup {DudId})
  BY DEF MarksSupported
<1>0. /\ TypeInv /\ GCInv /\ phase = "mark" /\ items \in [CellIds -> Seq(Values)]
      /\ next_ids \in Rings(HeapPopMax, CellIds \cup {DudId})
      /\ HeapPopMax \in Nat \ {0} /\ BitsLen \in Nat
  <2>1. BitsLen \in Nat
    BY QueueAssumption DEF BitsLen
  <2> QED BY <2>1, QueueAssumption
          DEF MarksInv, TypeInv, ProgramTypes, CollectorTypes, mark_next
<1>1. cells' = cells /\ UNCHANGED <<items, stack>>
  BY DEF mark_next, mark_list, mark_string, mark_dict, mark_upvals, mark_nothing,
         BitSet_set_at, heapVars, vmVars
<1>2. reach_bits \subseteq reach_bits'
  BY DEF mark_next, mark_list, mark_string, mark_dict, mark_upvals, mark_nothing, BitSet_set_at
<1>3. Supports(ids)
  BY <1>1, <1>2, SupportsBefore
<1>4. reach_bits \subseteq ids /\ next_ids \in Rings(HeapPopMax, ids \cup {DudId})
  BY <1>0, <1>3 DEF MarksInv, MarksSupported, Marking
<1>5. Pop(next_ids) \in Rings(HeapPopMax, ids \cup {DudId})
  BY <1>0, <1>4, PopFrees
<1>6. id \in ids \cup {DudId}
  BY <1>4, <1>h DEF AtHead, Rings
<1>7. heap_get(id) # NullCell => id \in ids /\ cells[id] = heap_get(id)
  <2>1. id \in CellIds \cup {DudId}
    BY <1>6
  <2>2. heap_get(id) # NullCell => id \in CellIds /\ cells[id] = heap_get(id)
    BY <1>0, <2>1, GetFinds
  <2> QED BY <1>6, <2>2 DEF DudId, CellIds
<1>8. CASE heap_get(id) = "list" /\ mark_list(id)
  <2>1. id \in ids /\ cells[id] = "list"
    BY <1>7, <1>8, DeletionAssumption
  <2>2. id \in CellIds /\ id \in Int /\ items[id] \in Seq(Values)
    BY <1>0, <2>1 DEF CellIds
  <2>3. Kept(id)'
    <3>1. BitSet_set_at({id}) /\ id \in Nat
      BY <1>8, <2>2 DEF mark_list, CellIds
    <3>2. CASE id < BitsLen
      <4>1. {id} \subseteq 0 .. BitsLen - 1
        BY <1>0, <3>1, <3>2
      <4> QED BY <3>1, <4>1 DEF BitSet_set_at, Kept
    <3> QED BY <1>0, <3>1, <3>2 DEF Kept
  <2>4. ObjectsIn(items[id]) \subseteq ids \cup {DudId}
    BY <1>1, <2>1, <2>3 DEF Supports, Children, Kept
  <2>5. next_ids' \in Rings(HeapPopMax, ids \cup {DudId})
    BY <1>0, <1>5, <1>8, <2>2, <2>4, PushAllTyped DEF mark_list
  <2>6. reach_bits' \subseteq ids
    BY <1>4, <1>8, <2>1 DEF mark_list, BitSet_set_at
  <2> QED BY <2>5, <2>6
<1>9. CASE heap_get(id) = "string" /\ mark_string(id)
  <2>1. id \in ids
    BY <1>7, <1>9, DeletionAssumption
  <2> QED BY <1>4, <1>5, <1>9, <2>1 DEF mark_string, BitSet_set_at
<1>10. CASE heap_get(id) = "closure" /\ mark_upvals(id)
  <2>1. id \in ids /\ cells[id] = "closure"
    BY <1>7, <1>10, DeletionAssumption
  <2>2. ObjectsIn(items[id]) \subseteq ids \cup {DudId}
    BY <1>3, <2>1 DEF Supports, Children
  <2>3. DudId \notin 0 .. BitsLen - 1
    BY <1>0 DEF DudId
  <2>4. reach_bits' \subseteq ids
    BY <1>4, <1>10, <2>2, <2>3 DEF mark_upvals, BitSet_set_at
  <2> QED BY <1>5, <1>10, <2>4 DEF mark_upvals
<1>11. CASE mark_dict(id) \/ mark_nothing
  BY <1>4, <1>5, <1>11 DEF mark_dict, mark_nothing
<1> QED BY <1>h, <1>8, <1>9, <1>10, <1>11 DEF mark_next

LEMMA SweepSupported ==
  ASSUME MarksInv, sweep
  PROVE  MarksSupported'
<1>0. /\ GCInv /\ cells \in [CellIds -> Objects \cup {NullCell}] /\ scan \in Nat /\ BitsLen \in Nat
  BY QueueAssumption DEF MarksInv, TypeInv, GCInv, HeapInv, HeapTypeOK, BitsLen
<1>1. /\ UNCHANGED <<stack, reach_bits, phase>> /\ phase = "sweep" /\ scan < BitsLen
      /\ \/ UNCHANGED <<cells, items>>
         \/ /\ scan \notin reach_bits
            /\ heap_erase(scan)
            /\ items' = [id \in CellIds |->
                 IF id = scan /\ cells'[id] = NullCell THEN <<>> ELSE items[id]]
  BY DEF sweep, heapVars
<1> SUFFICES ASSUME NEW ids \in SUBSET CellIds, Supports(ids)'
             PROVE  reach_bits \subseteq ids
  BY <1>1 DEF MarksSupported, Marking
<1>2. CASE UNCHANGED <<cells, items>>
  BY <1>1, <1>2, SupportsBefore DEF MarksInv, MarksSupported
<1>3. CASE /\ scan \notin reach_bits
           /\ heap_erase(scan)
           /\ items' = [id \in CellIds |->
                IF id = scan /\ cells'[id] = NullCell THEN <<>> ELSE items[id]]
  <2>1. cells' = cells \/ (cells' = [cells EXCEPT ![scan] = NullCell] /\ cells[scan] \notin NoDel)
    BY <1>3 DEF heap_erase, heapVars
  <2>2. ASSUME NEW id \in CellIds, id # scan
        PROVE  cells'[id] = cells[id] /\ items'[id] = items[id]
    BY <1>0, <1>3, <2>1, <2>2
  <2>3. ASSUME scan \in CellIds, cells[scan] = "closure"
        PROVE  cells'[scan] = cells[scan] /\ items'[scan] = items[scan]
    BY <1>0, <1>3, <2>1, <2>3, DeletionAssumption, ObjectsAssumption
  <2>4. ~ Kept(scan)
    BY <1>0, <1>1, <1>3 DEF Kept
  <2>5. Supports(ids)
    <3>1. ASSUME NEW id \in ids, cells[id] = "list", Kept(id) PROVE Children(id) \subseteq ids
      <4>1. id # scan /\ id \in CellIds
        BY <2>4, <3>1
      <4>2. cells'[id] = "list" /\ items'[id] = items[id] /\ Kept(id)'
        BY <1>1, <2>2, <3>1, <4>1 DEF Kept
      <4> QED BY <4>2 DEF Supports, Children
    <3>2. ASSUME NEW id \in ids, cells[id] = "closure" PROVE Children(id) \subseteq ids
      <4>1. cells'[id] = "closure" /\ items'[id] = items[id]
        BY <2>2, <2>3, <3>2
      <4> QED BY <4>1 DEF Supports, Children
    <3> QED BY <1>1, <3>1, <3>2 DEF Supports, Top
  <2> QED BY <2>5 DEF MarksInv, MarksSupported
<1> QED BY <1>1, <1>2, <1>3

LEMMA SweepPasses ==
  ASSUME MarksInv, sweep
  PROVE  Swept' /\ tenure_count' = 0
<1>0. /\ scan \in Nat /\ next_cell_id \in Nat /\ tenure_count = 0
      /\ NoCellLost /\ cells \in [CellIds -> Objects \cup {NullCell}]
  BY CapacityAssumption DEF MarksInv, TypeInv, GCInv, HeapInv, HeapTypeOK
<1>1. /\ UNCHANGED <<phase, reach_bits>> /\ phase = "sweep" /\ scan' = scan + 1
      /\ scan \in reach_bits => UNCHANGED heapVars
      /\ scan \notin reach_bits => heap_erase(scan)
  BY DEF sweep
<1>2. tenure_count' = 0
  BY <1>0, <1>1 DEF heap_erase, heapVars
<1>3. ASSUME heap_status' = "open", NEW id \in CellIds, cells'[id] # NullCell, id < scan + 1
      PROVE  id \in reach_bits
  <2>1. heap_status = "open" \/ heap_status' = "crashed"
    BY <1>1, <1>3 DEF heap_erase, heapVars
  <2>2. heap_status = "open" /\ (id < scan \/ id = scan) /\ id \in Nat
    BY <1>0, <1>3, <2>1 DEF CellIds
  <2>3. cells[id] # NullCell
    BY <1>0, <1>1, <1>3 DEF heap_erase, heapVars
  <2>4. CASE id < scan
    BY <1>1, <2>2, <2>3, <2>4 DEF MarksInv, Swept, LiveIds
  <2>5. CASE id = scan /\ scan \notin reach_bits
    <3>1. ~ Erasable(scan)
      BY <1>0, <1>1, <1>3, <2>5 DEF heap_erase
    <3>2. id >= next_cell_id /\ id \in next_cell_id .. CellCapacity - 1
      BY <1>0, <1>3, <2>5, <3>1, CapacityAssumption DEF Erasable, CellIds
    <3> QED BY <1>0, <2>3, <3>2 DEF NoCellLost
  <2> QED BY <2>2, <2>4, <2>5
<1> QED BY <1>1, <1>2, <1>3 DEF Swept, LiveIds

LEMMA MarksInit == Init => MarksInv
<1> SUFFICES ASSUME Init PROVE MarksInv
  OBVIOUS
<1>1. TypeInv
  BY TypesInit
<1>2. MarksSupported
  BY DEF Init, HeapInit, MarksSupported, Marking
<1> QED BY <1>1, <1>2 DEF Init, HeapInit, MarksInv, Idle, Swept

LEMMA MarksStep == MarksInv /\ [Next]_vars => MarksInv'
<1> SUFFICES ASSUME MarksInv, [Next]_vars PROVE MarksInv'
  OBVIOUS
<1>t. TypeInv'
  BY TypesStep DEF MarksInv
<1>1. CASE UNCHANGED vars
  <2>1. UNCHANGED <<tenure_count, cells, items, stack, heap_status, phase, scan, reach_bits,
                    next_ids, overflowed>>
    BY <1>1 DEF vars, heapVars, vmVars, gcVars
  <2>2. Idle' /\ Swept'
    BY <2>1 DEF MarksInv, Idle, Swept, LiveIds
  <2>3. MarksSupported'
    BY <2>1, SupportsBefore DEF MarksInv, MarksSupported, Marking
  <2> QED BY <1>t, <2>1, <2>2, <2>3 DEF MarksInv
<1>2. CASE Instruction \/ Update
  <2>1. /\ UNCHANGED <<scan, next_ids, reach_bits, overflowed, tenure_count>>
        /\ phase = "run" /\ phase' \in {"run", "roots"}
    BY <1>2, InstructionsCollect
  <2>2. reach_bits = {} /\ next_ids = EmptyRing(HeapPopMax, DudId)
    BY <2>1 DEF MarksInv, Idle
  <2>3. MarksSupported'
    <3>1. ASSUME NEW ids \in SUBSET CellIds
          PROVE  next_ids' \in Rings(HeapPopMax, ids \cup {DudId})
      BY <2>1, <2>2, EmptyRingTyped, QueueAssumption
    <3> QED BY <2>1, <2>2, <3>1 DEF MarksSupported
  <2> QED BY <1>t, <2>1, <2>3 DEF MarksInv, Idle, Swept
<1>3. CASE scan_roots /\ heap_status = "open"
  <2>1. /\ tenure_count' = tenure_count /\ phase' \in {"roots", "mark"}
    BY <1>3 DEF scan_roots, heapVars
  <2> QED BY <1>3, <1>t, <2>1, ScanSupported DEF MarksInv, Idle, Swept
<1>4. CASE mark_done
  <2>1. /\ UNCHANGED <<tenure_count, cells, items, stack, reach_bits>>
        /\ phase' = "sweep" /\ scan' = 0
    BY <1>4 DEF mark_done, heapVars, vmVars
  <2>2. MarksSupported'
    BY <2>1, SupportsBefore DEF MarksInv, MarksSupported, Marking
  <2>3. Swept'
    BY <2>1 DEF Swept, LiveIds, CellIds
  <2> QED BY <1>t, <2>1, <2>2, <2>3 DEF MarksInv, Idle
<1>5. CASE mark_next /\ heap_status = "open"
  <2>1. tenure_count' = tenure_count /\ phase' \in {"mark", "dict"}
    BY <1>5 DEF mark_next, mark_list, mark_string, mark_dict, mark_upvals, mark_nothing,
                BitSet_set_at, heapVars
  <2> QED BY <1>5, <1>t, <2>1, MarkNextSupported DEF MarksInv, Idle, Swept
<1>6. CASE mark_dict_node /\ heap_status = "open"
  <2>1. UNCHANGED <<cells, items, stack, reach_bits, next_ids>>
    BY <1>6, MarkDictNodeTyped DEF mark_dict_node, vmVars, MarksInv
  <2>2. tenure_count' = tenure_count /\ phase = "dict" /\ phase' \in {"mark", "dict"}
    BY <1>6 DEF mark_dict_node, BitSet_set_at, heapVars
  <2>3. MarksSupported'
    BY <1>6, <2>1, <2>2, SupportsBefore DEF MarksInv, MarksSupported, Marking
  <2> QED BY <1>t, <2>2, <2>3 DEF MarksInv, Idle, Swept
<1>7. CASE sweep
  <2>1. phase' = "sweep"
    BY <1>7 DEF sweep
  <2> QED BY <1>7, <1>t, <2>1, SweepSupported, SweepPasses DEF MarksInv, Idle
<1>8. CASE sweep_done
  <2>1. /\ tenure_count' = tenure_count /\ phase' = "make" /\ scan' = 0 /\ reach_bits' = {}
        /\ ~ overflowed' /\ next_ids' = EmptyRing(HeapPopMax, DudId)
    BY <1>8 DEF sweep_done, heapVars
  <2> QED BY <1>t, <2>1 DEF MarksInv, Idle, Swept, MarksSupported, Marking
<1>9. CASE resume
  <2>1. /\ tenure_count' = tenure_count /\ phase = "make" /\ phase' = "run"
        /\ UNCHANGED <<scan, reach_bits, overflowed, next_ids>>
    BY <1>9 DEF resume, StoreMade, heap_store
  <2> QED BY <1>t, <2>1 DEF MarksInv, Idle, Swept, MarksSupported, Marking
<1> QED BY <1>1, <1>2, <1>3, <1>4, <1>5, <1>6, <1>7, <1>8, <1>9 DEF Next, Collect

LEMMA MarksAreReachable == MarksInv => MarksReachable
<1> SUFFICES ASSUME MarksInv, NEW id \in reach_bits, NEW ids \in SUBSET CellIds,
                    ObjectsIn(<<Top>>) \ {DudId} \subseteq ids,
                    \A from \in ids : cells[from] \in Objects =>
                      ObjectsIn(items[from]) \ {DudId} \subseteq ids
             PROVE  id \in ids
  BY DEF MarksReachable, ReachFrom, MarksInv, TypeInv, CollectorTypes
<1>1. cells \in [CellIds -> Objects \cup {NullCell}]
  BY DEF MarksInv, TypeInv, GCInv, HeapInv, HeapTypeOK
<1>2. \A from \in ids : cells[from] \in {"list", "closure"} => cells[from] \in Objects
  BY <1>1, DeletionAssumption
<1>3. Supports(ids)
  BY <1>2 DEF Supports, Children
<1> QED BY <1>3 DEF MarksInv, MarksSupported

\* Whatever the program and its data: nothing is marked that the top of the
\* stack does not lead to, so that no collection keeps garbage it looked at.
THEOREM CollectorMarksReachable == Spec => []MarksReachable
BY MarksInit, MarksStep, MarksAreReachable, PTL DEF Spec

\* Whatever the program: when a collection ends, each object that is left below
\* BitsLen can be reached from the top of the stack.
THEOREM CollectorDropsGarbage == Spec => GarbageBelowBitsGoes
<1>1. MarksInv /\ [Next]_vars =>
        [sweep_done => \A id \in LiveIds : id < BitsLen =>
           id \in ReachFrom(ObjectsIn(<<Top>>), Objects)]_vars
  <2> SUFFICES ASSUME MarksInv, Next, sweep_done, NEW id \in LiveIds, id < BitsLen
               PROVE  id \in ReachFrom(ObjectsIn(<<Top>>), Objects)
    OBVIOUS
  <2>1. heap_status = "open"
    BY DEF Next, Instruction, Update, Collect
  <2>2. phase = "sweep" /\ scan = BitsLen
    BY DEF sweep_done
  <2>3. id \in reach_bits
    BY <2>1, <2>2 DEF MarksInv, Swept
  <2> QED BY <2>3, MarksAreReachable DEF MarksReachable
<1> QED BY <1>1, MarksInit, MarksStep, PTL DEF Spec, GarbageBelowBitsGoes
-----------------------------------------------------------------------------
(***************************************************************************)
(* Why the marking is complete.  done are the lists whose items have been  *)
(* queued and the strings that were marked; a list or string that is not   *)
(* done is open.  The ring never hands out what was pushed last, so each   *)
(* open id in it needs a second position that leads to it: for the id at   *)
(* the head that position takes over what the head stood for.              *)
(***************************************************************************)
Open(id, done) == id \in CellIds /\ cells[id] \in {"list", "string"} /\ id \notin done

Leads(from) == ReachFrom({from}, {"list"})

Holds(queue, id) == \E pos \in Occupied(queue) : queue.slots[pos] = id

TwiceQueued(queue, done) ==
  \A pos \in Occupied(queue) : Open(queue.slots[pos], done) =>
    \E other \in Occupied(queue) \ {pos} : queue.slots[pos] \in Leads(queue.slots[other])

ItemsQueued(queue, done) ==
  \A id \in done : cells[id] = "list" =>
    \A child \in Children(id) : Open(child, done) => Holds(queue, child)

Pending(queue, done) ==
  /\ TwiceQueued(queue, done)
  /\ ItemsQueued(queue, done)
  /\ Open(Top, done) => Holds(queue, Top)

\* The top of the stack is queued once for each turn of the root scan.
RootsQueued ==
  /\ \A pos \in Occupied(next_ids) : next_ids.slots[pos] \in {DudId, Top}
  /\ IsObject(Top) /\ scan >= 1 => Holds(next_ids, Top)
  /\ IsObject(Top) /\ scan >= 2 =>
       \E pos, other \in Occupied(next_ids) :
         pos # other /\ next_ids.slots[pos] = Top /\ next_ids.slots[other] = Top

AllMarked(done) ==
  /\ \A id \in done : Kept(id)
  /\ ~ Open(Top, done)
  /\ \A id \in done : cells[id] = "list" => \A child \in Children(id) : ~ Open(child, done)

MarkingGoesOn ==
  Marking /\ Sp >= 2 /\ ~ overflowed =>
    /\ phase = "roots" => RootsQueued
    /\ phase \in {"mark", "dict"} =>
         \E done \in SUBSET CellIds : Pending(next_ids, done) /\ \A id \in done : Kept(id)

MarkingDone ==
  phase = "sweep" /\ Sp >= 2 /\ ~ overflowed => \E done \in SUBSET CellIds : AllMarked(done)

CompleteInv == MarksInv /\ MarkingGoesOn /\ MarkingDone

\* What leads where.
LEMMA LeadsThere ==
  ASSUME NEW from \in CellIds
  PROVE  from \in Leads(from)
BY DEF Leads, ReachFrom, DudId, CellIds

LEMMA LeadsOn ==
  ASSUME NEW from, NEW id \in Leads(from), cells[id] = "list",
         NEW child \in Children(id), child \in CellIds
  PROVE  child \in Leads(from)
BY DEF Leads, ReachFrom, Children

LEMMA ChildrenTyped ==
  ASSUME ProgramTypes, NEW id \in CellIds
  PROVE  Children(id) \subseteq CellIds
<1>1. items[id] \in Seq(Values)
  BY DEF ProgramTypes
<1>2. \A n \in DOMAIN items[id] : items[id][n] \in Values
  BY <1>1, LenProperties
<1> QED BY <1>2 DEF Children, ObjectsIn, ToSet, IsObject, Values

LEMMA LeadsThrough ==
  ASSUME ProgramTypes, NEW from \in CellIds, NEW id \in Leads(from), id # from
  PROVE  cells[from] = "list" /\ \E child \in Children(from) : id \in Leads(child)
<1> DEFINE below == {w \in CellIds : cells[from] = "list" /\
                        \E child \in Children(from) : w \in Leads(child)}
           ids == {from} \cup below
<1>1. ids \in SUBSET CellIds /\ {from} \ {DudId} \subseteq ids
  OBVIOUS
<1>2. ASSUME NEW w \in ids, cells[w] = "list"
      PROVE  ObjectsIn(items[w]) \ {DudId} \subseteq ids
  <2>1. CASE w = from
    <3>1. ASSUME NEW child \in Children(from) PROVE child \in ids
      <4>1. child \in Leads(child) /\ child \in CellIds
        BY <3>1, ChildrenTyped, LeadsThere
      <4> QED BY <1>2, <2>1, <3>1, <4>1
    <3> QED BY <2>1, <3>1 DEF Children
  <2>2. CASE w \in below
    <3>1. PICK child \in Children(from) : w \in Leads(child)
      BY <2>2
    <3>2. ASSUME NEW next \in Children(w) PROVE next \in ids
      <4>1. next \in CellIds
        BY <1>1, <1>2, <3>2, ChildrenTyped
      <4>2. next \in Leads(child)
        BY <1>2, <3>1, <3>2, <4>1, LeadsOn
      <4> QED BY <2>2, <3>1, <4>1, <4>2
    <3> QED BY <3>2 DEF Children
  <2> QED BY <1>2, <2>1, <2>2
<1> HIDE DEF ids
<1>3. id \in ids
  BY <1>1, <1>2 DEF Leads, ReachFrom
<1> QED BY <1>3 DEF ids

LEMMA LeadsSame ==
  ASSUME UNCHANGED <<cells, items>>, NEW from
  PROVE  Leads(from)' = Leads(from)
BY DEF Leads, ReachFrom

\* The head of the ring is passed over: it is no list and no open string.
LEMMA HeadPassed ==
  ASSUME ProgramTypes, NEW queue, NEW rest, NEW done \in SUBSET CellIds, NEW more \in SUBSET CellIds,
         queue.head \in Occupied(queue), rest.slots = queue.slots,
         Occupied(rest) = Occupied(queue) \ {queue.head},
         Pending(queue, done), done \subseteq more,
         \A id \in more \ done : cells[id] # "list",
         ~ Open(AtHead(queue), more), AtHead(queue) \in CellIds \cup {DudId},
         AtHead(queue) \in CellIds => cells[AtHead(queue)] # "list"
  PROVE  Pending(rest, more)
<1>1. \A id : Open(id, more) => Open(id, done) /\ id # AtHead(queue)
  BY DEF Open
<1>2. \A id : Holds(queue, id) /\ id # AtHead(queue) => Holds(rest, id)
  BY DEF Holds, AtHead
<1>3. TwiceQueued(rest, more)
  <2> SUFFICES ASSUME NEW pos \in Occupied(rest), Open(queue.slots[pos], more)
               PROVE  \E other \in Occupied(rest) \ {pos} :
                        queue.slots[pos] \in Leads(queue.slots[other])
    BY DEF TwiceQueued
  <2>1. PICK other \in Occupied(queue) \ {pos} : queue.slots[pos] \in Leads(queue.slots[other])
    BY <1>1 DEF Pending, TwiceQueued
  <2>2. CASE other = queue.head
    <3>1. queue.slots[pos] \in Leads(AtHead(queue)) /\ queue.slots[pos] # AtHead(queue)
      BY <1>1, <2>1, <2>2 DEF AtHead
    <3>2. CASE AtHead(queue) \in CellIds
      BY <3>1, <3>2, LeadsThrough
    <3>3. CASE AtHead(queue) = DudId
      BY <3>1, <3>3 DEF Leads, ReachFrom
    <3> QED BY <3>2, <3>3
  <2> QED BY <2>1, <2>2
<1>4. ItemsQueued(rest, more)
  BY <1>1, <1>2 DEF Pending, ItemsQueued
<1> QED BY <1>1, <1>2, <1>3, <1>4 DEF Pending

\* The head of the ring is a list whose items are queued.
LEMMA HeadExpanded ==
  ASSUME ProgramTypes, NEW queue, NEW rest, NEW all, NEW done \in SUBSET CellIds,
         NEW id \in CellIds, id = AtHead(queue), cells[id] = "list",
         queue.head \in Occupied(queue), rest.slots = queue.slots,
         Occupied(rest) = Occupied(queue) \ {queue.head},
         Extends(all, rest, ObjectsIn(items[id])), Pending(queue, done)
  PROVE  Pending(all, done \cup {id})
<1> DEFINE more == done \cup {id}
<1>0. queue.slots[queue.head] = id
  BY DEF AtHead
<1>1. \A x : Open(x, more) => Open(x, done) /\ x # id /\ x \in CellIds
  BY DEF Open
<1>2. ASSUME NEW x, Holds(queue, x), x # id PROVE Holds(all, x)
  BY <1>0, <1>2 DEF Holds, Extends
<1>3. \A child \in Children(id) : \E pos \in Occupied(all) \ Occupied(rest) : all.slots[pos] = child
  BY DEF Children, Extends
<1>4. TwiceQueued(all, more)
  <2> SUFFICES ASSUME NEW pos \in Occupied(all), Open(all.slots[pos], more)
               PROVE  \E other \in Occupied(all) \ {pos} :
                        all.slots[pos] \in Leads(all.slots[other])
    BY DEF TwiceQueued
  <2>0. PICK x : x = all.slots[pos]
    OBVIOUS
  <2>1. Open(x, done) /\ x # id /\ x \in CellIds
    BY <1>1, <2>0
  <2>2. CASE pos \in Occupied(rest)
    <3>1. x = queue.slots[pos] /\ pos \in Occupied(queue)
      BY <2>0, <2>2 DEF Extends
    <3>2. PICK other \in Occupied(queue) \ {pos} : x \in Leads(queue.slots[other])
      BY <2>1, <3>1 DEF Pending, TwiceQueued
    <3>3. CASE other = queue.head
      <4>1. x \in Leads(id)
        BY <1>0, <3>2, <3>3
      <4>2. PICK child \in Children(id) : x \in Leads(child)
        BY <2>1, <4>1, LeadsThrough
      <4>3. PICK new \in Occupied(all) \ Occupied(rest) : all.slots[new] = child
        BY <1>3
      <4> QED BY <2>0, <2>2, <4>2, <4>3
    <3>4. CASE other # queue.head
      <4>1. other \in Occupied(all) /\ all.slots[other] = queue.slots[other]
        BY <3>2, <3>4 DEF Extends
      <4> QED BY <2>0, <3>2, <4>1
    <3> QED BY <3>3, <3>4
  <2>3. CASE pos \notin Occupied(rest)
    <3>1. x \in Children(id)
      BY <2>0, <2>1, <2>3 DEF Extends, Children, DudId, CellIds
    <3>2. CASE id \in done
      <4>1. Holds(queue, x)
        BY <2>1, <3>1, <3>2 DEF Pending, ItemsQueued
      <4>2. PICK other \in Occupied(queue) : queue.slots[other] = x
        BY <4>1 DEF Holds
      <4>3. other \in Occupied(rest) /\ all.slots[other] = x /\ other \in Occupied(all)
        BY <1>0, <2>1, <4>2 DEF Extends
      <4>4. x \in Leads(x)
        BY <2>1, LeadsThere
      <4> QED BY <2>0, <2>3, <4>3, <4>4
    <3>3. CASE id \notin done
      <4>1. Open(queue.slots[queue.head], done)
        BY <1>0, <3>3 DEF Open
      <4>2. PICK other \in Occupied(queue) \ {queue.head} : id \in Leads(queue.slots[other])
        BY <1>0, <4>1 DEF Pending, TwiceQueued
      <4>3. x \in Leads(queue.slots[other])
        BY <2>1, <3>1, <4>2, LeadsOn
      <4>4. other \in Occupied(rest) /\ other \in Occupied(all) /\ all.slots[other] = queue.slots[other]
        BY <4>2 DEF Extends
      <4> QED BY <2>0, <2>3, <4>3, <4>4
    <3> QED BY <3>2, <3>3
  <2> QED BY <2>2, <2>3
<1>5. ItemsQueued(all, more)
  <2> SUFFICES ASSUME NEW x \in more, cells[x] = "list", NEW child \in Children(x),
                      Open(child, more)
               PROVE  Holds(all, child)
    BY DEF ItemsQueued
  <2>1. CASE x = id
    BY <1>3, <2>1 DEF Holds
  <2>2. CASE x \in done
    BY <1>1, <1>2, <2>2 DEF Pending, ItemsQueued
  <2> QED BY <2>1, <2>2
<1>6. Open(Top, more) => Holds(all, Top)
  BY <1>1, <1>2 DEF Pending
<1> QED BY <1>4, <1>5, <1>6 DEF Pending

\* What is pending stays so while the objects and the stack do.
LEMMA PendingSame ==
  ASSUME UNCHANGED <<cells, items, stack>>, NEW queue, NEW done, Pending(queue, done)
  PROVE  Pending(queue, done)'
<1>1. \A id : Open(id, done)' <=> Open(id, done)
  BY DEF Open
<1>2. TwiceQueued(queue, done)'
  <2>1. \A from : Leads(from)' = Leads(from)
    BY LeadsSame
  <2> QED BY <1>1, <2>1 DEF TwiceQueued, Pending, Occupied
<1>3. ItemsQueued(queue, done)'
  BY <1>1 DEF ItemsQueued, Pending, Children, Holds, Occupied
<1>4. (Open(Top, done) => Holds(queue, Top))'
  BY DEF Pending, Open, Top, Holds, Occupied
<1> QED BY <1>2, <1>3, <1>4 DEF Pending

LEMMA ScanGoesOn ==
  ASSUME CompleteInv, scan_roots, heap_status = "open", Sp >= 2, ~ overflowed'
  PROVE  /\ phase' = "roots" => RootsQueued'
         /\ phase' = "mark" => Pending(next_ids, {})'
<1>0. /\ UNCHANGED <<cells, items, stack>> /\ phase = "roots" /\ ~ overflowed /\ scan \in Nat
      /\ next_ids \in Rings(HeapPopMax, CellIds \cup {DudId}) /\ HeapPopMax \in Nat \ {0}
      /\ IsObject(Top) => Top \in CellIds \cup {DudId}
  BY TopIs, QueueAssumption DEF scan_roots, heapVars, vmVars, CompleteInv, MarksInv, TypeInv,
     CollectorTypes, GCInv, IsObject, Values
<1>1. RootsQueued
  BY <1>0 DEF CompleteInv, MarkingGoesOn, Marking
<1>2. CASE scan < Sp
  <2>1. phase' = "roots" /\ scan' = scan + 1
    BY <1>0, <1>2 DEF scan_roots
  <2>2. CASE ~ IsObject(Top)
    <3>1. next_ids' = next_ids
      BY <1>2, <2>2 DEF scan_roots
    <3> QED BY <1>0, <1>1, <2>1, <2>2, <3>1 DEF RootsQueued, Top, IsObject
  <2>3. CASE IsObject(Top)
    <3>1. next_ids' = Push(next_ids, Top) /\ ~ Exhausted(Push(next_ids, Top))
      BY <1>0, <1>2, <2>3 DEF scan_roots
    <3>2. /\ next_ids'.tail \notin Occupied(next_ids)
          /\ Occupied(next_ids') = Occupied(next_ids) \cup {next_ids'.tail}
          /\ next_ids'.slots[next_ids'.tail] = Top
          /\ \A pos \in Occupied(next_ids) : next_ids'.slots[pos] = next_ids.slots[pos]
      BY <1>0, <2>3, <3>1, PushOccupies
    <3>3. Top' = Top
      BY <1>0 DEF Top
    <3>4. \A pos \in Occupied(next_ids') : next_ids'.slots[pos] \in {DudId, Top}
      BY <1>1, <3>2 DEF RootsQueued
    <3>5. \E pos \in Occupied(next_ids') : next_ids'.slots[pos] = Top
      BY <3>2
    <3>6. scan + 1 >= 2 => \E pos, other \in Occupied(next_ids') :
            pos # other /\ next_ids'.slots[pos] = Top /\ next_ids'.slots[other] = Top
      <4>1. ASSUME scan + 1 >= 2
            PROVE  \E pos \in Occupied(next_ids) : next_ids.slots[pos] = Top
        BY <1>0, <1>1, <2>3, <4>1 DEF RootsQueued, Holds
      <4> QED BY <3>2, <4>1
    <3>7. Holds(next_ids, Top)'
      BY <3>3, <3>5 DEF Holds
    <3> QED BY <2>1, <3>3, <3>4, <3>6, <3>7 DEF RootsQueued
  <2> QED BY <2>1, <2>2, <2>3
<1>3. CASE ~ scan < Sp
  <2>1. phase' = "mark" /\ next_ids' = next_ids /\ scan >= 2
    <3>1. Sp \in Int
      BY LenProperties DEF CompleteInv, MarksInv, TypeInv, ProgramTypes, Sp
    <3> QED BY <1>0, <1>3, <3>1 DEF scan_roots
  <2>2. Pending(next_ids, {})
    <3>1. \A id : Open(id, {}) => id \in CellIds
      BY DEF Open
    <3>2. TwiceQueued(next_ids, {})
      <4> SUFFICES ASSUME NEW pos \in Occupied(next_ids), Open(next_ids.slots[pos], {})
                   PROVE  \E other \in Occupied(next_ids) \ {pos} :
                            next_ids.slots[pos] \in Leads(next_ids.slots[other])
        BY DEF TwiceQueued
      <4>1. next_ids.slots[pos] = Top /\ Top \in CellIds
        BY <1>1, <3>1 DEF RootsQueued, DudId, CellIds
      <4>2. IsObject(Top)
        BY <4>1 DEF IsObject, Imm, CellIds
      <4>3. \E other \in Occupied(next_ids) \ {pos} : next_ids.slots[other] = Top
        BY <1>1, <2>1, <4>2 DEF RootsQueued
      <4> QED BY <4>1, <4>3, LeadsThere
    <3>3. Open(Top, {}) => Holds(next_ids, Top)
      <4>1. Open(Top, {}) => IsObject(Top)
        BY <3>1 DEF IsObject, Imm, CellIds
      <4> QED BY <1>0, <1>1, <2>1, <4>1 DEF RootsQueued
    <3> QED BY <3>2, <3>3 DEF Pending, ItemsQueued
  <2>3. UNCHANGED <<cells, items, stack>> /\ next_ids' = next_ids
    BY <1>0, <2>1
  <2> QED BY <2>1, <2>2, <2>3, PendingSame DEF Pending, TwiceQueued, ItemsQueued, Holds
<1> QED BY <1>2, <1>3

LEMMA MarkNextGoesOn ==
  ASSUME CompleteInv, mark_next, heap_status = "open", heap_status' = "open", Sp >= 2,
         ~ overflowed'
  PROVE  \E done \in SUBSET CellIds : Pending(next_ids, done)' /\ (\A id \in done : Kept(id))'
<1>h. PICK id : id = AtHead(next_ids)
  OBVIOUS
<1>n. PICK ring : ring = next_ids'
  OBVIOUS
<1>0. /\ TypeInv /\ GCInv /\ ProgramTypes /\ phase = "mark" /\ ~ overflowed
      /\ next_ids \in Rings(HeapPopMax, CellIds \cup {DudId}) /\ HeapPopMax \in Nat \ {0}
  BY QueueAssumption DEF CompleteInv, MarksInv, TypeInv, CollectorTypes, mark_next,
     mark_list, mark_string, mark_dict, mark_upvals, mark_nothing
<1>1. UNCHANGED <<cells, items, stack>> /\ reach_bits \subseteq reach_bits'
  BY DEF mark_next, mark_list, mark_string, mark_dict, mark_upvals, mark_nothing,
         BitSet_set_at, heapVars, vmVars
<1>2. PICK done \in SUBSET CellIds : Pending(next_ids, done) /\ \A x \in done : Kept(x)
  BY <1>0 DEF CompleteInv, MarkingGoesOn, Marking
<1>3. /\ id \in CellIds \cup {DudId} /\ ~ Exhausted(next_ids)
  BY <1>0, <1>h DEF AtHead, Rings, mark_next
<1>4. PICK rest : rest = Pop(next_ids)
  OBVIOUS
<1>5. /\ rest \in Rings(HeapPopMax, CellIds \cup {DudId}) /\ rest.slots = next_ids.slots
      /\ next_ids.head \in Occupied(next_ids)
      /\ Occupied(rest) = Occupied(next_ids) \ {next_ids.head}
  BY <1>0, <1>3, <1>4, PopFrees
<1>6. id \in CellIds => heap_get(id) = cells[id]
  BY <1>0, CapacityAssumption DEF GCInv, HeapInv, HeapTypeOK, NoCellLost, heap_get, CellIds
<1>7. id = DudId => heap_get(id) = NullCell
  BY DEF heap_get, DudId
<1>8. ASSUME NEW more \in SUBSET CellIds, done \subseteq more, Pending(ring, more),
             \A x \in more \ done : Kept(x)'
      PROVE  \E d \in SUBSET CellIds : Pending(next_ids, d)' /\ (\A x \in d : Kept(x))'
  <2>1. Pending(ring, more)'
    BY <1>1, <1>8, PendingSame
  <2>2. \A x \in more : Kept(x)'
    BY <1>1, <1>2, <1>8 DEF Kept
  <2>3. Pending(next_ids, more)'
    BY <1>n, <2>1 DEF Pending, TwiceQueued, ItemsQueued, Holds
  <2> QED BY <2>2, <2>3
<1>9. ASSUME heap_status' = "open", id \in CellIds, BitSet_set_at({id})
      PROVE  Kept(id)'
  <2>1. reach_bits' = reach_bits \cup ({id} \cap 0 .. BitsLen - 1)
    BY <1>9 DEF BitSet_set_at
  <2>2. BitsLen \in Nat /\ id \in Nat
    BY <1>9, QueueAssumption DEF BitsLen, CellIds
  <2> QED BY <2>1, <2>2 DEF Kept
<1>10. CASE heap_get(id) = "list" /\ mark_list(id)
  <2>1. id \in CellIds /\ cells[id] = "list"
    BY <1>3, <1>6, <1>7, <1>10, DeletionAssumption
  <2>2. /\ items[id] \in Seq(Values) /\ ObjectsIn(items[id]) \subseteq CellIds \cup {DudId}
        /\ ring = PushAll(rest, items[id]) /\ ~ Overflows(rest, items[id])
    <3>1. items[id] \in Seq(Values)
      BY <1>0, <2>1 DEF ProgramTypes
    <3>2. Children(id) \subseteq CellIds
      BY <1>0, <2>1, ChildrenTyped
    <3> QED BY <1>n, <1>4, <1>10, <3>1, <3>2 DEF mark_list, Children
  <2>3. Extends(ring, rest, ObjectsIn(items[id]))
    BY <1>0, <1>5, <2>2, PushAllOccupies
  <2>4. Pending(ring, done \cup {id})
    BY <1>0, <1>h, <1>2, <1>5, <2>1, <2>3, HeadExpanded
  <2>5. Kept(id)'
    BY <1>9, <1>10, <2>1 DEF mark_list
  <2> QED BY <1>8, <2>1, <2>4, <2>5
<1>11. CASE heap_get(id) = "string" /\ mark_string(id)
  <2>1. id \in CellIds /\ cells[id] = "string"
    BY <1>3, <1>6, <1>7, <1>11, DeletionAssumption
  <2>2. ring = rest /\ Kept(id)'
    BY <1>n, <1>4, <1>9, <1>11, <2>1 DEF mark_string
  <2>3. ~ Open(id, done \cup {id})
    BY DEF Open
  <2>4. Pending(rest, done \cup {id})
    BY <1>0, <1>h, <1>2, <1>3, <1>5, <2>1, <2>3, HeadPassed
  <2> QED BY <1>8, <2>1, <2>2, <2>4
<1>12. CASE /\ heap_get(id) \in {NullCell, "err", "dict", "closure"}
            /\ mark_dict(id) \/ mark_upvals(id) \/ mark_nothing
  <2>1. id \in CellIds => cells[id] \notin {"list", "string"}
    BY <1>6, <1>12, DeletionAssumption
  <2>2. ring = rest
    BY <1>n, <1>4, <1>12 DEF mark_dict, mark_upvals, mark_nothing
  <2>3. ~ Open(id, done)
    BY <2>1 DEF Open
  <2>4. Pending(rest, done)
    BY <1>0, <1>h, <1>2, <1>3, <1>5, <2>1, <2>3, HeadPassed
  <2> QED BY <1>8, <2>2, <2>4
<1> QED BY <1>h, <1>10, <1>11, <1>12 DEF mark_next

LEMMA DoneMarksAll ==
  ASSUME CompleteInv, mark_done, heap_status = "open", Sp >= 2, ~ overflowed'
  PROVE  \E done \in SUBSET CellIds : AllMarked(done)'
<1>0. /\ phase = "mark" /\ ~ overflowed /\ Exhausted(next_ids)
      /\ next_ids \in Rings(HeapPopMax, CellIds \cup {DudId}) /\ HeapPopMax \in Nat \ {0}
      /\ UNCHANGED <<cells, items, stack, reach_bits>>
  BY QueueAssumption DEF mark_done, heapVars, vmVars, CompleteInv, MarksInv, TypeInv, CollectorTypes
<1>1. PICK done \in SUBSET CellIds : Pending(next_ids, done) /\ \A id \in done : Kept(id)
  BY <1>0 DEF CompleteInv, MarkingGoesOn, Marking
<1>2. Occupied(next_ids) = {next_ids.tail}
  BY <1>0, ExhaustedHoldsLast
<1>3. \A id : Holds(next_ids, id) => ~ Open(id, done)
  BY <1>1, <1>2 DEF Pending, TwiceQueued, Holds
<1>4. AllMarked(done)
  BY <1>1, <1>3 DEF AllMarked, Pending, ItemsQueued
<1>5. AllMarked(done)'
  BY <1>0, <1>4 DEF AllMarked, Kept, Open, Top, Children
<1> QED BY <1>5

LEMMA SweepKeepsMarks ==
  ASSUME CompleteInv, sweep, Sp >= 2, ~ overflowed'
  PROVE  \E done \in SUBSET CellIds : AllMarked(done)'
<1>0. /\ phase = "sweep" /\ ~ overflowed /\ UNCHANGED <<stack, reach_bits>>
      /\ cells \in [CellIds -> Objects \cup {NullCell}]
  BY DEF sweep, CompleteInv, MarksInv, TypeInv, GCInv, HeapInv, HeapTypeOK
<1>1. PICK done \in SUBSET CellIds : AllMarked(done)
  BY <1>0 DEF CompleteInv, MarkingDone
<1>2. ASSUME NEW id \in CellIds, cells'[id] \in {"list", "string"}
      PROVE  cells[id] = cells'[id] /\ items'[id] = items[id]
  <2>1. CASE scan \in reach_bits
    BY <2>1 DEF sweep, heapVars
  <2>2. CASE scan \notin reach_bits
    <3>1. /\ heap_erase(scan)
          /\ items' = [x \in CellIds |-> IF x = scan /\ cells'[x] = NullCell THEN <<>> ELSE items[x]]
      BY <2>2 DEF sweep
    <3>2. cells'[id] # NullCell
      BY <1>2, DeletionAssumption
    <3>3. cells[id] = cells'[id]
      BY <1>0, <3>1, <3>2 DEF heap_erase, heapVars
    <3> QED BY <3>1, <3>2, <3>3
  <2> QED BY <2>1, <2>2
<1>3. \A id : Open(id, done)' => Open(id, done)
  BY <1>2 DEF Open
<1>4. AllMarked(done)'
  <2>1. ASSUME NEW id \in done, cells'[id] = "list", NEW child \in Children(id)'
        PROVE  ~ Open(child, done)'
    BY <1>1, <1>2, <1>3, <2>1 DEF AllMarked, Children
  <2>2. \A id \in done : Kept(id)'
    BY <1>0, <1>1 DEF AllMarked, Kept
  <2>3. ~ Open(Top, done)'
    BY <1>0, <1>1, <1>2 DEF AllMarked, Open, Top
  <2> QED BY <2>1, <2>2, <2>3 DEF AllMarked
<1> QED BY <1>4

LEMMA CompleteInit == Init => CompleteInv
BY MarksInit DEF Init, HeapInit, CompleteInv, MarkingGoesOn, MarkingDone, Marking

LEMMA CompleteStep == CompleteInv /\ [Next]_vars => CompleteInv'
<1> SUFFICES ASSUME CompleteInv, [Next]_vars PROVE CompleteInv'
  OBVIOUS
<1>m. MarksInv'
  BY MarksStep DEF CompleteInv
<1>1. CASE UNCHANGED vars
  <2>1. UNCHANGED <<cells, items, stack, heap_status, phase, scan, reach_bits, next_ids, overflowed>>
    BY <1>1 DEF vars, heapVars, vmVars, gcVars
  <2>2. MarkingDone'
    BY <2>1 DEF CompleteInv, MarkingDone, AllMarked, Kept, Open, Top, Children, Sp
  <2>3. MarkingGoesOn'
    <3> SUFFICES ASSUME Marking, Sp >= 2, ~ overflowed
                 PROVE  /\ phase = "roots" => RootsQueued'
                        /\ phase \in {"mark", "dict"} =>
                             \E done \in SUBSET CellIds :
                               Pending(next_ids, done)' /\ (\A id \in done : Kept(id))'
      BY <2>1 DEF MarkingGoesOn, Marking, Sp
    <3>1. phase = "roots" => RootsQueued'
      BY <2>1 DEF CompleteInv, MarkingGoesOn, RootsQueued, Top, Holds
    <3>2. ASSUME phase \in {"mark", "dict"}
          PROVE  \E done \in SUBSET CellIds :
                   Pending(next_ids, done)' /\ (\A id \in done : Kept(id))'
      <4>1. PICK done \in SUBSET CellIds : Pending(next_ids, done) /\ \A id \in done : Kept(id)
        BY <3>2 DEF CompleteInv, MarkingGoesOn
      <4>2. PICK ring : ring = next_ids /\ ring = next_ids'
        BY <2>1
      <4>3. Pending(ring, done)'
        BY <2>1, <4>1, <4>2, PendingSame
      <4> QED BY <2>1, <4>1, <4>2, <4>3 DEF Pending, TwiceQueued, ItemsQueued, Holds, Kept
    <3> QED BY <3>1, <3>2
  <2> QED BY <1>m, <2>2, <2>3 DEF CompleteInv
<1>2. CASE Instruction \/ Update
  <2>1. /\ UNCHANGED <<scan, next_ids>> /\ phase = "run" /\ phase' \in {"run", "roots"}
    BY <1>2, InstructionsCollect
  <2>2. scan = 0 /\ next_ids = EmptyRing(HeapPopMax, DudId)
    BY <2>1 DEF CompleteInv, MarksInv, Idle
  <2>3. RootsQueued'
    <3>1. scan' = 0
      BY <2>1, <2>2
    <3>2. \A pos \in Occupied(next_ids') : next_ids'.slots[pos] = DudId
      BY <2>1, <2>2 DEF EmptyRing, Occupied
    <3> QED BY <3>1, <3>2 DEF RootsQueued
  <2> QED BY <1>m, <2>1, <2>3 DEF CompleteInv, MarkingGoesOn, MarkingDone
<1>3. CASE scan_roots /\ heap_status = "open"
  <2>1. UNCHANGED stack /\ phase' \in {"roots", "mark"}
    BY <1>3 DEF scan_roots, vmVars
  <2>2. ASSUME Sp' >= 2, ~ overflowed'
        PROVE  /\ phase' = "roots" => RootsQueued'
               /\ phase' = "mark" => Pending(next_ids, {})'
    BY <1>3, <2>1, <2>2, ScanGoesOn DEF Sp
  <2>3. MarkingGoesOn'
    BY <2>1, <2>2 DEF MarkingGoesOn
  <2> QED BY <1>m, <2>1, <2>3 DEF CompleteInv, MarkingDone
<1>4. CASE mark_done /\ heap_status = "open"
  <2>1. UNCHANGED stack /\ phase' = "sweep"
    BY <1>4 DEF mark_done, vmVars
  <2>2. MarkingDone'
    BY <1>4, <2>1, DoneMarksAll DEF MarkingDone, Sp
  <2> QED BY <1>m, <2>1, <2>2 DEF CompleteInv, MarkingGoesOn, Marking
<1>5. CASE mark_next /\ heap_status = "open"
  <2>1. UNCHANGED stack /\ phase' \in {"mark", "dict"}
    BY <1>5 DEF mark_next, mark_list, mark_string, mark_dict, mark_upvals, mark_nothing, vmVars
  <2>2. MarkingGoesOn'
    BY <1>5, <2>1, MarkNextGoesOn DEF MarkingGoesOn, Marking, Sp
  <2> QED BY <1>m, <2>1, <2>2 DEF CompleteInv, MarkingDone
<1>6. CASE mark_dict_node /\ heap_status = "open"
  <2>1. UNCHANGED <<cells, items, stack, reach_bits, next_ids, overflowed>>
    BY <1>6, MarkDictNodeTyped DEF mark_dict_node, vmVars, CompleteInv, MarksInv
  <2>2. phase = "dict" /\ phase' \in {"mark", "dict"}
    BY <1>6 DEF mark_dict_node
  <2>3. MarkingGoesOn'
    <3> SUFFICES ASSUME Sp >= 2, ~ overflowed
                 PROVE  \E done \in SUBSET CellIds :
                          Pending(next_ids, done)' /\ (\A id \in done : Kept(id))'
      BY <2>1, <2>2 DEF MarkingGoesOn, Marking, Sp
    <3>1. PICK done \in SUBSET CellIds : Pending(next_ids, done) /\ \A id \in done : Kept(id)
      BY <1>6, <2>2 DEF CompleteInv, MarkingGoesOn, Marking
    <3>2. PICK ring : ring = next_ids /\ ring = next_ids'
      BY <2>1
    <3>3. Pending(ring, done)'
      BY <2>1, <3>1, <3>2, PendingSame
    <3> QED BY <2>1, <3>1, <3>2, <3>3 DEF Pending, TwiceQueued, ItemsQueued, Holds, Kept
  <2> QED BY <1>m, <2>2, <2>3 DEF CompleteInv, MarkingDone
<1>7. CASE sweep
  <2>1. UNCHANGED stack /\ phase' = "sweep"
    BY <1>7 DEF sweep
  <2>2. MarkingDone'
    BY <1>7, <2>1, SweepKeepsMarks DEF MarkingDone, Sp
  <2> QED BY <1>m, <2>1, <2>2 DEF CompleteInv, MarkingGoesOn, Marking
<1>8. CASE sweep_done \/ resume
  <2>1. phase' \in {"make", "run"}
    BY <1>8 DEF sweep_done, resume
  <2> QED BY <1>m, <2>1 DEF CompleteInv, MarkingGoesOn, MarkingDone, Marking
<1> QED BY <1>1, <1>2, <1>3, <1>4, <1>5, <1>6, <1>7, <1>8 DEF Next, Collect

LEMMA AllMarkedSuffices == CompleteInv => MarkComplete
<1> SUFFICES ASSUME CompleteInv, phase = "sweep", Sp >= 2, ~ overflowed,
                    NEW id \in ReachFrom(ObjectsIn(<<Top>>), {"list"}),
                    id < BitsLen, cells[id] \in {"list", "string"}
             PROVE  id \in reach_bits
  BY DEF MarkComplete
<1>0. ProgramTypes
  BY DEF CompleteInv, MarksInv, TypeInv
<1>1. PICK done \in SUBSET CellIds : AllMarked(done)
  BY DEF CompleteInv, MarkingDone
<1> DEFINE ids == {x \in CellIds : ~ Open(x, done)}
<1>2. ObjectsIn(<<Top>>) \ {DudId} \subseteq ids
  BY <1>0, <1>1, TopIs DEF AllMarked, Values
<1>3. ASSUME NEW x \in ids, cells[x] = "list"
      PROVE  ObjectsIn(items[x]) \ {DudId} \subseteq ids
  <2>1. x \in done
    BY <1>3 DEF Open
  <2>2. \A child \in Children(x) : child \in CellIds /\ ~ Open(child, done)
    BY <1>0, <1>1, <1>3, <2>1, ChildrenTyped DEF AllMarked
  <2> QED BY <2>2 DEF Children
<1>4. id \in ids
  <2> HIDE DEF ids
  <2>1. ids \in SUBSET CellIds
    BY DEF ids
  <2> QED BY <1>2, <1>3, <2>1 DEF ReachFrom
<1>5. id \in done /\ id \in Int
  BY <1>4 DEF Open, CellIds
<1>6. Kept(id)
  BY <1>1, <1>5 DEF AllMarked
<1>7. BitsLen \in Int
  BY QueueAssumption DEF BitsLen
<1> QED BY <1>5, <1>6, <1>7 DEF Kept

\* Whatever the program and its data: in a collection whose ring never fills,
\* each list and string with a bit that the top of the stack leads to through
\* lists is marked, although the ring never hands out the id pushed last.
THEOREM CollectorMarksAll == Spec => []MarkComplete
BY CompleteInit, CompleteStep, AllMarkedSuffices, PTL DEF Spec
=============================================================================
