------------------------------ MODULE ObjHeap ------------------------------
(***************************************************************************)
(* The object heap of the VM: src/src/objects.c.  An object is known to    *)
(* the program by the index of its cell (a value of tag vtag_obj_id holds  *)
(* that index).  Cells are handed out in order up to a watermark,          *)
(* next_cell_id; the ids of erased cells are kept on a stack, free_ids,    *)
(* which is consulted first.  Each stored object adds OBJECT_COST to cost, *)
(* the number the garbage collector compares with cost_to_gc.              *)
(*                                                                         *)
(* One action per function that changes the heap.  The heap is used by one *)
(* thread, so that a call is a step.                                       *)
(***************************************************************************)
EXTENDS Integers, FiniteSets

CONSTANTS
  CellCapacity,  \* cells in the heap (DEFAULT_HEAP_CAPACITY, 512 in the VM)
  Objects,       \* the objects that may be stored
  NoDel,         \* objects whose table of functions has no `del`
  NullCell       \* the null pointer

OBJECT_COST == 64
DudId == -1      \* DUD_HEAP_ID
CellIds == 0 .. CellCapacity - 1

ASSUME CapacityAssumption == CellCapacity \in Nat \ {0}
ASSUME ObjectsAssumption == NullCell \notin Objects /\ NoDel \subseteq Objects

VARIABLES
  cells,             \* cells[id]: the object of the cell, or NullCell
  free_ids,          \* the buffer of the stack of erased ids
  next_free_id_pos,  \* its top; -1 when it is empty
  next_cell_id,      \* cells from here on were never handed out
  tenure_count,      \* cells below are never erased
  cost,              \* the heap's overhead
  last_id,           \* what the latest heap_store returned
  heap_status        \* "open" | "closed" (heap_del) | "crashed"

heapVars == <<cells, free_ids, next_free_id_pos, next_cell_id, tenure_count,
              cost, last_id, heap_status>>

LiveIds == {id \in CellIds : cells[id] # NullCell}
FreeIds == {free_ids[pos] : pos \in 0 .. next_free_id_pos}

(***************************************************************************)
(* heap_new and heap_dud.                                                  *)
(***************************************************************************)
CostToGc == (CellCapacity * 2 * OBJECT_COST) \div 3

HeapInit ==
  /\ cells = [id \in CellIds |-> NullCell]
  /\ free_ids = [pos \in CellIds |-> 0]
  /\ next_free_id_pos = -1
  /\ next_cell_id = 0
  /\ tenure_count = 0
  /\ cost = 0
  /\ last_id = DudId
  /\ heap_status = "open"

\* Mutant: ripe when the threshold is reached.
heap_is_ripe_Reached == cost >= CostToGc

heap_is_ripe == cost > CostToGc

(***************************************************************************)
(* heap_gen_id: the id it returns, and what it leaves of the heap.         *)
(***************************************************************************)
GeneratedId ==
  IF next_free_id_pos >= 0 THEN free_ids[next_free_id_pos]
  ELSE IF next_cell_id < CellCapacity THEN next_cell_id
  ELSE DudId

\* Mutant: the id on top of the stack is read but not popped.
heap_gen_id_NoPop ==
  IF next_free_id_pos >= 0 THEN UNCHANGED <<next_free_id_pos, next_cell_id>>
  ELSE /\ next_cell_id' = IF next_cell_id < CellCapacity THEN next_cell_id + 1
                                                         ELSE next_cell_id
       /\ UNCHANGED next_free_id_pos

heap_gen_id ==
  IF next_free_id_pos >= 0
  THEN /\ next_free_id_pos' = next_free_id_pos - 1
       /\ UNCHANGED next_cell_id
  ELSE /\ next_cell_id' = IF next_cell_id < CellCapacity THEN next_cell_id + 1
                                                         ELSE next_cell_id
       /\ UNCHANGED next_free_id_pos

(***************************************************************************)
(* heap_store: a refused object is neither kept nor paid for.              *)
(***************************************************************************)
heap_store(object) ==
  /\ heap_gen_id
  /\ last_id' = GeneratedId
  /\ IF GeneratedId = DudId
     THEN UNCHANGED <<cells, cost>>
     ELSE /\ cells' = [cells EXCEPT ![GeneratedId] = object]
          /\ cost' = cost + OBJECT_COST
  /\ UNCHANGED <<free_ids, tenure_count, heap_status>>

(***************************************************************************)
(* heap_erase, with heap_reserve_id.  The guard looks at the id only; the  *)
(* function then calls target->del.  For a cell that is empty already, or  *)
(* an object without `del`, that is a call through a null pointer: the     *)
(* process dies there, and nothing after it is part of the model.          *)
(***************************************************************************)
Erasable(id) == tenure_count <= id /\ id < next_cell_id

\* Mutant: the id is stored before the stack pointer moves.
heap_reserve_id_StoreFirst(id) ==
  /\ free_ids' = [pos \in CellIds |-> IF pos = next_free_id_pos THEN id ELSE free_ids[pos]]
  /\ next_free_id_pos' = next_free_id_pos + 1

heap_reserve_id(id) ==
  /\ next_free_id_pos' = next_free_id_pos + 1
  /\ free_ids' = [free_ids EXCEPT ![next_free_id_pos + 1] = id]

\* Mutant: the erased cell keeps its dangling pointer.
heap_erase_KeepCell(id) ==
  \/ ~ Erasable(id) /\ UNCHANGED heapVars
  \/ /\ Erasable(id)
     /\ cells[id] \notin NoDel \cup {NullCell}
     /\ cost' = cost - OBJECT_COST
     /\ heap_reserve_id(id)
     /\ UNCHANGED <<cells, next_cell_id, tenure_count, last_id, heap_status>>

heap_erase(id) ==
  \/ /\ ~ Erasable(id)
     /\ UNCHANGED heapVars
  \/ /\ Erasable(id)
     /\ cells[id] \in NoDel \cup {NullCell}
     /\ heap_status' = "crashed"
     /\ UNCHANGED <<cells, free_ids, next_free_id_pos, next_cell_id,
                    tenure_count, cost, last_id>>
  \/ /\ Erasable(id)
     /\ cells[id] \notin NoDel \cup {NullCell}
     /\ cells' = [cells EXCEPT ![id] = NullCell]
     /\ cost' = cost - OBJECT_COST
     /\ heap_reserve_id(id)
     /\ UNCHANGED <<next_cell_id, tenure_count, last_id, heap_status>>

heap_tenure ==
  /\ tenure_count' = next_cell_id
  /\ UNCHANGED <<cells, free_ids, next_free_id_pos, next_cell_id, cost,
                 last_id, heap_status>>

\* heap_get and heap_getm.
heap_get(id) == IF id < 0 \/ id >= next_cell_id THEN NullCell ELSE cells[id]

\* heap_del releases the arrays; no function may be called afterwards.
heap_del ==
  /\ heap_status' = "closed"
  /\ UNCHANGED <<cells, free_ids, next_free_id_pos, next_cell_id,
                 tenure_count, cost, last_id>>

HeapNext ==
  /\ heap_status = "open"
  /\ \/ \E object \in Objects : heap_store(object)
     \/ \E id \in CellIds : heap_erase(id)
     \/ heap_tenure
     \/ heap_del

HeapSpec == HeapInit /\ [][HeapNext]_heapVars
-----------------------------------------------------------------------------
(***************************************************************************)
(* Properties.                                                             *)
(***************************************************************************)
HeapTypeOK ==
  /\ cells \in [CellIds -> Objects \cup {NullCell}]
  /\ free_ids \in [CellIds -> CellIds]
  /\ next_free_id_pos \in -1 .. CellCapacity - 1
  /\ next_cell_id \in 0 .. CellCapacity
  /\ tenure_count \in 0 .. CellCapacity
  /\ cost \in Nat
  /\ last_id \in CellIds \cup {DudId}
  /\ heap_status \in {"open", "closed", "crashed"}

\* The stack of free ids holds no id twice, and only ids of cells that were
\* handed out and are now empty (objects.c, heap_gen_id and heap_reserve_id):
\* what heap_gen_id pops next is never the cell of a live object.
FreeListSound ==
  /\ \A i, j \in 0 .. next_free_id_pos : free_ids[i] = free_ids[j] => i = j
  /\ \A id \in FreeIds : id < next_cell_id /\ cells[id] = NullCell

\* No cell is lost: one below the watermark is live or on the free list, one
\* above it was never used.  heap_gen_id returns the dud id only when this
\* leaves nothing.
NoCellLost ==
  /\ \A id \in 0 .. next_cell_id - 1 : cells[id] = NullCell => id \in FreeIds
  /\ \A id \in next_cell_id .. CellCapacity - 1 : cells[id] = NullCell

\* The free list and the live cells together make up the cells handed out, by
\* number; with a live cell about to be erased, the free list has room for it
\* (heap_reserve_id stores without looking at the capacity).
FreePlusLive == next_free_id_pos + 1 + Cardinality(LiveIds) = next_cell_id

\* The collector's trigger is exact: cost is OBJECT_COST for each live object,
\* whatever was stored, refused and erased before.
CostCountsLive == cost = OBJECT_COST * Cardinality(LiveIds)

\* objects.c:28, "66% --> GC triggers": the heap is ripe when, and only when,
\* more than two thirds of its cells are live.  The division in heap_dud loses
\* nothing that the comparison with cost could show.
RipeAtTwoThirds == heap_is_ripe <=> 3 * Cardinality(LiveIds) > 2 * CellCapacity

\* The books of the heap balance, in every order of stores and erasures: what is on
\* the free list, what is live and what is charged for agree (heap_store, heap_erase).
\* The conjuncts hold only together: this is the inductive invariant.
HeapInv ==
  /\ HeapTypeOK
  /\ FreeListSound
  /\ NoCellLost
  /\ FreePlusLive
  /\ CostCountsLive

\* A step never puts another object in the cell of a live one: an id held in a
\* variable or a list goes on meaning the same object until it is erased.
NoOverwrite ==
  [][\A id \in LiveIds : cells'[id] \in {cells[id], NullCell}]_heapVars

\* A live object below the tenure mark stays where it is for good, although
\* ids below the mark that were free are still handed out again.
TenuredStay ==
  [][\A id \in LiveIds : id < tenure_count => cells'[id] = cells[id]]_heapVars

\* The heap implements the table of handles.
Table == INSTANCE HandleTable WITH
           Handles <- CellIds, NoOwner <- NullCell, owner <- cells,
           status <- heap_status
ImplementsTable == Table!TableSpec
=============================================================================
