--------------------------------- MODULE GC ---------------------------------
(***************************************************************************)
(* The mark & sweep collector (src/src/gc.c) together with the VM          *)
(* instructions that make, move and connect heap objects (src/src/vm.c).   *)
(*                                                                         *)
(* MK_LIST and MK_DICT call GCState_collect before they store their        *)
(* object; strings, closures and exceptions are stored without a           *)
(* collection.  A collection runs to its end inside one instruction; it is *)
(* modelled one loop iteration per step, so that its termination can be    *)
(* asked for, with `phase` as its program counter:                         *)
(*                                                                         *)
(*   "run" --> "roots" --> "mark" --> "sweep" --> "make" --> "run"         *)
(*                         |    ^                                          *)
(*                         "dict"                                          *)
(***************************************************************************)
EXTENDS ObjHeap, SequencesExt

CONSTANTS
  HeapPopMax,  \* max_object_ids: ids in the work queue (256 in the VM)
  U8Bits,      \* BITSET_U8_BITS (8)
  MaxStack,    \* bounds the stack
  MaxItems,    \* bounds the number of items of an object
  MaxCollections  \* bounds the number of collections

\* Objects is the set of kinds of object that a program makes.
ASSUME KindsAssumption == Objects \subseteq {"list", "string", "dict", "err", "closure"}
ASSUME QueueAssumption == HeapPopMax \in Nat \ {0} /\ U8Bits \in Nat \ {0}
ASSUME BoundsAssumption == MaxItems \in Nat
\* obj_closure.c gives the closures no `del`; heap_get's null pointer is no kind.
ASSUME DeletionAssumption ==
  /\ Objects \cap {"closure"} \subseteq NoDel
  /\ NullCell \notin {"list", "string", "dict", "err", "closure"}

VARIABLES
  items,       \* items[id]: list items, dict values, captures, exception data
  stack,       \* stack[1] is the C stack's slot 0
  error_oid,   \* the exception raised last
  phase,
  making,      \* the object the interrupted instruction is about to store
  scan,        \* the loop counter of the root scan and of the sweep
  next_ids,    \* the ring of ids to mark next
  reach_bits,  \* the positions of the bit set that are 1
  dict_nodes,  \* the dict being marked and its ring of tree nodes
  overflowed,  \* history: a push made the ring of ids look empty
  collections  \* history: collections begun

vmVars == <<items, stack, error_oid>>
gcVars == <<phase, making, scan, next_ids, reach_bits, dict_nodes, overflowed,
            collections>>
vars == <<heapVars, vmVars, gcVars>>

(***************************************************************************)
(* A stack slot holds the id of an object, the dud id, or Imm: a value     *)
(* that is no object.  Pos is a node of a dict's tree, 0 the null node.    *)
(***************************************************************************)
Imm == -2
Values == CellIds \cup {DudId, Imm}
IsObject(value) == value # Imm

Sp == Len(stack) - 1
Top == stack[Len(stack)]
PoppedBy(n) == SubSeq(stack, 1, Len(stack) - n)
-----------------------------------------------------------------------------
(***************************************************************************)
(* IdQueue and PtrQueue.  push moves the tail and then stores, pop reads   *)
(* at the head and then moves it: a pop returns what the push before the   *)
(* one it answers stored, the first one the blank of an unused slot.       *)
(***************************************************************************)
EmptyRing(size, blank) ==
  [slots |-> [pos \in 0 .. size - 1 |-> blank], head |-> 0, tail |-> 0]

Exhausted(queue) == queue.head = queue.tail

\* Mutant: positions do not wrap around.
After_NoWrap(queue, pos) == pos + 1

After(queue, pos) == (pos + 1) % Cardinality(DOMAIN queue.slots)

Push(queue, item) ==
  LET tail == After(queue, queue.tail)
  IN  [queue EXCEPT !.tail = tail, !.slots[tail] = item]

AtHead(queue) == queue.slots[queue.head]

\* Mutant: pop leaves the head where it is.
Pop_Stuck(queue) == queue

Pop(queue) == [queue EXCEPT !.head = After(queue, queue.head)]

\* The ring after each turn of a loop that pushes the objects among values.
Pushes(queue, values) ==
  LET ring[n \in 0 .. Len(values)] ==
        IF n = 0 THEN queue
        ELSE IF IsObject(values[n]) THEN Push(ring[n - 1], values[n])
        ELSE ring[n - 1]
  IN  ring

PushAll(queue, values) == Pushes(queue, values)[Len(values)]

\* Whether one of the pushes returned 0.
Overflows(queue, values) ==
  \E n \in 1 .. Len(values) :
    IsObject(values[n]) /\ Exhausted(Pushes(queue, values)[n])

(***************************************************************************)
(* The bit set has BitsLen positions.  BitSet_set_at writes where it is    *)
(* told to: out of bounds the write lands in spare bytes of the block or   *)
(* damages another, and what a damaged process does next is not modelled.  *)
(***************************************************************************)
BitsLen == (HeapPopMax \div U8Bits + 1) * U8Bits

BitSet_set_at(ids) ==
  \/ /\ reach_bits' = reach_bits \cup (ids \cap 0 .. BitsLen - 1)
     /\ UNCHANGED heapVars
  \/ /\ ~ ids \subseteq 0 .. BitsLen - 1
     /\ heap_status' = "crashed"
     /\ UNCHANGED <<cells, free_ids, next_free_id_pos, next_cell_id,
                    tenure_count, cost, last_id, reach_bits>>

NoDict == [id |-> DudId, queue |-> EmptyRing(CellCapacity, 0)]
NoObject == [kind |-> "list", count |-> 0]

Init ==
  /\ HeapInit
  /\ items = [id \in CellIds |-> <<>>]
  /\ stack = <<Imm>>
  /\ error_oid = DudId
  /\ phase = "run"
  /\ making = NoObject
  /\ scan = 0
  /\ next_ids = EmptyRing(HeapPopMax, DudId)
  /\ reach_bits = {}
  /\ dict_nodes = NoDict
  /\ overflowed = FALSE
  /\ collections = 0
-----------------------------------------------------------------------------
(***************************************************************************)
(* Instructions that do not collect.                                       *)
(***************************************************************************)
PushValue(value) ==
  /\ Len(stack) < MaxStack
  /\ stack' = Append(stack, value)
  /\ UNCHANGED <<heapVars, items, error_oid, gcVars>>

put_k == PushValue(Imm)
load_local(slot) == PushValue(stack[slot])
load_err_ref == PushValue(error_oid)

pop ==
  /\ Sp > 0
  /\ stack' = PoppedBy(1)
  /\ UNCHANGED <<heapVars, items, error_oid, gcVars>>

\* Slot 0 is nobody's local here: the main chunk has none.
store_local(slot) ==
  /\ 1 < slot /\ slot < Len(stack)
  /\ stack' = [PoppedBy(1) EXCEPT ![slot] = Top]
  /\ UNCHANGED <<heapVars, items, error_oid, gcVars>>

\* The cell of the object just stored gets its contents; a refused object is
\* lost, and its reference holds the dud id.
Fill(contents) ==
  items' = IF last_id' = DudId THEN items ELSE [items EXCEPT ![last_id'] = contents]

\* Native functions that return a string: vm_put_heap_string and a push.
native_string ==
  /\ "string" \in Objects
  /\ Len(stack) < MaxStack
  /\ heap_store("string")
  /\ Fill(<<>>)
  /\ stack' = Append(stack, last_id')
  /\ UNCHANGED <<error_oid, gcVars>>

\* The captures lie above the id of the lambda's code.
mk_closure(count) ==
  /\ "closure" \in Objects
  /\ count <= MaxItems /\ Sp > count /\ stack[Len(stack) - count] = Imm
  /\ heap_store("closure")
  /\ Fill(SubSeq(stack, Len(stack) - count + 1, Len(stack)))
  /\ stack' = Append(PoppedBy(count + 1), last_id')
  /\ UNCHANGED <<error_oid, gcVars>>

\* RAISE_ERR: the exception is known by error_oid only, which is no root.
raise_err ==
  /\ "err" \in Objects
  /\ Sp > 0
  /\ heap_store("err")
  /\ Fill(<<Top>>)
  /\ error_oid' = last_id'
  /\ stack' = PoppedBy(1)
  /\ UNCHANGED gcVars

\* SET_IDX on <object, key, value>: a list's item n replaced, or the value
\* added at the end of a list (key nil) or under a dict's new key.
set_idx(n) ==
  LET id == stack[Len(stack) - 2] IN
  /\ Sp > 2
  /\ heap_get(id) \in {"list", "dict"}
  /\ n \in 1 .. Len(items[id]) + 1 /\ n <= MaxItems
  /\ items' = [items EXCEPT ![id] = IF n > Len(@) THEN Append(@, Top)
                                                  ELSE [@ EXCEPT ![n] = Top]]
  /\ stack' = PoppedBy(2)
  /\ UNCHANGED <<heapVars, error_oid, gcVars>>
-----------------------------------------------------------------------------
(***************************************************************************)
(* MK_LIST and MK_DICT: collect if the heap is ripe, then store.           *)
(***************************************************************************)
StoreMade(kind, count) ==
  /\ heap_store(kind)
  /\ Fill(SubSeq(stack, Len(stack) - count + 1, Len(stack)))
  /\ stack' = Append(PoppedBy(count), last_id')
  /\ UNCHANGED <<error_oid, next_ids, reach_bits, dict_nodes, overflowed>>

Make(kind, count) ==
  \/ /\ ~ heap_is_ripe
     /\ StoreMade(kind, count)
     /\ UNCHANGED <<phase, making, scan, collections>>
  \/ /\ heap_is_ripe
     /\ collections < MaxCollections
     /\ collections' = collections + 1
     /\ phase' = "roots"
     /\ making' = [kind |-> kind, count |-> count]
     /\ UNCHANGED <<heapVars, vmVars, scan, next_ids, reach_bits, dict_nodes, overflowed>>

mk_list(count) ==
  /\ "list" \in Objects
  /\ count <= MaxItems /\ count <= Sp /\ Len(stack) - count < MaxStack
  /\ Make("list", count)

mk_dict ==
  /\ "dict" \in Objects
  /\ Len(stack) < MaxStack
  /\ Make("dict", 0)

\* The rest of the instruction, once the collection is over.
resume ==
  /\ phase = "make"
  /\ StoreMade(making.kind, making.count)
  /\ phase' = "run"
  /\ making' = NoObject
  /\ UNCHANGED <<scan, collections>>
-----------------------------------------------------------------------------
(***************************************************************************)
(* GCState_collect.                                                        *)
(***************************************************************************)
\* The loop over the stack looks at the top slot each time, Sp times; a push
\* that fills the ring ends it.
scan_roots ==
  LET pushed == IF IsObject(Top) THEN Push(next_ids, Top) ELSE next_ids
      full == IsObject(Top) /\ Exhausted(pushed)
  IN
  /\ phase = "roots"
  /\ IF scan < Sp
     THEN /\ next_ids' = pushed
          /\ overflowed' = (overflowed \/ full)
          /\ scan' = scan + 1
          /\ phase' = IF full THEN "mark" ELSE "roots"
     ELSE /\ phase' = "mark"
          /\ UNCHANGED <<scan, next_ids, overflowed>>
  /\ UNCHANGED <<heapVars, vmVars, making, reach_bits, dict_nodes>>

mark_done ==
  /\ phase = "mark" /\ Exhausted(next_ids)
  /\ phase' = "sweep"
  /\ scan' = 0
  /\ UNCHANGED <<heapVars, vmVars, making, next_ids, reach_bits, dict_nodes, overflowed>>

\* The objects a value refers to.
ObjectsIn(values) == {value \in ToSet(values) : IsObject(value)}

\* Mutant: a list's items are queued, the list itself is not marked.
mark_list_ItemsOnly(id) ==
  /\ next_ids' = PushAll(Pop(next_ids), items[id])
  /\ overflowed' = (overflowed \/ Overflows(Pop(next_ids), items[id]))
  /\ UNCHANGED <<heapVars, reach_bits, phase, dict_nodes>>

\* A list is marked and its items queued; a string is marked.
mark_list(id) ==
  /\ BitSet_set_at({id})
  /\ next_ids' = PushAll(Pop(next_ids), items[id])
  /\ overflowed' = (overflowed \/ Overflows(Pop(next_ids), items[id]))
  /\ UNCHANGED <<phase, dict_nodes>>

mark_string(id) ==
  /\ BitSet_set_at({id})
  /\ next_ids' = Pop(next_ids)
  /\ UNCHANGED <<phase, dict_nodes, overflowed>>

\* A closure's captures are marked, not followed; the closure is not marked.
mark_upvals(id) ==
  /\ BitSet_set_at(ObjectsIn(items[id]))
  /\ next_ids' = Pop(next_ids)
  /\ UNCHANGED <<phase, dict_nodes, overflowed>>

mark_dict(id) ==
  /\ dict_nodes' =
       [id |-> id, queue |-> Push(NoDict.queue, IF items[id] = <<>> THEN 0 ELSE 1)]
  /\ phase' = "dict"
  /\ next_ids' = Pop(next_ids)
  /\ UNCHANGED <<heapVars, reach_bits, overflowed>>

\* The dud id, an id whose cell is empty and an exception are passed over.
mark_nothing ==
  /\ next_ids' = Pop(next_ids)
  /\ UNCHANGED <<heapVars, phase, reach_bits, dict_nodes, overflowed>>

mark_next ==
  LET id == AtHead(next_ids) IN
  /\ phase = "mark" /\ ~ Exhausted(next_ids)
  /\ \/ heap_get(id) = "list" /\ mark_list(id)
     \/ heap_get(id) = "string" /\ mark_string(id)
     \/ heap_get(id) = "dict" /\ mark_dict(id)
     \/ heap_get(id) = "closure" /\ mark_upvals(id)
     \/ heap_get(id) \in {NullCell, "err"} /\ mark_nothing
  /\ UNCHANGED <<vmVars, making, scan>>

\* GCState_mark_dict_nodes: the value of the popped node is marked, and the
\* node's children queued.  The tree is a chain here, node n + 1 under node n,
\* as keys inserted in the order of their hashes make it.
mark_dict_node ==
  LET queue == dict_nodes.queue
      node == AtHead(queue)
      values == items[dict_nodes.id]
  IN
  /\ phase = "dict"
  /\ IF Exhausted(queue)
     THEN /\ phase' = "mark"
          /\ dict_nodes' = NoDict
          /\ UNCHANGED <<heapVars, reach_bits>>
     ELSE IF node = 0
     THEN /\ dict_nodes' = [dict_nodes EXCEPT !.queue = Pop(queue)]
          /\ UNCHANGED <<heapVars, phase, reach_bits>>
     ELSE /\ BitSet_set_at({values[node]} \ {Imm})
          /\ dict_nodes' = [dict_nodes EXCEPT !.queue =
               IF node < Len(values) THEN Push(Pop(queue), node + 1) ELSE Pop(queue)]
          /\ UNCHANGED phase
  /\ UNCHANGED <<vmVars, making, scan, next_ids, overflowed>>

\* Each unmarked id below BitsLen is erased, whether or not its cell is in use.
sweep ==
  /\ phase = "sweep" /\ scan < BitsLen
  /\ IF scan \in reach_bits THEN UNCHANGED <<heapVars, items>>
     ELSE /\ heap_erase(scan)
          /\ items' = [id \in CellIds |->
               IF id = scan /\ cells'[id] = NullCell THEN <<>> ELSE items[id]]
  /\ scan' = scan + 1
  /\ UNCHANGED <<stack, error_oid, phase, making, next_ids, reach_bits, dict_nodes, overflowed>>

\* Mutant: the bits of this collection stay set for the next one.
sweep_done_KeepBits ==
  /\ phase = "sweep" /\ scan = BitsLen
  /\ next_ids' = EmptyRing(HeapPopMax, DudId)
  /\ overflowed' = FALSE
  /\ phase' = "make"
  /\ scan' = 0
  /\ UNCHANGED <<heapVars, vmVars, making, reach_bits, dict_nodes>>

\* Mutant: the sweep stops short of the last bit.
sweep_done_Early ==
  /\ phase = "sweep" /\ scan = BitsLen - 1
  /\ reach_bits' = {}
  /\ next_ids' = EmptyRing(HeapPopMax, DudId)
  /\ overflowed' = FALSE
  /\ phase' = "make"
  /\ scan' = 0
  /\ UNCHANGED <<heapVars, vmVars, making, dict_nodes>>

\* BitSet_clear and IdQueue_reset.
sweep_done ==
  /\ phase = "sweep" /\ scan = BitsLen
  /\ reach_bits' = {}
  /\ next_ids' = EmptyRing(HeapPopMax, DudId)
  /\ overflowed' = FALSE
  /\ phase' = "make"
  /\ scan' = 0
  /\ UNCHANGED <<heapVars, vmVars, making, dict_nodes>>

Collect ==
  /\ heap_status = "open"
  /\ \/ /\ scan_roots \/ mark_next \/ mark_done \/ mark_dict_node \/ sweep \/ sweep_done
        /\ UNCHANGED collections
     \/ resume

Instruction ==
  /\ heap_status = "open" /\ phase = "run"
  /\ \/ put_k \/ load_err_ref \/ pop \/ native_string \/ raise_err \/ mk_dict
     \/ \E slot \in 1 .. Len(stack) : load_local(slot) \/ store_local(slot)
     \/ \E count \in 0 .. MaxItems : mk_list(count) \/ mk_closure(count)

Update ==
  /\ heap_status = "open" /\ phase = "run"
  /\ \E n \in 1 .. MaxItems : set_idx(n)

Next == Instruction \/ Update \/ Collect

Spec == Init /\ [][Next]_vars

\* A collection, once begun, runs on: the VM has one thread.
FairSpec == Spec /\ WF_vars(Collect)
-----------------------------------------------------------------------------
(***************************************************************************)
(* Properties.                                                             *)
(***************************************************************************)
Rings(size, contents) ==
  [slots : [0 .. size - 1 -> contents], head : 0 .. size - 1, tail : 0 .. size - 1]

GCTypeOK ==
  /\ HeapTypeOK
  /\ items \in [CellIds -> Seq(Values)]
  /\ stack \in Seq(Values) /\ stack # <<>>
  /\ error_oid \in CellIds \cup {DudId}
  /\ phase \in {"run", "roots", "mark", "dict", "sweep", "make"}
  /\ making \in [kind : {"list", "dict"}, count : 0 .. Sp]
  /\ scan \in Nat
  /\ next_ids \in Rings(HeapPopMax, CellIds \cup {DudId})
  /\ reach_bits \subseteq CellIds \cap 0 .. BitsLen - 1
  /\ dict_nodes \in [id : CellIds \cup {DudId},
                     queue : Rings(CellCapacity, 0 .. MaxItems)]
  /\ overflowed \in BOOLEAN

\* The ids a program can come to from the ids in roots, through the live
\* objects of the given kinds.
ReachFrom(roots, kinds) ==
  LET Closed(ids) == \A id \in ids :
                       cells[id] \in kinds => ObjectsIn(items[id]) \ {DudId} \subseteq ids
  IN  {id \in CellIds : \A ids \in SUBSET CellIds :
                          roots \ {DudId} \subseteq ids /\ Closed(ids) => id \in ids}

\* The heap's books balance through collections that end early, find nothing
\* or erase what is in use: no id is free twice, no cell lost, none charged for
\* and gone (GCState_collect's calls of heap_erase, vm.c's of heap_store).
BooksBalance == FreeListSound /\ NoCellLost /\ FreePlusLive /\ CostCountsLive

\* The collector marks nothing that the top of the stack does not lead to:
\* no stale bit of an earlier collection, no blank slot of a ring, no id read
\* beyond the queued ones keeps an object alive.
MarksReachable == reach_bits \subseteq ReachFrom(ObjectsIn(<<Top>>), Objects)

\* When the ids to mark run out, each list and string that the top of the
\* stack leads to through lists is marked, if it has a bit.  The ring never
\* hands out the id pushed last; but the top is pushed once for each slot
\* below it, and a second push is enough to make up for the lost one.  Only a
\* push that fills the ring loses more.
MarkComplete ==
  phase = "sweep" /\ Sp >= 2 /\ ~ overflowed =>
    \A id \in ReachFrom(ObjectsIn(<<Top>>), {"list"}) :
      id < BitsLen /\ cells[id] \in {"list", "string"} => id \in reach_bits

\* A collection that ends leaves no garbage below BitsLen: what is still
\* there can be reached from the top of the stack.
GarbageBelowBitsGoes ==
  [][sweep_done => \A id \in LiveIds : id < BitsLen =>
       id \in ReachFrom(ObjectsIn(<<Top>>), Objects)]_vars

\* No list leads back to itself.  A program that never stores into a list can
\* still break this, since an id that is used after its object was erased may
\* name a newer list that holds it.
AcyclicLists ==
  \A id \in CellIds : cells[id] = "list" =>
    id \notin ReachFrom(ObjectsIn(items[id]), {"list"})

Finished == phase = "make" \/ heap_status = "crashed"

\* A collection of a heap whose lists are acyclic ends (GCState_collect, the
\* loop on next_ids), whatever the ring drops, unless the process dies.  The
\* search "for those not in bitset" of gc.c:241 does not look into the bit set:
\* of a list that holds itself it finds no end.
AcyclicCollectionEnds == (phase = "roots" /\ AcyclicLists) ~> Finished

\* gc.c:200 allows that used objects are collected "on heavy workloads (which
\* TBasic is not meant for)": otherwise no object that a slot of the stack
\* leads to is erased.
UsedObjectsStay ==
  [][sweep => \A id \in LiveIds \cap ReachFrom(ObjectsIn(stack), Objects) :
       cells'[id] = cells[id]]_vars
=============================================================================
