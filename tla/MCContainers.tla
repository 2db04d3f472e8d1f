---------------------------- MODULE MCContainers ----------------------------
(***************************************************************************)
(* The object heap, the containers behind list[key], dict[key] and         *)
(* string[key], and the vectors of the compiler.  A behaviour uses one of  *)
(* them; which one is chosen at the start.                                 *)
(***************************************************************************)
EXTENDS ObjHeap, Dict, Buffers

CONSTANTS a, b   \* items

VARIABLE container

\* Objects of the heap: closures have no destructor.
MCObjects == {"list", "string", "closure"}
MCNoDel == {"closure"}

Key(tag, payload) == [tag |-> tag, data |-> payload]

\* Keys whose hashes differ: 0, 1, 25 and the largest, of the payload -1.
MCKeys == {Key("nil", 0), Key("bool", 0), Key("int", 65536), Key("int", -1)}

MCItems == {a, b}
MCIndices == -1 .. 6

MCInit ==
  /\ HeapInit /\ DictInit /\ BufferInit
  /\ container \in {"heap", "dict", "buffer"}
  /\ container # "buffer" => kind = "list" /\ capacity = 1

\* A heap that crashed or was deleted stays; the others never stop.
HeapStopped == heap_status # "open" /\ UNCHANGED heapVars

MCNext ==
  /\ \/ container = "heap" /\ (HeapNext \/ HeapStopped) /\ UNCHANGED <<dictVars, bufferVars>>
     \/ container = "dict" /\ DictNext /\ UNCHANGED <<heapVars, bufferVars>>
     \/ container = "buffer" /\ BufferNext /\ UNCHANGED <<heapVars, dictVars>>
  /\ UNCHANGED container

MCSpec ==
  /\ MCInit
  /\ [][MCNext]_<<heapVars, dictVars, bufferVars, container>>
  /\ WF_dictVars(DictStep)
=============================================================================
