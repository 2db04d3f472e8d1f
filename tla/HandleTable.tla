---------------------------- MODULE HandleTable ----------------------------
(***************************************************************************)
(* What an object heap promises to the virtual machine that keeps its      *)
(* objects there: a table from small integer handles to objects.  Storing  *)
(* an object yields a handle that no other object has, or the dud handle   *)
(* when every handle is taken; releasing a handle destroys its object.     *)
(* Nothing is said of which free handle is chosen, nor of free lists,      *)
(* watermarks or costs: ObjHeap implements this specification.             *)
(***************************************************************************)
EXTENDS Integers

CONSTANTS
  Handles,   \* the handles there are
  Objects,   \* the objects that may be stored
  NoDel,     \* the objects that cannot be destroyed (they have no destructor)
  NoOwner,   \* marks a handle that has no object
  DudId      \* the result of storing into a full table

VARIABLES
  owner,     \* the object of each handle, or NoOwner
  last_id,   \* the result of the latest attempt to store
  status     \* "open" | "closed" | "crashed"

tableVars == <<owner, last_id, status>>

Taken(h) == owner[h] # NoOwner

TableInit ==
  /\ owner = [h \in Handles |-> NoOwner]
  /\ last_id = DudId
  /\ status = "open"

Store(object) ==
  \E h \in Handles :
    /\ ~ Taken(h)
    /\ owner' = [owner EXCEPT ![h] = object]
    /\ last_id' = h
    /\ UNCHANGED status

\* Only a full table may refuse an object.
Refuse ==
  /\ \A h \in Handles : Taken(h)
  /\ last_id' = DudId
  /\ UNCHANGED <<owner, status>>

Release(h) ==
  /\ Taken(h)
  /\ owner[h] \notin NoDel
  /\ owner' = [owner EXCEPT ![h] = NoOwner]
  /\ UNCHANGED <<last_id, status>>

\* Releasing what is not there, or what has no destructor, ends the process.
Crash(h) ==
  /\ ~ Taken(h) \/ owner[h] \in NoDel
  /\ status' = "crashed"
  /\ UNCHANGED <<owner, last_id>>

Close ==
  /\ status' = "closed"
  /\ UNCHANGED <<owner, last_id>>

TableNext ==
  /\ status = "open"
  /\ \/ \E object \in Objects : Store(object)
     \/ Refuse
     \/ \E h \in Handles : Release(h) \/ Crash(h)
     \/ Close

TableSpec == TableInit /\ [][TableNext]_tableVars
=============================================================================
