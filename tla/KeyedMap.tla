------------------------------ MODULE KeyedMap ------------------------------
(***************************************************************************)
(* What a dict promises to the handlers that index it: a map from keys to  *)
(* items.  A caller asks for one thing at a time, to get or to set the     *)
(* item of a key; some time later the map answers a get with the item last *)
(* set for that very key, or has changed that key's item and no other.     *)
(* Nothing is said of hashes, trees or searching: Dict implements this.    *)
(***************************************************************************)
CONSTANTS
  Keys, Items,
  None,      \* the item of a key that was never set
  NoCall     \* there is no call in progress

VARIABLES
  map,       \* the item of each key
  call,      \* the request in progress
  answer     \* what the latest get returned

mapVars == <<map, call, answer>>

MapInit ==
  /\ map = [key \in Keys |-> None]
  /\ call = NoCall
  /\ answer = None

Get(key) == [op |-> "get", key |-> key]
Set(key, item) == [op |-> "set", key |-> key, item |-> item]

Ask(request) ==
  /\ call = NoCall
  /\ call' = request
  /\ UNCHANGED <<map, answer>>

Answer(key) ==
  /\ call = Get(key)
  /\ answer' = map[key]
  /\ call' = NoCall
  /\ UNCHANGED map

Change(key, item) ==
  /\ call = Set(key, item)
  /\ map' = [map EXCEPT ![key] = item]
  /\ call' = NoCall
  /\ UNCHANGED answer

MapNext ==
  \E key \in Keys :
    \/ Ask(Get(key)) \/ Answer(key)
    \/ \E item \in Items : Ask(Set(key, item)) \/ Change(key, item)

MapSpec == MapInit /\ [][MapNext]_mapVars
=============================================================================
