-------------------------------- MODULE Dict --------------------------------
(***************************************************************************)
(* src/src/obj_dict.c: a dict is a binary search tree over the hashes of   *)
(* its keys; the keys themselves are not kept.  dict_get_v_fn and          *)
(* dict_set_v_fn go down from the root, one iteration of their loops per   *)
(* step.  Nodes are never moved, nor freed before the dict itself.         *)
(*                                                                         *)
(* A key is a tag with the 32 bits of its payload as a signed integer; a   *)
(* node is known by its position in `nodes`, the order of allocation.      *)
(* Allocations succeed.                                                    *)
(***************************************************************************)
EXTENDS Integers, Sequences

CONSTANTS Keys, Items, None

ValTags == {"nil", "bool", "int", "real", "strid", "obj_id"}

ASSUME KeysAssumption == Keys \subseteq [tag : ValTags, data : Int]

VARIABLES
  nodes, root,       \* the tree
  call,              \* the get or set in progress
  curr, prev, curr_was_left,   \* where its search is
  answer,            \* what the latest get returned
  limits             \* history: the hashes between which a node's subtree lies

searchVars == <<curr, prev, curr_was_left>>
dictVars == <<nodes, root, call, searchVars, answer, limits>>

NULL == 0
NoCall == [op |-> "none"]
Gets == [op : {"get"}, key : Keys]
Sets == [op : {"set"}, key : Keys, item : Items]

(***************************************************************************)
(* hash_value: the four bytes of the payload, added up with weights.       *)
(***************************************************************************)
Scalar(key) ==
  CASE key.tag = "nil" -> 0
    [] key.tag = "bool" -> 1 + 2 * key.data
    [] OTHER -> key.data

\* Mutant: the upper half of the payload is forgotten.
hash_value_Low(key) == (Scalar(key) % 256) + 5 * ((Scalar(key) \div 256) % 256)

hash_value(key) ==
  LET scalar == Scalar(key)
  IN  (scalar % 256)
        + 5 * ((scalar \div 256) % 256)
        + 25 * ((scalar \div 65536) % 256)
        + 125 * ((scalar \div 16777216) % 256)

HashLimit == 1 + 255 * (1 + 5 + 25 + 125)

\* Dicts mix up two keys with the same hash, whatever their tags.
DistinctHashes ==
  \A key, other \in Keys : hash_value(key) = hash_value(other) => key = other

DictInit ==
  /\ nodes = <<>> /\ root = NULL
  /\ call = NoCall
  /\ curr = NULL /\ prev = NULL /\ curr_was_left = FALSE
  /\ answer = None
  /\ limits = <<>>
-----------------------------------------------------------------------------
(***************************************************************************)
(* The search.                                                             *)
(***************************************************************************)
Begin(request) ==
  /\ call = NoCall
  /\ call' = request
  /\ curr' = root /\ prev' = NULL /\ curr_was_left' = FALSE
  /\ UNCHANGED <<nodes, root, answer, limits>>

dict_get_v_fn(key) == Begin([op |-> "get", key |-> key])
dict_set_v_fn(key, item) == Begin([op |-> "set", key |-> key, item |-> item])

Searching == call # NoCall
Hash == hash_value(call.key)

GoLeft ==
  /\ Searching /\ curr # NULL /\ Hash < nodes[curr].hash
  /\ prev' = curr /\ curr' = nodes[curr].l /\ curr_was_left' = TRUE
  /\ UNCHANGED <<nodes, root, call, answer, limits>>

\* Mutant: the search stays where it is.
GoRight_Stay ==
  /\ Searching /\ curr # NULL /\ Hash > nodes[curr].hash
  /\ prev' = curr /\ curr_was_left' = FALSE
  /\ UNCHANGED <<nodes, root, call, curr, answer, limits>>

\* Mutant: the flag keeps the turn before.
GoRight_KeepFlag ==
  /\ Searching /\ curr # NULL /\ Hash > nodes[curr].hash
  /\ prev' = curr /\ curr' = nodes[curr].r
  /\ UNCHANGED <<nodes, root, call, curr_was_left, answer, limits>>

GoRight ==
  /\ Searching /\ curr # NULL /\ Hash > nodes[curr].hash
  /\ prev' = curr /\ curr' = nodes[curr].r /\ curr_was_left' = FALSE
  /\ UNCHANGED <<nodes, root, call, answer, limits>>

Found == Searching /\ curr # NULL /\ nodes[curr].hash = Hash
Missed == Searching /\ curr = NULL

Return ==
  /\ call' = NoCall
  /\ curr' = NULL /\ prev' = NULL /\ curr_was_left' = FALSE

(***************************************************************************)
(* The ends of ptree_get and ptree_set.                                    *)
(***************************************************************************)
GetFound ==
  /\ call.op = "get" /\ Found
  /\ answer' = nodes[curr].data
  /\ Return /\ UNCHANGED <<nodes, root, limits>>

GetMissed ==
  /\ call.op = "get" /\ Missed
  /\ answer' = None
  /\ Return /\ UNCHANGED <<nodes, root, limits>>

SetFound ==
  /\ call.op = "set" /\ Found
  /\ nodes' = [nodes EXCEPT ![curr].data = call.item]
  /\ Return /\ UNCHANGED <<root, answer, limits>>

alloc_prop_node == [hash |-> Hash, data |-> call.item, l |-> NULL, r |-> NULL]
NewNode == Len(nodes) + 1

SetFirst ==
  /\ call.op = "set" /\ Missed /\ root = NULL
  /\ nodes' = Append(nodes, alloc_prop_node)
  /\ root' = NewNode
  /\ limits' = Append(limits, [low |-> -1, high |-> HashLimit])
  /\ Return /\ UNCHANGED answer

SetLeft ==
  /\ call.op = "set" /\ Missed /\ root # NULL /\ curr_was_left
  /\ nodes' = Append([nodes EXCEPT ![prev].l = NewNode], alloc_prop_node)
  /\ limits' = Append(limits, [low |-> limits[prev].low, high |-> nodes[prev].hash])
  /\ Return /\ UNCHANGED <<root, answer>>

SetRight ==
  /\ call.op = "set" /\ Missed /\ root # NULL /\ ~ curr_was_left
  /\ nodes' = Append([nodes EXCEPT ![prev].r = NewNode], alloc_prop_node)
  /\ limits' = Append(limits, [low |-> nodes[prev].hash, high |-> limits[prev].high])
  /\ Return /\ UNCHANGED <<root, answer>>

DictStep ==
  GoLeft \/ GoRight \/ GetFound \/ GetMissed \/ SetFound \/ SetFirst \/ SetLeft \/ SetRight

DictNext ==
  \/ \E key \in Keys :
       \/ dict_get_v_fn(key)
       \/ \E item \in Items : dict_set_v_fn(key, item)
  \/ DictStep

DictSpec == DictInit /\ [][DictNext]_dictVars

\* The functions run to their ends; nobody has to call them.
DictFairSpec == DictSpec /\ WF_dictVars(DictStep)
-----------------------------------------------------------------------------
(***************************************************************************)
(* Properties.                                                             *)
(***************************************************************************)
Node == [hash : Nat, data : Items, l : Nat, r : Nat]
Span == [low : Int, high : Int]

DictTypeOK ==
  /\ nodes \in Seq(Node)
  /\ root \in 0 .. Len(nodes) /\ (root = NULL <=> nodes = <<>>)
  /\ \A n \in DOMAIN nodes : {nodes[n].l, nodes[n].r} \subseteq 0 .. Len(nodes)
  /\ call \in Gets \cup Sets \cup {NoCall}
  /\ curr \in 0 .. Len(nodes) /\ prev \in 0 .. Len(nodes)
  /\ curr_was_left \in BOOLEAN
  /\ answer \in Items \cup {None}
  /\ limits \in Seq(Span)
  /\ Len(limits) = Len(nodes)

\* A hash that belongs below a node on its left, and on its right.
BelowLeft(n, hash) == limits[n].low < hash /\ hash < nodes[n].hash
BelowRight(n, hash) == nodes[n].hash < hash /\ hash < limits[n].high

\* The subtree of `other` lies below n, on one side.
Under(n, other) ==
  \/ /\ nodes[n].l # NULL
     /\ limits[n].low <= limits[other].low /\ limits[other].high <= nodes[n].hash
  \/ /\ nodes[n].r # NULL
     /\ nodes[n].hash <= limits[other].low /\ limits[other].high <= limits[n].high

\* A node and its subtrees lie between the node's limits, and a child has the
\* half its side says.
SpansNest(n) ==
  /\ limits[n].low < nodes[n].hash /\ nodes[n].hash < limits[n].high
  /\ nodes[n].l # NULL =>
       limits[nodes[n].l] = [low |-> limits[n].low, high |-> nodes[n].hash]
  /\ nodes[n].r # NULL =>
       limits[nodes[n].r] = [low |-> nodes[n].hash, high |-> limits[n].high]

Apart(n, other) == limits[n].high <= limits[other].low \/ limits[other].high <= limits[n].low

\* The tree searches: every node's subtrees are where a search looks for them,
\* and of any two nodes one is below the other or they share no hash
\* (ptree_set, obj_dict.c:116).
SearchTree ==
  /\ \A n \in DOMAIN nodes : SpansNest(n)
  /\ \A n, other \in DOMAIN nodes :
       n = other \/ Under(n, other) \/ Under(other, n) \/ Apart(n, other)
  /\ root # NULL => limits[root] = [low |-> -1, high |-> HashLimit]

\* What a search knows: the hash belongs below where it is, and if it has come
\* to an end, at the free side of the node before.
SearchOnCourse ==
  Searching =>
    /\ curr # NULL => limits[curr].low < Hash /\ Hash < limits[curr].high
    /\ curr = NULL /\ root # NULL =>
         /\ prev # NULL
         /\ IF curr_was_left
            THEN nodes[prev].l = NULL /\ BelowLeft(prev, Hash)
            ELSE nodes[prev].r = NULL /\ BelowRight(prev, Hash)

\* The inductive invariant.
DictInv == DictTypeOK /\ SearchTree /\ SearchOnCourse

\* However a dict has grown, the item of a key is the one that was last set for
\* that key, and nil if none was: no search ends beside the node of its key,
\* no key gets a second node, setting one key leaves the others alone.
ItemIn(tree, key) ==
  IF \E n \in DOMAIN tree : tree[n].hash = hash_value(key)
  THEN tree[CHOOSE n \in DOMAIN tree : tree[n].hash = hash_value(key)].data
  ELSE None

ItemOf(key) == ItemIn(nodes, key)

Map == INSTANCE KeyedMap WITH map <- [key \in Keys |-> ItemOf(key)]
ImplementsMap == Map!MapSpec

\* Each get and each set comes to its end.
CallsReturn == Searching ~> ~ Searching
=============================================================================
