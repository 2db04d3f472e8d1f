-------------------------- MODULE ContainersProofs --------------------------
(***************************************************************************)
(* Proofs about what is behind list[key], dict[key] and string[key]:       *)
(* Dict, for every set of keys and of items, and Buffers, for every set of *)
(* items, every start capacity and every length.                           *)
(***************************************************************************)
EXTENDS Dict, Buffers, TLAPS

(***************************************************************************)
(* Dict.                                                                   *)
(***************************************************************************)
\* A payload's bytes are bytes, negative payloads included.
LEMMA ByteRange == \A n \in Int : n % 256 \in 0 .. 255
  OBVIOUS

\* hash_value stays below the limit.
LEMMA HashRange ==
  ASSUME NEW key \in Keys
  PROVE  hash_value(key) \in Int /\ 0 <= hash_value(key) /\ hash_value(key) < HashLimit
<1> DEFINE n == Scalar(key)
<1>1. n \in Int
  <2>1. key.data \in Int
    BY KeysAssumption
  <2> QED BY <2>1 DEF Scalar
<1>2. n \div 256 \in Int /\ n \div 65536 \in Int /\ n \div 16777216 \in Int
  BY <1>1
<1>3. PICK b0 \in 0 .. 255 : b0 = n % 256
  BY <1>1, ByteRange
<1>4. PICK b1 \in 0 .. 255 : b1 = (n \div 256) % 256
  BY <1>2, ByteRange
<1>5. PICK b2 \in 0 .. 255 : b2 = (n \div 65536) % 256
  BY <1>2, ByteRange
<1>6. PICK b3 \in 0 .. 255 : b3 = (n \div 16777216) % 256
  BY <1>2, ByteRange
<1>7. hash_value(key) = b0 + 5 * b1 + 25 * b2 + 125 * b3
  BY <1>3, <1>4, <1>5, <1>6 DEF hash_value
<1> HIDE DEF n
<1>8. /\ b0 + 5 * b1 + 25 * b2 + 125 * b3 \in Int
      /\ 0 <= b0 + 5 * b1 + 25 * b2 + 125 * b3
      /\ b0 + 5 * b1 + 25 * b2 + 125 * b3 <= 39780
  OBVIOUS
<1> QED BY <1>7, <1>8 DEF HashLimit

\* An empty dict, before anybody asks.
LEMMA DictInitInv == DictInit => DictInv
<1> SUFFICES ASSUME DictInit PROVE DictInv
  OBVIOUS
<1> USE DEF DictInit, NULL
<1>1. DictTypeOK
  <2>1. nodes \in Seq(Node) /\ limits \in Seq(Span)
    OBVIOUS
  <2>2. Len(nodes) = 0 /\ Len(limits) = 0 /\ DOMAIN nodes = {}
    OBVIOUS
  <2>3. curr_was_left \in BOOLEAN /\ call \in Gets \cup Sets \cup {NoCall}
    OBVIOUS
  <2>4. root \in 0 .. Len(nodes) /\ curr \in 0 .. Len(nodes) /\ prev \in 0 .. Len(nodes)
    BY <2>2
  <2> QED BY <2>1, <2>2, <2>3, <2>4 DEF DictTypeOK
<1>2. SearchTree
  BY DEF SearchTree
<1>3. SearchOnCourse
  BY DEF SearchOnCourse, Searching
<1> QED BY <1>1, <1>2, <1>3 DEF DictInv

\* The tree's links and numbers, node by node.
LEMMA NodeFacts ==
  ASSUME DictTypeOK
  PROVE  /\ Len(nodes) \in Nat /\ DOMAIN nodes = 1 .. Len(nodes) /\ DOMAIN limits = DOMAIN nodes
         /\ \A n \in DOMAIN nodes :
              /\ nodes[n] \in Node /\ limits[n] \in Span
              /\ nodes[n].hash \in Int /\ nodes[n].data \in Items
              /\ nodes[n].l \in 0 .. Len(nodes) /\ nodes[n].r \in 0 .. Len(nodes)
              /\ limits[n].low \in Int /\ limits[n].high \in Int
<1>1. /\ Len(nodes) \in Nat /\ DOMAIN nodes = 1 .. Len(nodes)
      /\ Len(limits) = Len(nodes) /\ DOMAIN limits = 1 .. Len(limits)
  BY DEF DictTypeOK
<1>2. \A n \in DOMAIN nodes : nodes[n] \in Node /\ limits[n] \in Span
  <2>1. nodes \in Seq(Node) /\ limits \in Seq(Span)
    BY DEF DictTypeOK
  <2>2. \A n \in 1 .. Len(nodes) : nodes[n] \in Node
    BY <2>1
  <2>3. \A n \in 1 .. Len(limits) : limits[n] \in Span
    BY <2>1
  <2> QED BY <1>1, <2>2, <2>3
<1>3. \A n \in DOMAIN nodes : nodes[n].l \in 0 .. Len(nodes) /\ nodes[n].r \in 0 .. Len(nodes)
  BY DEF DictTypeOK
<1> QED BY <1>1, <1>2, <1>3 DEF Node, Span

\* A request in progress names a key, and its hash is a hash.
LEMMA CallFacts ==
  ASSUME DictTypeOK, Searching
  PROVE  /\ call.key \in Keys
         /\ call.op = "get" \/ (call.op = "set" /\ call.item \in Items)
         /\ Hash \in Int /\ 0 <= Hash /\ Hash < HashLimit
<1>1. call \in Gets \cup Sets
  BY DEF DictTypeOK, Searching
<1>2. call.key \in Keys /\ (call.op = "get" \/ (call.op = "set" /\ call.item \in Items))
  BY <1>1 DEF Gets, Sets
<1> QED BY <1>2, HashRange DEF Hash

(***************************************************************************)
(* Steps that leave the tree alone.                                        *)
(***************************************************************************)
\* A search starts at the root, whose subtree is everything.
LEMMA BeginKeeps ==
  ASSUME DictInv, NEW request \in Gets \cup Sets, Begin(request)
  PROVE  DictInv'
<1> USE DEF DictInv, Begin
<1>1. DictTypeOK'
  <2>1. call' \in Gets \cup Sets \cup {NoCall} /\ curr_was_left' \in BOOLEAN
    OBVIOUS
  <2>2. curr' \in 0 .. Len(nodes) /\ prev' \in 0 .. Len(nodes)
    BY DEF DictTypeOK, NULL
  <2> QED BY <2>1, <2>2 DEF DictTypeOK
<1>2. SearchTree'
  BY DEF SearchTree, SpansNest, Apart, Under
<1>3. SearchOnCourse'
  <2>1. request.key \in Keys
    BY DEF Gets, Sets
  <2>2. Hash' = hash_value(request.key)
    BY DEF Hash, hash_value, Scalar
  <2>3. Hash' \in Int /\ 0 <= Hash' /\ Hash' < HashLimit
    BY <2>1, <2>2, HashRange
  <2>4. CASE root = NULL
    BY <2>4 DEF SearchOnCourse
  <2>5. CASE root # NULL
    <3>1. limits[root].low = -1 /\ limits[root].high = HashLimit
      BY <2>5 DEF SearchTree
    <3>2. limits'[curr'].low < Hash' /\ Hash' < limits'[curr'].high
      BY <2>3, <3>1 DEF HashLimit
    <3> QED BY <2>5, <3>2 DEF SearchOnCourse
  <2> QED BY <2>4, <2>5
<1> QED BY <1>1, <1>2, <1>3

\* One turn to the left keeps to the half where the hash belongs.
LEMMA GoLeftKeeps ==
  ASSUME DictInv, GoLeft
  PROVE  DictInv'
<1> USE DEF DictInv, GoLeft
<1>0. /\ curr \in DOMAIN nodes /\ nodes[curr].l \in 0 .. Len(nodes)
      /\ Hash' = Hash
  <2>1. curr \in 0 .. Len(nodes) /\ curr # 0
    BY DEF DictTypeOK, NULL
  <2>2. curr \in DOMAIN nodes
    BY <2>1, NodeFacts
  <2>3. Hash' = Hash
    BY DEF Hash
  <2> QED BY <2>2, <2>3, NodeFacts
<1>1. DictTypeOK'
  BY <1>0 DEF DictTypeOK
<1>2. SearchTree'
  BY DEF SearchTree, SpansNest, Apart, Under
<1>3. SearchOnCourse'
  <2>1. BelowLeft(curr, Hash)
    BY DEF SearchOnCourse, BelowLeft
  <2>2. CASE nodes[curr].l = NULL
    BY <2>1, <2>2, <1>0 DEF SearchOnCourse, BelowLeft
  <2>3. CASE nodes[curr].l # NULL
    <3>1. limits[nodes[curr].l] = [low |-> limits[curr].low, high |-> nodes[curr].hash]
      BY <1>0, <2>3 DEF SearchTree, SpansNest
    <3> QED BY <1>0, <2>1, <2>3, <3>1 DEF SearchOnCourse, BelowLeft
  <2> QED BY <2>2, <2>3
<1> QED BY <1>1, <1>2, <1>3

\* One turn to the right likewise.
LEMMA GoRightKeeps ==
  ASSUME DictInv, GoRight
  PROVE  DictInv'
<1> USE DEF DictInv, GoRight
<1>0. /\ curr \in DOMAIN nodes /\ nodes[curr].r \in 0 .. Len(nodes)
      /\ Hash' = Hash
  <2>1. curr \in 0 .. Len(nodes) /\ curr # 0
    BY DEF DictTypeOK, NULL
  <2>2. curr \in DOMAIN nodes
    BY <2>1, NodeFacts
  <2>3. Hash' = Hash
    BY DEF Hash
  <2> QED BY <2>2, <2>3, NodeFacts
<1>1. DictTypeOK'
  BY <1>0 DEF DictTypeOK
<1>2. SearchTree'
  BY DEF SearchTree, SpansNest, Apart, Under
<1>3. SearchOnCourse'
  <2>1. BelowRight(curr, Hash)
    BY DEF SearchOnCourse, BelowRight
  <2>2. CASE nodes[curr].r = NULL
    BY <2>1, <2>2, <1>0 DEF SearchOnCourse, BelowRight
  <2>3. CASE nodes[curr].r # NULL
    <3>1. limits[nodes[curr].r] = [low |-> nodes[curr].hash, high |-> limits[curr].high]
      BY <1>0, <2>3 DEF SearchTree, SpansNest
    <3> QED BY <1>0, <2>1, <2>3, <3>1 DEF SearchOnCourse, BelowRight
  <2> QED BY <2>2, <2>3
<1> QED BY <1>1, <1>2, <1>3

\* A get changes nothing but the answer.
LEMMA GetKeeps ==
  ASSUME DictInv, GetFound \/ GetMissed
  PROVE  DictInv'
<1> USE DEF DictInv, Return, NULL
<1>1. answer' \in Items \cup {None}
  <2>1. CASE GetFound
    <3>1. curr \in 0 .. Len(nodes) /\ curr # 0 /\ answer' = nodes[curr].data
      BY <2>1 DEF GetFound, Found, DictTypeOK
    <3>2. curr \in DOMAIN nodes
      BY <3>1, NodeFacts
    <3> QED BY <3>1, <3>2, NodeFacts
  <2>2. CASE GetMissed
    BY <2>2 DEF GetMissed
  <2> QED BY <2>1, <2>2
<1>2. UNCHANGED <<nodes, root, limits>> /\ Return
  BY DEF GetFound, GetMissed
<1>3. DictTypeOK'
  <2>1. call' \in Gets \cup Sets \cup {NoCall} /\ curr_was_left' \in BOOLEAN
    BY <1>2
  <2>2. curr' \in 0 .. Len(nodes) /\ prev' \in 0 .. Len(nodes)
    BY <1>2, NodeFacts
  <2> QED BY <1>1, <1>2, <2>1, <2>2 DEF DictTypeOK
<1>4. SearchTree'
  BY <1>2 DEF SearchTree, SpansNest, Apart, Under
<1>5. SearchOnCourse'
  BY <1>2 DEF SearchOnCourse, Searching
<1> QED BY <1>3, <1>4, <1>5

\* Replacing an item leaves hashes and links alone.
LEMMA SetFoundKeeps ==
  ASSUME DictInv, SetFound
  PROVE  DictInv'
<1> USE DEF DictInv, Return, NULL
<1>1. /\ curr \in DOMAIN nodes /\ call.item \in Items
      /\ UNCHANGED <<root, limits, answer>> /\ Return
      /\ nodes' = [nodes EXCEPT ![curr].data = call.item]
  BY CallFacts, NodeFacts DEF SetFound, Found, DictTypeOK
<1>2. /\ DOMAIN nodes' = DOMAIN nodes
      /\ \A n \in DOMAIN nodes : /\ nodes'[n].hash = nodes[n].hash
                                 /\ nodes'[n].l = nodes[n].l /\ nodes'[n].r = nodes[n].r
  BY <1>1, NodeFacts DEF Node
<1>3. DictTypeOK'
  <2>1. [nodes[curr] EXCEPT !.data = call.item] \in Node
    BY <1>1, NodeFacts DEF Node
  <2>2. nodes' = [nodes EXCEPT ![curr] = [nodes[curr] EXCEPT !.data = call.item]]
    BY <1>1
  <2>3. nodes' \in Seq(Node) /\ Len(nodes') = Len(nodes)
    BY <1>1, <2>1, <2>2, NodeFacts DEF DictTypeOK
  <2>4. call' \in Gets \cup Sets \cup {NoCall} /\ curr_was_left' \in BOOLEAN
    BY <1>1
  <2>5. curr' \in 0 .. Len(nodes) /\ prev' \in 0 .. Len(nodes)
    BY <1>1, NodeFacts
  <2>6. root \in 0 .. Len(nodes) /\ (root = NULL <=> nodes' = <<>>)
    BY <2>3, NodeFacts DEF DictTypeOK
  <2>7. \A n \in DOMAIN nodes' : {nodes'[n].l, nodes'[n].r} \subseteq 0 .. Len(nodes')
    BY <1>2, <2>3 DEF DictTypeOK
  <2> QED BY <1>1, <2>3, <2>4, <2>5, <2>6, <2>7 DEF DictTypeOK
<1>4. SearchTree'
  BY <1>1, <1>2 DEF SearchTree, SpansNest, Apart, Under
<1>5. SearchOnCourse'
  BY <1>1 DEF SearchOnCourse, Searching
<1> QED BY <1>3, <1>4, <1>5

(***************************************************************************)
(* Steps that insert a node.                                               *)
(***************************************************************************)
\* The first node spans everything.
LEMMA SetFirstKeeps ==
  ASSUME DictInv, SetFirst
  PROVE  DictInv'
<1> USE DEF DictInv, Return, NULL
<1> DEFINE node == alloc_prop_node
           span == [low |-> -1, high |-> HashLimit]
<1>1. /\ nodes = <<>> /\ limits = <<>> /\ nodes' = <<node>> /\ limits' = <<span>>
      /\ root' = 1 /\ Return /\ UNCHANGED answer
  <2>1. nodes = <<>> /\ Len(limits) = 0 /\ limits \in Seq(Span)
    BY DEF SetFirst, DictTypeOK
  <2>2. limits = <<>>
    BY <2>1
  <2> QED BY <2>1, <2>2 DEF SetFirst, NewNode
<1>2. /\ node \in Node /\ node.l = NULL /\ node.r = NULL /\ node.hash = Hash
      /\ span \in Span /\ span.low < node.hash /\ node.hash < span.high
  BY CallFacts DEF SetFirst, Missed, alloc_prop_node, Node, Span, HashLimit
<1> HIDE DEF node, span
<1>3. DOMAIN nodes' = {1} /\ nodes'[1] = node /\ limits'[1] = span /\ Len(nodes') = 1
  BY <1>1
<1>4. DictTypeOK'
  <2>1. nodes' \in Seq(Node) /\ limits' \in Seq(Span) /\ Len(limits') = 1
    BY <1>1, <1>2
  <2>2. call' \in Gets \cup Sets \cup {NoCall} /\ curr_was_left' \in BOOLEAN
    BY <1>1
  <2>3. root' \in 0 .. 1 /\ curr' \in 0 .. 1 /\ prev' \in 0 .. 1
    BY <1>1
  <2>4. nodes' # <<>> /\ root' # NULL
    BY <1>1
  <2>5. \A n \in DOMAIN nodes' : {nodes'[n].l, nodes'[n].r} \subseteq 0 .. Len(nodes')
    BY <1>2, <1>3
  <2> QED BY <1>1, <1>3, <2>1, <2>2, <2>3, <2>4, <2>5 DEF DictTypeOK
<1>5. SearchTree'
  BY <1>1, <1>2, <1>3 DEF SearchTree, SpansNest, Apart, span
<1>6. SearchOnCourse'
  BY <1>1 DEF SearchOnCourse, Searching
<1> QED BY <1>4, <1>5, <1>6

\* A child on the left takes over the lower half of its parent's span.
LEMMA SetLeftKeeps ==
  ASSUME DictInv, SetLeft
  PROVE  DictInv'
<1> USE DEF DictInv
<1>0. PICK m \in Nat : m = Len(nodes) + 1
  BY NodeFacts
<1> DEFINE node == alloc_prop_node
           span == [low |-> limits[prev].low, high |-> nodes[prev].hash]
           parent == [nodes[prev] EXCEPT !.l = m]
<1>1. /\ prev \in DOMAIN nodes /\ nodes[prev].l = NULL
      /\ limits[prev].low < Hash /\ Hash < nodes[prev].hash
      /\ nodes' = Append([nodes EXCEPT ![prev] = parent], node)
      /\ limits' = Append(limits, span) /\ Return /\ UNCHANGED <<root, answer>>
      /\ root # NULL
  BY <1>0, NodeFacts DEF SetLeft, Missed, SearchOnCourse, BelowLeft, DictTypeOK, NULL, NewNode
<1>2. /\ node \in Node /\ node.l = NULL /\ node.r = NULL /\ node.hash = Hash
      /\ span \in Span /\ span.low = limits[prev].low /\ span.high = nodes[prev].hash
      /\ parent \in Node /\ parent.l = m /\ parent.r = nodes[prev].r
      /\ parent.hash = nodes[prev].hash
  <2>1. Searching /\ call.op = "set"
    BY DEF SetLeft, Missed
  <2>2. /\ node \in Node /\ node.l = NULL /\ node.r = NULL /\ node.hash = Hash
    BY <2>1, CallFacts DEF alloc_prop_node, Node, NULL
  <2>3. nodes[prev] \in Node /\ limits[prev] \in Span
    BY <1>1, NodeFacts
  <2>4. span \in Span /\ span.low = limits[prev].low /\ span.high = nodes[prev].hash
    BY <2>3 DEF Node, Span
  <2>5. /\ parent \in Node /\ parent.l = m /\ parent.r = nodes[prev].r
        /\ parent.hash = nodes[prev].hash
    BY <1>0, <2>3 DEF Node
  <2> QED BY <2>2, <2>4, <2>5
<1> HIDE DEF node, span, parent
<1>3. /\ Len(nodes') = m /\ DOMAIN nodes' = DOMAIN nodes \cup {m} /\ m \notin DOMAIN nodes
      /\ nodes'[m] = node /\ nodes'[prev] = parent
      /\ \A n \in DOMAIN nodes : n # prev => nodes'[n] = nodes[n]
      /\ limits'[m] = span /\ \A n \in DOMAIN nodes : limits'[n] = limits[n]
      /\ nodes' \in Seq(Node) /\ limits' \in Seq(Span) /\ Len(limits') = m /\ m \in Nat /\ m # 0
  <2> DEFINE linked == [nodes EXCEPT ![prev] = parent]
  <2>1. /\ linked \in Seq(Node) /\ Len(linked) = Len(nodes) /\ DOMAIN linked = DOMAIN nodes
        /\ linked[prev] = parent /\ \A n \in DOMAIN nodes : n # prev => linked[n] = nodes[n]
    BY <1>1, <1>2, NodeFacts DEF DictTypeOK
  <2>2. /\ limits \in Seq(Span) /\ Len(limits) = Len(nodes) /\ Len(nodes) \in Nat
        /\ DOMAIN nodes = 1 .. Len(nodes)
    BY NodeFacts DEF DictTypeOK
  <2>3. nodes' = Append(linked, node) /\ limits' = Append(limits, span)
    BY <1>1
  <2> HIDE DEF linked
  <2>4. /\ nodes' \in Seq(Node) /\ Len(nodes') = m /\ nodes'[m] = node
        /\ DOMAIN nodes' = 1 .. m
        /\ \A n \in 1 .. Len(nodes) : nodes'[n] = linked[n]
    BY <1>0, <1>2, <2>1, <2>2, <2>3
  <2>5. /\ limits' \in Seq(Span) /\ Len(limits') = m /\ limits'[m] = span
        /\ \A n \in 1 .. Len(nodes) : limits'[n] = limits[n]
    BY <1>0, <1>2, <2>2, <2>3
  <2>6. 1 .. m = DOMAIN nodes \cup {m} /\ m \notin DOMAIN nodes /\ m \in Nat /\ m # 0
    BY <1>0, <2>2
  <2> QED BY <1>1, <2>1, <2>2, <2>4, <2>5, <2>6
<1>4. DictTypeOK'
  <2>1. call' \in Gets \cup Sets \cup {NoCall} /\ curr_was_left' \in BOOLEAN
    BY <1>1 DEF Return
  <2>2. /\ root' \in 0 .. m /\ curr' \in 0 .. m /\ prev' \in 0 .. m
        /\ nodes' # <<>> /\ root' # NULL
    BY <1>0, <1>1, <1>3, NodeFacts DEF Return, DictTypeOK, NULL
  <2>3. ASSUME NEW n \in DOMAIN nodes'
        PROVE  {nodes'[n].l, nodes'[n].r} \subseteq 0 .. m
    <3>1. CASE n = m
      BY <3>1, <1>2, <1>3 DEF NULL
    <3>2. CASE n = prev
      BY <3>2, <1>0, <1>1, <1>2, <1>3, NodeFacts
    <3>3. CASE n # m /\ n # prev
      BY <3>3, <1>0, <1>3, NodeFacts
    <3> QED BY <3>1, <3>2, <3>3
  <2> QED BY <1>1, <1>3, <2>1, <2>2, <2>3 DEF DictTypeOK
<1>5. SearchTree'
  <2>1. ASSUME NEW n \in DOMAIN nodes'
        PROVE  SpansNest(n)'
    <3>1. CASE n = m
      BY <3>1, <1>1, <1>2, <1>3 DEF SpansNest
    <3>2. CASE n = prev
      <4>1. limits'[m] = [low |-> limits'[n].low, high |-> nodes'[n].hash]
        BY <3>2, <1>1, <1>2, <1>3 DEF span
      <4>2. nodes[prev].r # NULL => nodes[prev].r \in DOMAIN nodes
        BY <1>1, NodeFacts DEF NULL
      <4>3. /\ limits[prev].low < nodes[prev].hash /\ nodes[prev].hash < limits[prev].high
            /\ nodes[prev].r # NULL =>
                 limits[nodes[prev].r] = [low |-> nodes[prev].hash, high |-> limits[prev].high]
        BY <1>1 DEF SearchTree, SpansNest
      <4>4. /\ nodes'[n].l = m /\ nodes'[n].r = nodes[prev].r
            /\ nodes'[n].hash = nodes[prev].hash /\ limits'[n] = limits[prev]
            /\ nodes[prev].r # NULL => limits'[nodes[prev].r] = limits[nodes[prev].r]
        BY <3>2, <4>2, <1>1, <1>2, <1>3
      <4> QED BY <4>1, <4>3, <4>4 DEF SpansNest
    <3>3. CASE n # m /\ n # prev
      <4>1. /\ n \in DOMAIN nodes /\ nodes'[n] = nodes[n]
            /\ nodes[n].l # NULL => nodes[n].l \in DOMAIN nodes
            /\ nodes[n].r # NULL => nodes[n].r \in DOMAIN nodes
        BY <3>3, <1>3, NodeFacts DEF NULL
      <4>2. SpansNest(n)
        BY <4>1 DEF SearchTree
      <4> QED BY <4>1, <4>2, <1>3 DEF SpansNest
    <3> QED BY <3>1, <3>2, <3>3
  <2>2. \A n \in DOMAIN nodes : /\ nodes'[n].hash = nodes[n].hash
                                /\ nodes[n].l # NULL => nodes'[n].l # NULL
                                /\ nodes[n].r # NULL => nodes'[n].r # NULL
    BY <1>1, <1>2, <1>3 DEF NULL
  <2>3. ASSUME NEW n \in DOMAIN nodes, NEW other \in DOMAIN nodes
        PROVE  n = other \/ Under(n, other)' \/ Under(other, n)' \/ Apart(n, other)'
    BY <1>3, <2>2 DEF SearchTree, Apart, Under
  <2>4. ASSUME NEW n \in DOMAIN nodes
        PROVE  Under(n, m)' \/ Apart(n, m)'
    <3>1. limits'[m].low = limits[prev].low /\ limits'[m].high = nodes[prev].hash
      BY <1>2, <1>3
    <3>2. CASE n = prev
      BY <3>1, <3>2, <1>1, <1>2, <1>3, NodeFacts DEF Under, NULL
    <3>3. CASE n # prev
      <4>1. /\ limits[prev].low < nodes[prev].hash /\ nodes[prev].hash < limits[prev].high
            /\ nodes[prev].hash \in Int /\ limits[prev].low \in Int /\ limits[prev].high \in Int
            /\ nodes[n].hash \in Int /\ limits[n].low \in Int /\ limits[n].high \in Int
        BY <1>1, NodeFacts DEF SearchTree, SpansNest
      <4>2. Under(n, prev) \/ Under(prev, n) \/ Apart(n, prev)
        BY <3>3, <1>1 DEF SearchTree
      <4>3. CASE Under(n, prev)
        BY <4>1, <4>3, <3>1, <1>3, <2>2 DEF Under, Apart
      <4>4. CASE Under(prev, n)
        BY <4>1, <4>4, <3>1, <1>1, <1>3 DEF Under, Apart
      <4> QED BY <4>1, <4>2, <4>3, <4>4, <3>1, <1>3 DEF Apart
    <3> QED BY <3>2, <3>3
  <2>5. limits'[root'] = [low |-> -1, high |-> HashLimit]
    <3>1. root \in DOMAIN nodes
      BY <1>1, NodeFacts DEF DictTypeOK, NULL
    <3> QED BY <3>1, <1>1, <1>3 DEF SearchTree
  <2>6. \A n, other \in DOMAIN nodes' :
          n = other \/ Under(n, other)' \/ Under(other, n)' \/ Apart(n, other)'
    <3>1. \A n \in DOMAIN nodes : Apart(n, m)' => Apart(m, n)'
      BY DEF Apart
    <3> QED BY <1>3, <2>3, <2>4, <3>1
  <2> QED BY <2>1, <2>5, <2>6 DEF SearchTree
<1>6. SearchOnCourse'
  BY <1>1 DEF SearchOnCourse, Searching, Return
<1> QED BY <1>4, <1>5, <1>6

\* A child on the right takes over the upper half of its parent's span.
LEMMA SetRightKeeps ==
  ASSUME DictInv, SetRight
  PROVE  DictInv'
<1> USE DEF DictInv
<1>0. PICK m \in Nat : m = Len(nodes) + 1
  BY NodeFacts
<1> DEFINE node == alloc_prop_node
           span == [low |-> nodes[prev].hash, high |-> limits[prev].high]
           parent == [nodes[prev] EXCEPT !.r = m]
<1>1. /\ prev \in DOMAIN nodes /\ nodes[prev].r = NULL
      /\ nodes[prev].hash < Hash /\ Hash < limits[prev].high
      /\ nodes' = Append([nodes EXCEPT ![prev] = parent], node)
      /\ limits' = Append(limits, span) /\ Return /\ UNCHANGED <<root, answer>>
      /\ root # NULL
  BY <1>0, NodeFacts DEF SetRight, Missed, SearchOnCourse, BelowRight, DictTypeOK, NULL, NewNode
<1>2. /\ node \in Node /\ node.l = NULL /\ node.r = NULL /\ node.hash = Hash
      /\ span \in Span /\ span.low = nodes[prev].hash /\ span.high = limits[prev].high
      /\ parent \in Node /\ parent.r = m /\ parent.l = nodes[prev].l
      /\ parent.hash = nodes[prev].hash
  <2>1. Searching /\ call.op = "set"
    BY DEF SetRight, Missed
  <2>2. /\ node \in Node /\ node.l = NULL /\ node.r = NULL /\ node.hash = Hash
    BY <2>1, CallFacts DEF alloc_prop_node, Node, NULL
  <2>3. nodes[prev] \in Node /\ limits[prev] \in Span
    BY <1>1, NodeFacts
  <2>4. span \in Span /\ span.low = nodes[prev].hash /\ span.high = limits[prev].high
    BY <2>3 DEF Node, Span
  <2>5. /\ parent \in Node /\ parent.r = m /\ parent.l = nodes[prev].l
        /\ parent.hash = nodes[prev].hash
    BY <1>0, <2>3 DEF Node
  <2> QED BY <2>2, <2>4, <2>5
<1> HIDE DEF node, span, parent
<1>3. /\ Len(nodes') = m /\ DOMAIN nodes' = DOMAIN nodes \cup {m} /\ m \notin DOMAIN nodes
      /\ nodes'[m] = node /\ nodes'[prev] = parent
      /\ \A n \in DOMAIN nodes : n # prev => nodes'[n] = nodes[n]
      /\ limits'[m] = span /\ \A n \in DOMAIN nodes : limits'[n] = limits[n]
      /\ nodes' \in Seq(Node) /\ limits' \in Seq(Span) /\ Len(limits') = m /\ m \in Nat /\ m # 0
  <2> DEFINE linked == [nodes EXCEPT ![prev] = parent]
  <2>1. /\ linked \in Seq(Node) /\ Len(linked) = Len(nodes) /\ DOMAIN linked = DOMAIN nodes
        /\ linked[prev] = parent /\ \A n \in DOMAIN nodes : n # prev => linked[n] = nodes[n]
    BY <1>1, <1>2, NodeFacts DEF DictTypeOK
  <2>2. /\ limits \in Seq(Span) /\ Len(limits) = Len(nodes) /\ Len(nodes) \in Nat
        /\ DOMAIN nodes = 1 .. Len(nodes)
    BY NodeFacts DEF DictTypeOK
  <2>3. nodes' = Append(linked, node) /\ limits' = Append(limits, span)
    BY <1>1
  <2> HIDE DEF linked
  <2>4. /\ nodes' \in Seq(Node) /\ Len(nodes') = m /\ nodes'[m] = node
        /\ DOMAIN nodes' = 1 .. m
        /\ \A n \in 1 .. Len(nodes) : nodes'[n] = linked[n]
    BY <1>0, <1>2, <2>1, <2>2, <2>3
  <2>5. /\ limits' \in Seq(Span) /\ Len(limits') = m /\ limits'[m] = span
        /\ \A n \in 1 .. Len(nodes) : limits'[n] = limits[n]
    BY <1>0, <1>2, <2>2, <2>3
  <2>6. 1 .. m = DOMAIN nodes \cup {m} /\ m \notin DOMAIN nodes /\ m \in Nat /\ m # 0
    BY <1>0, <2>2
  <2> QED BY <1>1, <2>1, <2>2, <2>4, <2>5, <2>6
<1>4. DictTypeOK'
  <2>1. call' \in Gets \cup Sets \cup {NoCall} /\ curr_was_left' \in BOOLEAN
    BY <1>1 DEF Return
  <2>2. /\ root' \in 0 .. m /\ curr' \in 0 .. m /\ prev' \in 0 .. m
        /\ nodes' # <<>> /\ root' # NULL
    BY <1>0, <1>1, <1>3, NodeFacts DEF Return, DictTypeOK, NULL
  <2>3. ASSUME NEW n \in DOMAIN nodes'
        PROVE  {nodes'[n].l, nodes'[n].r} \subseteq 0 .. m
    <3>1. CASE n = m
      BY <3>1, <1>2, <1>3 DEF NULL
    <3>2. CASE n = prev
      BY <3>2, <1>0, <1>1, <1>2, <1>3, NodeFacts
    <3>3. CASE n # m /\ n # prev
      BY <3>3, <1>0, <1>3, NodeFacts
    <3> QED BY <3>1, <3>2, <3>3
  <2> QED BY <1>1, <1>3, <2>1, <2>2, <2>3 DEF DictTypeOK
<1>5. SearchTree'
  <2>1. ASSUME NEW n \in DOMAIN nodes'
        PROVE  SpansNest(n)'
    <3>1. CASE n = m
      BY <3>1, <1>1, <1>2, <1>3 DEF SpansNest
    <3>2. CASE n = prev
      <4>1. limits'[m] = [low |-> nodes'[n].hash, high |-> limits'[n].high]
        BY <3>2, <1>1, <1>2, <1>3 DEF span
      <4>2. nodes[prev].l # NULL => nodes[prev].l \in DOMAIN nodes
        BY <1>1, NodeFacts DEF NULL
      <4>3. /\ limits[prev].low < nodes[prev].hash /\ nodes[prev].hash < limits[prev].high
            /\ nodes[prev].l # NULL =>
                 limits[nodes[prev].l] = [low |-> limits[prev].low, high |-> nodes[prev].hash]
        BY <1>1 DEF SearchTree, SpansNest
      <4>4. /\ nodes'[n].r = m /\ nodes'[n].l = nodes[prev].l
            /\ nodes'[n].hash = nodes[prev].hash /\ limits'[n] = limits[prev]
            /\ nodes[prev].l # NULL => limits'[nodes[prev].l] = limits[nodes[prev].l]
        BY <3>2, <4>2, <1>1, <1>2, <1>3
      <4> QED BY <4>1, <4>3, <4>4 DEF SpansNest
    <3>3. CASE n # m /\ n # prev
      <4>1. /\ n \in DOMAIN nodes /\ nodes'[n] = nodes[n]
            /\ nodes[n].l # NULL => nodes[n].l \in DOMAIN nodes
            /\ nodes[n].r # NULL => nodes[n].r \in DOMAIN nodes
        BY <3>3, <1>3, NodeFacts DEF NULL
      <4>2. SpansNest(n)
        BY <4>1 DEF SearchTree
      <4> QED BY <4>1, <4>2, <1>3 DEF SpansNest
    <3> QED BY <3>1, <3>2, <3>3
  <2>2. \A n \in DOMAIN nodes : /\ nodes'[n].hash = nodes[n].hash
                                /\ nodes[n].l # NULL => nodes'[n].l # NULL
                                /\ nodes[n].r # NULL => nodes'[n].r # NULL
    BY <1>1, <1>2, <1>3 DEF NULL
  <2>3. ASSUME NEW n \in DOMAIN nodes, NEW other \in DOMAIN nodes
        PROVE  n = other \/ Under(n, other)' \/ Under(other, n)' \/ Apart(n, other)'
    BY <1>3, <2>2 DEF SearchTree, Apart, Under
  <2>4. ASSUME NEW n \in DOMAIN nodes
        PROVE  Under(n, m)' \/ Apart(n, m)'
    <3>1. limits'[m].low = nodes[prev].hash /\ limits'[m].high = limits[prev].high
      BY <1>2, <1>3
    <3>2. CASE n = prev
      BY <3>1, <3>2, <1>1, <1>2, <1>3, NodeFacts DEF Under, NULL
    <3>3. CASE n # prev
      <4>1. /\ limits[prev].low < nodes[prev].hash /\ nodes[prev].hash < limits[prev].high
            /\ nodes[prev].hash \in Int /\ limits[prev].low \in Int /\ limits[prev].high \in Int
            /\ nodes[n].hash \in Int /\ limits[n].low \in Int /\ limits[n].high \in Int
        BY <1>1, NodeFacts DEF SearchTree, SpansNest
      <4>2. Under(n, prev) \/ Under(prev, n) \/ Apart(n, prev)
        BY <3>3, <1>1 DEF SearchTree
      <4>3. CASE Under(n, prev)
        BY <4>1, <4>3, <3>1, <1>3, <2>2 DEF Under, Apart
      <4>4. CASE Under(prev, n)
        BY <4>1, <4>4, <3>1, <1>1, <1>3 DEF Under, Apart
      <4> QED BY <4>1, <4>2, <4>3, <4>4, <3>1, <1>3 DEF Apart
    <3> QED BY <3>2, <3>3
  <2>5. limits'[root'] = [low |-> -1, high |-> HashLimit]
    <3>1. root \in DOMAIN nodes
      BY <1>1, NodeFacts DEF DictTypeOK, NULL
    <3> QED BY <3>1, <1>1, <1>3 DEF SearchTree
  <2>6. \A n, other \in DOMAIN nodes' :
          n = other \/ Under(n, other)' \/ Under(other, n)' \/ Apart(n, other)'
    <3>1. \A n \in DOMAIN nodes : Apart(n, m)' => Apart(m, n)'
      BY DEF Apart
    <3> QED BY <1>3, <2>3, <2>4, <3>1
  <2> QED BY <2>1, <2>5, <2>6 DEF SearchTree
<1>6. SearchOnCourse'
  BY <1>1 DEF SearchOnCourse, Searching, Return
<1> QED BY <1>4, <1>5, <1>6

(***************************************************************************)
(* The invariant, for every set of keys and items and any run of calls.    *)
(***************************************************************************)
\* Every step of a search, every insertion and every replacement keeps the tree
\* a search tree, the search in it on course (ptree_get, ptree_set,
\* obj_dict.c:47-160).
THEOREM DictInvariance == DictSpec => []DictInv
<1>1. DictInv /\ [DictNext]_dictVars => DictInv'
  <2> SUFFICES ASSUME DictInv, [DictNext]_dictVars PROVE DictInv'
    OBVIOUS
  <2>1. ASSUME NEW key \in Keys, dict_get_v_fn(key) PROVE DictInv'
    <3>1. [op |-> "get", key |-> key] \in Gets \cup Sets
      BY DEF Gets
    <3> QED BY <2>1, <3>1, BeginKeeps DEF dict_get_v_fn
  <2>2. ASSUME NEW key \in Keys, NEW item \in Items, dict_set_v_fn(key, item)
        PROVE  DictInv'
    <3>1. [op |-> "set", key |-> key, item |-> item] \in Gets \cup Sets
      BY DEF Sets
    <3> QED BY <2>2, <3>1, BeginKeeps DEF dict_set_v_fn
  <2>3. CASE DictStep
    BY <2>3, GoLeftKeeps, GoRightKeeps, GetKeeps, SetFoundKeeps, SetFirstKeeps,
       SetLeftKeeps, SetRightKeeps DEF DictStep
  <2>4. CASE UNCHANGED dictVars
    <3>1. UNCHANGED <<nodes, root, call, curr, prev, curr_was_left, answer, limits>>
      BY <2>4 DEF dictVars, searchVars
    <3>2. DictTypeOK'
      BY <3>1 DEF DictInv, DictTypeOK
    <3>3. SearchTree'
      BY <3>1 DEF DictInv, SearchTree, SpansNest, Under, Apart
    <3>4. SearchOnCourse'
      BY <3>1 DEF DictInv, SearchOnCourse, Searching, Hash, hash_value, Scalar, BelowLeft, BelowRight
    <3> QED BY <3>2, <3>3, <3>4 DEF DictInv
  <2> QED BY <2>1, <2>2, <2>3, <2>4 DEF DictNext
<1> QED BY <1>1, DictInitInv, PTL DEF DictSpec

(***************************************************************************)
(* The dict is a map from keys to items.                                   *)
(***************************************************************************)
OneNodePerHash(tree) ==
  \A i, j \in DOMAIN tree : tree[i].hash = tree[j].hash => i = j

\* An item found is the item of its key.
LEMMA FindItem ==
  ASSUME NEW tree, NEW key, NEW n \in DOMAIN tree,
         OneNodePerHash(tree), tree[n].hash = hash_value(key)
  PROVE  ItemIn(tree, key) = tree[n].data
<1> DEFINE found == CHOOSE i \in DOMAIN tree : tree[i].hash = hash_value(key)
<1>1. found \in DOMAIN tree /\ tree[found].hash = hash_value(key)
  OBVIOUS
<1>2. found = n
  BY <1>1 DEF OneNodePerHash
<1> QED BY <1>2 DEF ItemIn

\* A new node, for a hash that had none, sets the item of its key only.
LEMMA InsertedItem ==
  ASSUME DistinctHashes, NEW old, NEW new, NEW m, NEW key \in Keys, NEW item, NEW k \in Keys,
         DOMAIN new = DOMAIN old \cup {m}, m \notin DOMAIN old, OneNodePerHash(old),
         new[m].hash = hash_value(key), new[m].data = item,
         \A n \in DOMAIN old : /\ old[n].hash # hash_value(key)
                               /\ new[n].hash = old[n].hash /\ new[n].data = old[n].data
  PROVE  ItemIn(new, k) = IF k = key THEN item ELSE ItemIn(old, k)
<1>1. OneNodePerHash(new)
  BY DEF OneNodePerHash
<1>2. CASE k = key
  BY <1>1, <1>2, FindItem
<1>3. CASE k # key
  <2>1. hash_value(k) # hash_value(key)
    BY <1>3 DEF DistinctHashes
  <2>2. CASE \E n \in DOMAIN old : old[n].hash = hash_value(k)
    <3>1. PICK n \in DOMAIN old : old[n].hash = hash_value(k)
      BY <2>2
    <3>2. ItemIn(old, k) = old[n].data
      BY <3>1, FindItem
    <3>3. ItemIn(new, k) = new[n].data
      <4>1. n \in DOMAIN new /\ new[n].hash = hash_value(k)
        BY <3>1
      <4> QED BY <4>1, <1>1, FindItem
    <3> QED BY <1>3, <3>1, <3>2, <3>3
  <2>3. CASE ~ \E n \in DOMAIN old : old[n].hash = hash_value(k)
    <3>1. ItemIn(old, k) = None
      BY <2>3 DEF ItemIn
    <3>2. ~ \E n \in DOMAIN new : new[n].hash = hash_value(k)
      BY <2>1, <2>3
    <3>3. ItemIn(new, k) = None
      BY <3>2 DEF ItemIn
    <3> QED BY <1>3, <3>1, <3>3
  <2> QED BY <2>2, <2>3
<1> QED BY <1>2, <1>3

\* Replacing the data of a node sets the item of its key only.
LEMMA ReplacedItem ==
  ASSUME DistinctHashes, NEW old, NEW new, NEW m \in DOMAIN old, NEW key \in Keys, NEW item,
         NEW k \in Keys, DOMAIN new = DOMAIN old, OneNodePerHash(old),
         old[m].hash = hash_value(key), new[m].data = item,
         \A n \in DOMAIN old : /\ new[n].hash = old[n].hash
                               /\ n # m => new[n].data = old[n].data
  PROVE  ItemIn(new, k) = IF k = key THEN item ELSE ItemIn(old, k)
<1>1. OneNodePerHash(new)
  BY DEF OneNodePerHash
<1>2. CASE k = key
  BY <1>1, <1>2, FindItem
<1>3. CASE k # key
  <2>1. hash_value(k) # hash_value(key)
    BY <1>3 DEF DistinctHashes
  <2>2. CASE \E n \in DOMAIN old : old[n].hash = hash_value(k)
    <3>1. PICK n \in DOMAIN old : old[n].hash = hash_value(k)
      BY <2>2
    <3>2. ItemIn(old, k) = old[n].data
      BY <3>1, FindItem
    <3>3. ItemIn(new, k) = new[n].data
      <4>1. n \in DOMAIN new /\ new[n].hash = hash_value(k)
        BY <3>1
      <4> QED BY <4>1, <1>1, FindItem
    <3> QED BY <1>3, <2>1, <3>1, <3>2, <3>3
  <2>3. CASE ~ \E n \in DOMAIN old : old[n].hash = hash_value(k)
    <3>1. ItemIn(old, k) = None
      BY <2>3 DEF ItemIn
    <3>2. ItemIn(new, k) = None
      BY <2>3 DEF ItemIn
    <3> QED BY <1>3, <3>1, <3>2
  <2> QED BY <2>2, <2>3
<1> QED BY <1>2, <1>3

\* A search tree has one node per hash at most.
LEMMA UniqueHashes == DictInv => OneNodePerHash(nodes)
<1> SUFFICES ASSUME DictInv, NEW i \in DOMAIN nodes, NEW j \in DOMAIN nodes,
                    nodes[i].hash = nodes[j].hash
             PROVE  i = j
  BY DEF OneNodePerHash
<1>1. /\ limits[i].low < nodes[i].hash /\ nodes[i].hash < limits[i].high
      /\ limits[j].low < nodes[j].hash /\ nodes[j].hash < limits[j].high
      /\ i = j \/ Under(i, j) \/ Under(j, i) \/ Apart(i, j)
  BY DEF DictInv, SearchTree, SpansNest
<1>2. /\ nodes[i].hash \in Int /\ limits[i].low \in Int /\ limits[i].high \in Int
      /\ nodes[j].hash \in Int /\ limits[j].low \in Int /\ limits[j].high \in Int
  BY NodeFacts DEF DictInv
<1> QED BY <1>1, <1>2 DEF Under, Apart

\* A search that ends outside the tree was for a hash that is not in it.
LEMMA MissedIsAbsent ==
  ASSUME DictInv, Missed, NEW n \in DOMAIN nodes
  PROVE  nodes[n].hash # Hash
<1>1. root # NULL
  BY DEF DictInv, DictTypeOK
<1>2. /\ prev \in DOMAIN nodes
      /\ \/ nodes[prev].l = NULL /\ limits[prev].low < Hash /\ Hash < nodes[prev].hash
         \/ nodes[prev].r = NULL /\ nodes[prev].hash < Hash /\ Hash < limits[prev].high
  BY <1>1, NodeFacts DEF DictInv, DictTypeOK, SearchOnCourse, Missed, BelowLeft, BelowRight, NULL
<1>3. /\ limits[n].low < nodes[n].hash /\ nodes[n].hash < limits[n].high
      /\ limits[prev].low < nodes[prev].hash /\ nodes[prev].hash < limits[prev].high
      /\ n = prev \/ Under(n, prev) \/ Under(prev, n) \/ Apart(n, prev)
  BY <1>2 DEF DictInv, SearchTree, SpansNest
<1>4. /\ nodes[n].hash \in Int /\ limits[n].low \in Int /\ limits[n].high \in Int
      /\ nodes[prev].hash \in Int /\ limits[prev].low \in Int /\ limits[prev].high \in Int
      /\ Hash \in Int
  BY <1>2, NodeFacts, CallFacts DEF DictInv, Missed
<1>5. SUFFICES ASSUME nodes[n].hash = Hash PROVE FALSE
  OBVIOUS
<1>6. CASE n = prev
  BY <1>2, <1>4, <1>5, <1>6
<1>7. CASE Under(n, prev)
  BY <1>2, <1>3, <1>4, <1>5, <1>7 DEF Under
<1>8. CASE Under(prev, n)
  BY <1>2, <1>3, <1>4, <1>5, <1>8 DEF Under
<1>9. CASE Apart(n, prev)
  BY <1>2, <1>3, <1>4, <1>5, <1>9 DEF Apart
<1> QED BY <1>3, <1>6, <1>7, <1>8, <1>9

\* What an insertion does to the nodes, wherever it hangs the new one.
LEMMA InsertedNode ==
  ASSUME DictInv, SetFirst \/ SetLeft \/ SetRight
  PROVE  /\ NewNode \notin DOMAIN nodes /\ DOMAIN nodes' = DOMAIN nodes \cup {NewNode}
         /\ nodes'[NewNode].hash = hash_value(call.key) /\ nodes'[NewNode].data = call.item
         /\ \A n \in DOMAIN nodes : /\ nodes'[n].hash = nodes[n].hash
                                    /\ nodes'[n].data = nodes[n].data
<1>1. /\ nodes \in Seq(Node) /\ Len(nodes) \in Nat /\ DOMAIN nodes = 1 .. Len(nodes)
      /\ NewNode = Len(nodes) + 1 /\ NewNode \notin DOMAIN nodes
  BY NodeFacts DEF DictInv, DictTypeOK, NewNode
<1>2. PICK linked \in Seq(Node) :
        /\ nodes' = Append(linked, alloc_prop_node) /\ DOMAIN linked = DOMAIN nodes
        /\ Len(linked) = Len(nodes)
        /\ \A n \in DOMAIN nodes : linked[n].hash = nodes[n].hash /\ linked[n].data = nodes[n].data
  <2>1. CASE SetFirst
    BY <1>1, <2>1 DEF SetFirst
  <2>2. CASE SetLeft \/ SetRight
    <3>1. prev \in DOMAIN nodes
      BY <2>2, NodeFacts DEF SetLeft, SetRight, Missed, DictInv, DictTypeOK, SearchOnCourse, NULL
    <3>2. nodes[prev] \in Node
      BY <3>1, NodeFacts DEF DictInv
    <3>3. /\ [nodes[prev] EXCEPT !.l = NewNode] \in Node
          /\ [nodes[prev] EXCEPT !.r = NewNode] \in Node
      BY <1>1, <3>2 DEF Node
    <3>4. ASSUME NEW node \in Node, node.hash = nodes[prev].hash, node.data = nodes[prev].data,
                 nodes' = Append([nodes EXCEPT ![prev] = node], alloc_prop_node)
          PROVE  \E linked \in Seq(Node) :
                   /\ nodes' = Append(linked, alloc_prop_node) /\ DOMAIN linked = DOMAIN nodes
                   /\ Len(linked) = Len(nodes)
                   /\ \A n \in DOMAIN nodes : /\ linked[n].hash = nodes[n].hash
                                              /\ linked[n].data = nodes[n].data
      <4> DEFINE linked == [nodes EXCEPT ![prev] = node]
      <4>1. linked \in Seq(Node) /\ DOMAIN linked = DOMAIN nodes /\ Len(linked) = Len(nodes)
        BY <1>1, <3>1
      <4>2. \A n \in DOMAIN nodes : linked[n].hash = nodes[n].hash /\ linked[n].data = nodes[n].data
        BY <3>1, <3>4
      <4> QED BY <3>4, <4>1, <4>2
    <3>5. CASE SetLeft
      <4> DEFINE node == [nodes[prev] EXCEPT !.l = NewNode]
      <4>1. node \in Node /\ node.hash = nodes[prev].hash /\ node.data = nodes[prev].data
        BY <3>2, <3>3 DEF Node
      <4>2. nodes' = Append([nodes EXCEPT ![prev] = node], alloc_prop_node)
        BY <3>1, <3>5 DEF SetLeft
      <4> QED BY <3>4, <4>1, <4>2
    <3>6. CASE SetRight
      <4> DEFINE node == [nodes[prev] EXCEPT !.r = NewNode]
      <4>1. node \in Node /\ node.hash = nodes[prev].hash /\ node.data = nodes[prev].data
        BY <3>2, <3>3 DEF Node
      <4>2. nodes' = Append([nodes EXCEPT ![prev] = node], alloc_prop_node)
        BY <3>1, <3>6 DEF SetRight
      <4> QED BY <3>4, <4>1, <4>2
    <3> QED BY <2>2, <3>5, <3>6
  <2> QED BY <2>1, <2>2
<1>3. alloc_prop_node.hash = hash_value(call.key) /\ alloc_prop_node.data = call.item
  BY DEF alloc_prop_node, Hash
<1>4. /\ DOMAIN nodes' = 1 .. Len(nodes) + 1 /\ nodes'[NewNode] = alloc_prop_node
      /\ \A n \in 1 .. Len(nodes) : nodes'[n] = linked[n]
  BY <1>1, <1>2
<1>5. 1 .. Len(nodes) + 1 = DOMAIN nodes \cup {NewNode}
  BY <1>1
<1> QED BY <1>1, <1>2, <1>3, <1>4, <1>5

\* With keys of different hashes, and only then (Dict, hash_value), a dict is a
\* map from keys to items: a get answers with the item last set for that key,
\* a set changes the item of that key (ptree_get, ptree_set).
THEOREM DictImplementsMap ==
  ASSUME DistinctHashes
  PROVE  DictSpec => ImplementsMap
<1> DEFINE map == [key \in Keys |-> ItemOf(key)]
<1>1. DictInit => Map!MapInit
  <2> SUFFICES ASSUME DictInit PROVE Map!MapInit
    OBVIOUS
  <2>1. \A key : ItemIn(<<>>, key) = None
    BY DEF ItemIn
  <2> QED BY <2>1 DEF DictInit, Map!MapInit, ItemOf
<1>2. DictInv /\ [DictNext]_dictVars => [Map!MapNext]_(Map!mapVars)
  <2> SUFFICES ASSUME DictInv, [DictNext]_dictVars PROVE [Map!MapNext]_(Map!mapVars)
    OBVIOUS
  <2> USE DEF Map!mapVars
  <2>1. ASSUME NEW key \in Keys, dict_get_v_fn(key) PROVE Map!MapNext
    <3>1. Map!Ask(Map!Get(key))
      BY <2>1 DEF dict_get_v_fn, Begin, Map!Ask, Map!Get, ItemOf
    <3> QED BY <3>1 DEF Map!MapNext
  <2>2. ASSUME NEW key \in Keys, NEW item \in Items, dict_set_v_fn(key, item)
        PROVE  Map!MapNext
    <3>1. Map!Ask(Map!Set(key, item))
      BY <2>2 DEF dict_set_v_fn, Begin, Map!Ask, Map!Set, ItemOf
    <3> QED BY <3>1 DEF Map!MapNext
  <2>3. CASE GoLeft \/ GoRight
    <3>1. UNCHANGED <<nodes, call, answer>>
      BY <2>3 DEF GoLeft, GoRight
    <3> QED BY <3>1 DEF ItemOf
  <2>4. CASE GetFound
    <3>1. call.key \in Keys /\ call = Map!Get(call.key)
      BY <2>4, CallFacts DEF GetFound, Found, DictInv, DictTypeOK, Searching, Gets, Sets, Map!Get
    <3>2. curr \in DOMAIN nodes /\ nodes[curr].hash = hash_value(call.key)
      BY <2>4, NodeFacts DEF GetFound, Found, Hash, DictInv, DictTypeOK, NULL
    <3>3. ItemOf(call.key) = nodes[curr].data
      BY <3>2, UniqueHashes, FindItem DEF ItemOf
    <3>4. Map!Answer(call.key)
      BY <2>4, <3>1, <3>3 DEF GetFound, Return, Map!Answer, ItemOf
    <3> QED BY <3>1, <3>4 DEF Map!MapNext
  <2>5. CASE GetMissed
    <3>1. call.key \in Keys /\ call = Map!Get(call.key)
      BY <2>5, CallFacts DEF GetMissed, Missed, DictInv, DictTypeOK, Searching, Gets, Sets, Map!Get
    <3>2. \A n \in DOMAIN nodes : nodes[n].hash # hash_value(call.key)
      BY <2>5, MissedIsAbsent DEF GetMissed, Hash
    <3>3. ItemOf(call.key) = None
      BY <3>2 DEF ItemOf, ItemIn
    <3>4. Map!Answer(call.key)
      BY <2>5, <3>1, <3>3 DEF GetMissed, Return, Map!Answer, ItemOf
    <3> QED BY <3>1, <3>4 DEF Map!MapNext
  <2>6. ASSUME SetFound \/ SetFirst \/ SetLeft \/ SetRight PROVE Map!MapNext
    <3>1. /\ call.key \in Keys /\ call.item \in Items
          /\ call = Map!Set(call.key, call.item)
      <4>1. Searching /\ call.op = "set"
        BY <2>6 DEF SetFound, SetFirst, SetLeft, SetRight, Found, Missed
      <4> QED BY <4>1, CallFacts DEF DictInv, DictTypeOK, Searching, Gets, Sets, Map!Set
    <3>2. ASSUME NEW k \in Keys
          PROVE  ItemOf(k)' = IF k = call.key THEN call.item ELSE ItemOf(k)
      <4>1. OneNodePerHash(nodes)
        BY UniqueHashes
      <4>2. CASE SetFound
        <5>1. curr \in DOMAIN nodes /\ nodes[curr].hash = hash_value(call.key)
          BY <4>2, NodeFacts DEF SetFound, Found, Hash, DictInv, DictTypeOK, NULL
        <5>2. nodes' = [nodes EXCEPT ![curr].data = call.item]
          BY <4>2 DEF SetFound
        <5>3. /\ DOMAIN nodes' = DOMAIN nodes /\ nodes'[curr].data = call.item
              /\ \A n \in DOMAIN nodes : /\ nodes'[n].hash = nodes[n].hash
                                         /\ n # curr => nodes'[n].data = nodes[n].data
          BY <5>1, <5>2, NodeFacts DEF DictInv, Node
        <5> QED BY <3>1, <4>1, <5>1, <5>3, ReplacedItem DEF ItemOf
      <4>3. CASE SetFirst \/ SetLeft \/ SetRight
        <5>1. /\ NewNode \notin DOMAIN nodes /\ DOMAIN nodes' = DOMAIN nodes \cup {NewNode}
              /\ nodes'[NewNode].hash = hash_value(call.key) /\ nodes'[NewNode].data = call.item
              /\ \A n \in DOMAIN nodes : /\ nodes'[n].hash = nodes[n].hash
                                         /\ nodes'[n].data = nodes[n].data
          BY <4>3, InsertedNode
        <5>2. \A n \in DOMAIN nodes : nodes[n].hash # hash_value(call.key)
          BY <4>3, MissedIsAbsent DEF SetFirst, SetLeft, SetRight, Hash
        <5> QED BY <3>1, <4>1, <5>1, <5>2, InsertedItem DEF ItemOf
      <4> QED BY <2>6, <4>2, <4>3
    <3>3. map' = [map EXCEPT ![call.key] = call.item]
      <4>1. map' = [k \in Keys |-> IF k = call.key THEN call.item ELSE ItemOf(k)]
        BY <3>2
      <4> QED BY <3>1, <4>1
    <3>4. call' = NoCall /\ UNCHANGED answer
      BY <2>6 DEF SetFound, SetFirst, SetLeft, SetRight, Return
    <3>5. Map!Change(call.key, call.item)
      BY <3>1, <3>3, <3>4 DEF Map!Change
    <3> QED BY <3>1, <3>5 DEF Map!MapNext
  <2>7. CASE UNCHANGED dictVars
    BY <2>7 DEF dictVars, searchVars, ItemOf
  <2> QED BY <2>1, <2>2, <2>3, <2>4, <2>5, <2>6, <2>7 DEF DictNext, DictStep
<1> QED BY <1>1, <1>2, DictInvariance, PTL DEF DictSpec, ImplementsMap, Map!MapSpec

(***************************************************************************)
(* Buffers.                                                                *)
(***************************************************************************)
\* What a room holds: the items in use, in at least as many cells as its
\* capacity.
RoomFor(room, size) ==
  /\ room.capacity \in Nat /\ size <= room.capacity
  /\ room.data \in [DOMAIN room.data -> Elements \cup {Blank}]
  /\ DOMAIN room.data \subseteq Nat
  /\ 0 .. room.capacity - 1 \subseteq DOMAIN room.data
  /\ \A pos \in 0 .. length - 1 : room.data[pos] = data[pos]

\* The facts about sizes that the invariant holds.
LEMMA SizeFacts ==
  ASSUME BufferInv
  PROVE  /\ length \in Nat /\ capacity \in Nat /\ length <= capacity
         /\ kind = "string" => length + 1 <= capacity
         /\ kind = "vec" => capacity > 1
         /\ data \in [DOMAIN data -> Elements \cup {Blank}] /\ DOMAIN data \subseteq Nat
         /\ 0 .. capacity - 1 \subseteq DOMAIN data
  BY DEF BufferInv, BufferTypeOK, StaysInside, Reserve

\* Where nothing has to grow, the buffer itself is room enough.
LEMMA KeptRoom ==
  ASSUME BufferInv, NEW needed \in Nat, needed <= capacity
  PROVE  RoomFor([data |-> data, capacity |-> capacity], needed)
  BY SizeFacts DEF RoomFor

\* Growing to a size that is not smaller than what is in use loses nothing.
LEMMA GrownRoom ==
  ASSUME BufferInv, NEW size \in Nat, NEW needed \in Nat, length <= size, needed <= size
  PROVE  RoomFor([data |-> Reallocated(data, size), capacity |-> size], needed)
<1>1. DOMAIN Reallocated(data, size) = 0 .. size - 1
  BY DEF Reallocated
<1>2. \A pos \in 0 .. size - 1 : Reallocated(data, size)[pos] \in Elements \cup {Blank}
  BY SizeFacts DEF Reallocated
<1>3. Reallocated(data, size) \in [0 .. size - 1 -> Elements \cup {Blank}]
  BY <1>1, <1>2 DEF Reallocated
<1>4. ASSUME NEW pos \in 0 .. length - 1
      PROVE  Reallocated(data, size)[pos] = data[pos]
  <2>1. pos \in 0 .. size - 1 /\ pos \in DOMAIN data
    BY SizeFacts
  <2> QED BY <2>1 DEF Reallocated
<1>5. 0 .. size - 1 \subseteq Nat
  OBVIOUS
<1> HIDE DEF Reallocated
<1> QED BY <1>1, <1>3, <1>4, <1>5 DEF RoomFor

\* Each kind makes room for what it is about to store.
LEMMA AnyVecRoom ==
  ASSUME BufferInv
  PROVE  RoomFor(AnyVec_room, length + 1)
<1>1. length \in Nat /\ capacity \in Nat /\ length <= capacity /\ length + 1 \in Nat
  BY SizeFacts
<1>2. PICK size \in Nat : size = 1 + (capacity * 3) \div 2 /\ capacity + 1 <= size
  BY <1>1
<1>3. CASE length >= capacity
  <2>1. AnyVec_room = [data |-> Reallocated(data, size), capacity |-> size]
    BY <1>2, <1>3 DEF AnyVec_room, Grown
  <2>2. length <= size /\ length + 1 <= size
    BY <1>1, <1>2
  <2> QED BY <1>1, <2>1, <2>2, GrownRoom
<1>4. CASE ~ (length >= capacity)
  <2>1. AnyVec_room = [data |-> data, capacity |-> capacity]
    BY <1>4 DEF AnyVec_room, Grown
  <2>2. length + 1 <= capacity
    BY <1>1, <1>4
  <2> QED BY <1>1, <2>1, <2>2, KeptRoom
<1> QED BY <1>3, <1>4

LEMMA ScalarVecRoom ==
  ASSUME BufferInv, kind = "vec"
  PROVE  RoomFor(ScalarVec_room, length + 1) /\ ScalarVec_room.capacity > 1
<1>1. /\ length \in Nat /\ capacity \in Nat /\ length <= capacity /\ length + 1 \in Nat
      /\ capacity > 1
  BY SizeFacts
<1>2. PICK size \in Nat : size = (capacity * 3) \div 2 /\ capacity + 1 <= size
  BY <1>1
<1>3. CASE length >= capacity
  <2>1. ScalarVec_room = [data |-> Reallocated(data, size), capacity |-> size]
    BY <1>2, <1>3 DEF ScalarVec_room, Grown
  <2>2. length <= size /\ length + 1 <= size /\ size > 1
    BY <1>1, <1>2
  <2> QED BY <1>1, <2>1, <2>2, GrownRoom
<1>4. CASE ~ (length >= capacity)
  <2>1. ScalarVec_room = [data |-> data, capacity |-> capacity]
    BY <1>4 DEF ScalarVec_room, Grown
  <2>2. length + 1 <= capacity
    BY <1>1, <1>4
  <2> QED BY <1>1, <2>1, <2>2, KeptRoom
<1> QED BY <1>3, <1>4

LEMMA MystrRoom ==
  ASSUME BufferInv, kind = "string", NEW n \in Nat
  PROVE  RoomFor(mystr_room(n), length + n + 1)
<1>1. /\ length \in Nat /\ capacity \in Nat /\ length <= capacity /\ length + 1 <= capacity
      /\ length + n + 1 \in Nat
  BY SizeFacts
<1>2. PICK m \in Nat : m = length + n
  BY <1>1
<1>3. PICK half \in Nat : half = (m * 3) \div 2 /\ m <= half
  BY <1>2
<1>4. PICK size \in Nat : size = capacity + IF m < capacity THEN capacity ELSE half
  BY <1>1, <1>3
<1>5. CASE capacity - 1 - length < n
  <2>1. mystr_room(n) = [data |-> Reallocated(data, size), capacity |-> size]
    BY <1>1, <1>2, <1>3, <1>4, <1>5 DEF mystr_room, Grown
  <2>2. length <= size /\ length + n + 1 <= size
    BY <1>1, <1>2, <1>3, <1>4
  <2> QED BY <1>1, <2>1, <2>2, GrownRoom
<1>6. CASE ~ (capacity - 1 - length < n)
  <2>1. mystr_room(n) = [data |-> data, capacity |-> capacity]
    BY <1>6 DEF mystr_room, Grown
  <2>2. length + n + 1 <= capacity
    BY <1>1, <1>6
  <2> QED BY <1>1, <2>1, <2>2, KeptRoom
<1> QED BY <1>5, <1>6

(***************************************************************************)
(* Appending.                                                              *)
(***************************************************************************)
\* What an append does to the cells, given room for it.
LEMMA Appended ==
  ASSUME BufferInv, NEW room, NEW new \in Seq(Elements), NEW ending \in Seq({Blank}),
         RoomFor(room, length + Len(new) + Len(ending)), AppendTo(room, new, ending)
  PROVE  /\ length' = length + Len(new) /\ length' \in Nat
         /\ capacity' = room.capacity /\ capacity' \in Nat
         /\ length' + Len(ending) <= capacity'
         /\ data' \in [DOMAIN data' -> Elements \cup {Blank}] /\ DOMAIN data' \subseteq Nat
         /\ 0 .. capacity' - 1 \subseteq DOMAIN data'
         /\ \A pos \in 0 .. length - 1 : data'[pos] = data[pos]
         /\ \A n \in 1 .. Len(new) : data'[length + n - 1] = new[n]
         /\ outside' = outside /\ kind' = kind /\ result' = TRUE
<1> DEFINE tail == new \o ending
           written == length .. length + Len(new) + Len(ending) - 1
<1>0. /\ length \in Nat /\ Len(new) \in Nat /\ Len(ending) \in Nat
      /\ DOMAIN new = 1 .. Len(new) /\ DOMAIN ending = 1 .. Len(ending)
  BY SizeFacts
<1>1. /\ room.capacity \in Nat /\ length + Len(new) + Len(ending) <= room.capacity
      /\ room.data \in [DOMAIN room.data -> Elements \cup {Blank}]
      /\ DOMAIN room.data \subseteq Nat
      /\ 0 .. room.capacity - 1 \subseteq DOMAIN room.data
      /\ \A pos \in 0 .. length - 1 : room.data[pos] = data[pos]
  BY DEF RoomFor
<1>2. /\ length' = length + Len(new) /\ capacity' = room.capacity
      /\ data' = [pos \in DOMAIN room.data |->
                    IF pos \in written THEN tail[pos - length + 1] ELSE room.data[pos]]
      /\ outside' = (outside \/ ~ written \subseteq DOMAIN room.data)
      /\ kind' = kind /\ result' = TRUE
  BY DEF AppendTo
<1>3. written \subseteq DOMAIN room.data
  BY <1>0, <1>1
<1>4. /\ tail \in Seq(Elements \cup {Blank}) /\ Len(tail) = Len(new) + Len(ending)
      /\ \A n \in 1 .. Len(new) : tail[n] = new[n]
  BY <1>0
<1>5. ASSUME NEW pos \in DOMAIN room.data
      PROVE  data'[pos] \in Elements \cup {Blank}
  <2>1. CASE pos \in written
    <3>1. pos - length + 1 \in 1 .. Len(tail)
      BY <1>0, <1>4, <2>1
    <3>2. tail[pos - length + 1] \in Elements \cup {Blank}
      BY <1>4, <3>1
    <3> QED BY <1>2, <2>1, <3>2
  <2>2. CASE pos \notin written
    BY <1>1, <1>2, <2>2
  <2> QED BY <2>1, <2>2
<1>6. ASSUME NEW pos \in 0 .. length - 1
      PROVE  data'[pos] = data[pos]
  <2>1. pos \notin written /\ pos \in DOMAIN room.data
    BY <1>0, <1>1
  <2> QED BY <1>1, <1>2, <2>1
<1>7. ASSUME NEW n \in 1 .. Len(new)
      PROVE  data'[length + n - 1] = new[n]
  <2>1. length + n - 1 \in written /\ (length + n - 1) - length + 1 = n
    BY <1>0
  <2>2. data'[length + n - 1] = tail[n]
    BY <1>2, <1>3, <2>1
  <2> QED BY <1>4, <2>2
<1>8. DOMAIN data' = DOMAIN room.data /\ data' \in [DOMAIN data' -> Elements \cup {Blank}]
  BY <1>2, <1>5
<1>9. /\ outside' = outside
      /\ length' + Len(ending) <= capacity' /\ length' \in Nat
  <2>1. outside \in BOOLEAN
    BY DEF BufferInv, BufferTypeOK
  <2> QED BY <1>0, <1>1, <1>2, <1>3, <2>1
<1> QED BY <1>1, <1>2, <1>6, <1>7, <1>8, <1>9

\* An append keeps the invariant: a string leaves a cell for its terminator.
LEMMA AppendKeeps ==
  ASSUME BufferInv, NEW room, NEW new \in Seq(Elements), NEW ending \in Seq({Blank}),
         RoomFor(room, length + Len(new) + Len(ending)), AppendTo(room, new, ending),
         kind = "string" => Len(ending) = 1, kind = "vec" => room.capacity > 1
  PROVE  BufferInv'
<1>1. /\ length' = length + Len(new) /\ length' \in Nat
      /\ capacity' = room.capacity /\ capacity' \in Nat
      /\ length' + Len(ending) <= capacity'
      /\ data' \in [DOMAIN data' -> Elements \cup {Blank}] /\ DOMAIN data' \subseteq Nat
      /\ 0 .. capacity' - 1 \subseteq DOMAIN data'
      /\ \A pos \in 0 .. length - 1 : data'[pos] = data[pos]
      /\ \A n \in 1 .. Len(new) : data'[length + n - 1] = new[n]
      /\ outside' = outside /\ kind' = kind /\ result' = TRUE
  BY Appended
<1>2. PICK m \in Nat, e \in Nat : m = Len(new) /\ e = Len(ending)
  OBVIOUS
<1>3. length \in Nat
  BY SizeFacts
<1>4. ASSUME NEW pos \in 0 .. length' - 1 PROVE data'[pos] \in Elements
  <2>1. CASE pos \in 0 .. length - 1
    BY <1>1, <2>1 DEF BufferInv, StaysInside
  <2>2. CASE pos \notin 0 .. length - 1
    <3>0. PICK k \in Nat : k = length
      BY <1>3
    <3>1. pos - length + 1 \in 1 .. m /\ pos = length + (pos - length + 1) - 1
      <4>1. pos \in 0 .. k + m - 1 /\ pos \notin 0 .. k - 1
        BY <1>1, <1>2, <2>2, <3>0
      <4>2. pos - k + 1 \in 1 .. m /\ pos = k + (pos - k + 1) - 1
        BY <4>1
      <4> QED BY <3>0, <4>2
    <3>2. PICK n \in 1 .. Len(new) : pos = length + n - 1
      BY <1>2, <3>1
    <3>3. new[n] \in Elements
      BY <3>2
    <3> QED BY <1>1, <3>2, <3>3
  <2> QED BY <2>1, <2>2
<1>5. length' + Reserve' <= capacity'
  <2>1. CASE kind = "string"
    BY <1>1, <2>1 DEF Reserve
  <2>2. CASE kind # "string"
    <3>1. length' + e <= capacity' /\ Reserve' = 0
      BY <1>1, <1>2, <2>2 DEF Reserve
    <3> QED BY <1>1, <3>1
  <2> QED BY <2>1, <2>2
<1>6. BufferTypeOK'
  BY <1>1 DEF BufferInv, BufferTypeOK
<1>7. StaysInside'
  BY <1>1, <1>4, <1>5 DEF BufferInv, StaysInside
<1> QED BY <1>6, <1>7 DEF BufferInv

\* What is appended, and what a string has behind it.
LEMMA Chunks ==
  /\ \A item \in Elements : <<item>> \in Seq(Elements) /\ Len(<<item>>) = 1
  /\ \A chars \in Strings : chars \in Seq(Elements) /\ Len(chars) \in Nat
  /\ <<>> \in Seq({Blank}) /\ Len(<<>>) = 0
  /\ <<Blank>> \in Seq({Blank}) /\ Len(<<Blank>>) = 1
<1>1. ASSUME NEW item \in Elements PROVE <<item>> \in Seq(Elements) /\ Len(<<item>>) = 1
  OBVIOUS
<1>2. ASSUME NEW chars \in Strings PROVE chars \in Seq(Elements) /\ Len(chars) \in Nat
  <2>1. PICK n \in 0 .. MaxAppend : chars \in [1 .. n -> Elements]
    BY DEF Strings
  <2>2. n \in Nat
    BY BoundsAssumption
  <2>3. chars \in Seq(Elements)
    BY <2>1, <2>2
  <2> QED BY <2>3
<1>3. <<>> \in Seq({Blank}) /\ Len(<<>>) = 0
  OBVIOUS
<1>4. <<Blank>> \in Seq({Blank}) /\ Len(<<Blank>>) = 1
  OBVIOUS
<1> QED BY <1>1, <1>2, <1>3, <1>4

\* The three appends, each with its room.
LEMMA PushKeeps ==
  ASSUME BufferInv, NEW item \in Elements, AnyVec_push(item) \/ ScalarVec_push(item)
  PROVE  BufferInv'
<1>1. /\ <<item>> \in Seq(Elements) /\ Len(<<item>>) = 1
      /\ <<>> \in Seq({Blank}) /\ Len(<<>>) = 0
  BY Chunks
<1>2. length \in Nat /\ length + Len(<<item>>) + Len(<<>>) = length + 1
  BY <1>1, SizeFacts
<1>3. CASE AnyVec_push(item)
  <2>1. kind = "list" /\ AppendTo(AnyVec_room, <<item>>, <<>>)
    BY <1>3 DEF AnyVec_push
  <2>2. RoomFor(AnyVec_room, length + Len(<<item>>) + Len(<<>>))
    BY <1>2, AnyVecRoom
  <2> QED BY <1>1, <2>1, <2>2, AppendKeeps
<1>4. CASE ScalarVec_push(item)
  <2>1. kind = "vec" /\ AppendTo(ScalarVec_room, <<item>>, <<>>)
    BY <1>4 DEF ScalarVec_push
  <2>2. RoomFor(ScalarVec_room, length + Len(<<item>>) + Len(<<>>)) /\ ScalarVec_room.capacity > 1
    BY <1>2, <2>1, ScalarVecRoom
  <2> QED BY <1>1, <2>1, <2>2, AppendKeeps
<1> QED BY <1>3, <1>4

LEMMA AppendRawKeeps ==
  ASSUME BufferInv, NEW chars \in Strings, mystr_append_raw(chars)
  PROVE  BufferInv'
<1>1. /\ chars \in Seq(Elements) /\ Len(chars) \in Nat
      /\ <<Blank>> \in Seq({Blank}) /\ Len(<<Blank>>) = 1
  BY Chunks
<1>2. kind = "string" /\ AppendTo(mystr_room(Len(chars)), chars, <<Blank>>)
  BY DEF mystr_append_raw
<1>3. RoomFor(mystr_room(Len(chars)), length + Len(chars) + Len(<<Blank>>))
  BY <1>1, <1>2, MystrRoom
<1> QED BY <1>1, <1>2, <1>3, AppendKeeps

(***************************************************************************)
(* The other operations.                                                   *)
(***************************************************************************)
LEMMA SetKeeps ==
  ASSUME BufferInv, NEW index \in Indices, NEW item \in Elements, set_v_fn(index, item)
  PROVE  BufferInv'
<1>1. DOMAIN data' = DOMAIN data
  BY DEF set_v_fn
<1>2. data' \in [DOMAIN data' -> Elements \cup {Blank}]
  BY <1>1, SizeFacts DEF set_v_fn
<1>3. kind' = kind /\ length' = length /\ capacity' = capacity /\ outside' = outside
      /\ result' \in BOOLEAN
  BY DEF set_v_fn, InUse
<1>4. ASSUME NEW pos \in 0 .. length - 1 PROVE data'[pos] \in Elements
  <2>1. pos \in DOMAIN data /\ data[pos] \in Elements
    BY SizeFacts DEF BufferInv, StaysInside
  <2> QED BY <2>1 DEF set_v_fn
<1>5. BufferTypeOK'
  BY <1>1, <1>2, <1>3 DEF BufferInv, BufferTypeOK
<1>6. StaysInside'
  BY <1>1, <1>3, <1>4 DEF BufferInv, StaysInside, Reserve
<1> QED BY <1>5, <1>6 DEF BufferInv

LEMMA GetItemKeeps ==
  ASSUME BufferInv, NEW index \in Indices, get_v_fn(index)
  PROVE  BufferInv'
<1>1. /\ kind' = kind /\ length' = length /\ capacity' = capacity /\ outside' = outside
      /\ data' = data
  BY DEF get_v_fn
<1>2. result' \in Elements \cup {Nil}
  BY DEF get_v_fn, InUse, BufferInv, StaysInside
<1>3. BufferTypeOK'
  BY <1>1, <1>2 DEF BufferInv, BufferTypeOK
<1>4. StaysInside'
  BY <1>1 DEF BufferInv, StaysInside, Reserve
<1> QED BY <1>3, <1>4 DEF BufferInv

LEMMA PopKeeps ==
  ASSUME BufferInv, pop
  PROVE  BufferInv'
<1>1. /\ kind' = kind /\ length' = length - 1 /\ length' \in Nat /\ capacity' = capacity
      /\ outside' = outside /\ result' = TRUE /\ kind # "string"
  BY SizeFacts DEF pop
<1>2. DOMAIN data' = DOMAIN data
  BY DEF pop
<1>3. data' \in [DOMAIN data' -> Elements \cup {Blank}]
  BY <1>2, SizeFacts DEF pop
<1>4. ASSUME NEW pos \in 0 .. length' - 1 PROVE data'[pos] \in Elements
  <2>1. length \in Nat /\ pos \in 0 .. length - 1 /\ pos # length - 1
    BY <1>1, SizeFacts
  <2>2. data[pos] \in Elements
    BY <2>1 DEF BufferInv, StaysInside
  <2> QED BY <2>1, <2>2 DEF pop
<1>5. BufferTypeOK'
  BY <1>1, <1>2, <1>3 DEF BufferInv, BufferTypeOK
<1>6. length' + Reserve' <= capacity'
  BY <1>1, SizeFacts DEF Reserve
<1>7. StaysInside'
  BY <1>1, <1>2, <1>4, <1>6 DEF BufferInv, StaysInside
<1> QED BY <1>5, <1>7 DEF BufferInv

LEMMA InitKeeps == BufferInit => BufferInv
<1> SUFFICES ASSUME BufferInit PROVE BufferInv
  OBVIOUS
<1>1. PICK size \in Nat, allocated \in Nat :
        /\ Start(size, allocated) /\ size <= allocated /\ size > 0
        /\ kind \in Kinds /\ (kind = "vec" => size > 1)
  <2>1. CASE kind = "list" /\ \E size \in ListSizes : Start(size, size)
    BY <2>1, SizesAssumption DEF Kinds
  <2>2. CASE kind = "vec" /\ \E size \in VecSizes : Start(size, size)
    BY <2>2, SizesAssumption DEF Kinds
  <2>3. CASE kind = "string" /\ \E size \in StringSizes : Start(size, size) \/ Start(size, size + 1)
    <3>1. PICK size \in StringSizes : Start(size, size) \/ Start(size, size + 1)
      BY <2>3
    <3>2. size \in Nat /\ size > 0 /\ size + 1 \in Nat
      BY SizesAssumption
    <3> QED BY <2>3, <3>1, <3>2 DEF Kinds
  <2> QED BY <2>1, <2>2, <2>3 DEF BufferInit
<1>2. /\ data = Blanks(allocated) /\ length = 0 /\ capacity = size
      /\ result = Nil /\ outside = FALSE
  BY <1>1 DEF BufferInit, Start
<1>3. /\ DOMAIN data = 0 .. allocated - 1 /\ DOMAIN data \subseteq Nat
      /\ data \in [DOMAIN data -> Elements \cup {Blank}]
  BY <1>2 DEF Blanks
<1>4. BufferTypeOK
  BY <1>1, <1>2, <1>3 DEF BufferTypeOK
<1>5. StaysInside
  BY <1>1, <1>2, <1>3 DEF StaysInside, Reserve
<1> QED BY <1>4, <1>5 DEF BufferInv

\* BufferInv holds in every reachable state: no operation on a list, a string
\* or a vector stores outside of its allocation (vec.h:143, vec.h:279,
\* mystr.c:163).
THEOREM BufferInvariance == BufferSpec => []BufferInv
<1>1. BufferInit => BufferInv
  BY InitKeeps
<1>2. BufferInv /\ [BufferNext]_bufferVars => BufferInv'
  <2> SUFFICES ASSUME BufferInv, [BufferNext]_bufferVars PROVE BufferInv'
    OBVIOUS
  <2>1. CASE \E item \in Elements : AnyVec_push(item) \/ ScalarVec_push(item)
    BY <2>1, PushKeeps
  <2>2. CASE \E chars \in Strings : mystr_append_raw(chars)
    BY <2>2, AppendRawKeeps
  <2>3. CASE \E index \in Indices, item \in Elements : set_v_fn(index, item)
    BY <2>3, SetKeeps
  <2>4. CASE \E index \in Indices : get_v_fn(index)
    BY <2>4, GetItemKeeps
  <2>5. CASE pop
    BY <2>5, PopKeeps
  <2>6. CASE UNCHANGED bufferVars
    BY <2>6 DEF bufferVars, BufferInv, BufferTypeOK, StaysInside, Reserve
  <2> QED BY <2>1, <2>2, <2>3, <2>4, <2>5, <2>6 DEF BufferNext
<1> QED BY <1>1, <1>2, PTL DEF BufferSpec

(***************************************************************************)
(* A buffer is a sequence of items.                                        *)
(***************************************************************************)
LEMMA CellsAsSequence ==
  ASSUME NEW cells, NEW n \in Nat, \A pos \in 0 .. n - 1 : cells[pos] \in Elements
  PROVE  LET items == [pos \in 1 .. n |-> cells[pos - 1]]
         IN  items \in Seq(Elements) /\ Len(items) = n
<1>1. ASSUME NEW pos \in 1 .. n PROVE cells[pos - 1] \in Elements
  <2>1. pos - 1 \in 0 .. n - 1
    OBVIOUS
  <2> QED BY <2>1
<1> QED BY <1>1

LEMMA ContentsFacts ==
  ASSUME BufferInv
  PROVE  /\ length \in Nat
         /\ Contents \in Seq(Elements) /\ Len(Contents) = length
         /\ \A n \in 1 .. length : Contents[n] = data[n - 1]
<1>1. length \in Nat /\ \A pos \in 0 .. length - 1 : data[pos] \in Elements
  BY SizeFacts DEF BufferInv, StaysInside
<1> QED BY <1>1, CellsAsSequence DEF Contents

\* Two sequences of one length with the same items.
LEMMA SameItems ==
  ASSUME NEW s \in Seq(Elements), NEW t \in Seq(Elements), Len(s) = Len(t),
         \A n \in 1 .. Len(s) : s[n] = t[n]
  PROVE  s = t
  OBVIOUS

LEMMA JoinedItems ==
  ASSUME NEW s \in Seq(Elements), NEW t \in Seq(Elements)
  PROVE  /\ s \o t \in Seq(Elements) /\ Len(s \o t) = Len(s) + Len(t)
         /\ \A n \in 1 .. Len(s) : (s \o t)[n] = s[n]
         /\ \A n \in 1 .. Len(t) : (s \o t)[Len(s) + n] = t[n]
  OBVIOUS

LEMMA AppendAppends ==
  ASSUME BufferInv, BufferInv', NEW room, NEW new \in Seq(Elements), NEW ending \in Seq({Blank}),
         RoomFor(room, length + Len(new) + Len(ending)), AppendTo(room, new, ending)
  PROVE  Contents' = Contents \o new /\ result' = TRUE
<1>1. /\ length' = length + Len(new) /\ result' = TRUE
      /\ \A pos \in 0 .. length - 1 : data'[pos] = data[pos]
      /\ \A n \in 1 .. Len(new) : data'[length + n - 1] = new[n]
  BY Appended
<1>2. /\ length \in Nat
      /\ Contents \in Seq(Elements) /\ Len(Contents) = length
      /\ \A n \in 1 .. length : Contents[n] = data[n - 1]
  BY ContentsFacts
<1>3. /\ length' \in Nat
      /\ Contents' \in Seq(Elements) /\ Len(Contents') = length'
      /\ \A n \in 1 .. length' : Contents'[n] = data'[n - 1]
  <2>1. length' \in Nat /\ \A pos \in 0 .. length' - 1 : data'[pos] \in Elements
    BY DEF BufferInv, BufferTypeOK, StaysInside
  <2> QED BY <2>1, CellsAsSequence DEF Contents
<1>4. PICK whole \in Seq(Elements) :
        /\ whole = Contents \o new
        /\ Len(whole) = Len(Contents) + Len(new)
        /\ \A n \in 1 .. Len(Contents) : whole[n] = Contents[n]
        /\ \A n \in 1 .. Len(new) : whole[Len(Contents) + n] = new[n]
  BY <1>2, JoinedItems
<1>5. PICK k \in Nat, m \in Nat : k = length /\ m = Len(new)
  <2>1. length \in Nat /\ Len(new) \in Nat
    BY SizeFacts
  <2> QED BY <2>1
<1>6. /\ Len(whole) = k + m
      /\ \A n \in 1 .. k : whole[n] = Contents[n]
      /\ \A n \in 1 .. m : whole[k + n] = new[n]
  BY <1>2, <1>4, <1>5
<1>7. ASSUME NEW n \in 1 .. k + m PROVE Contents'[n] = whole[n]
  <2>1. CASE n <= k
    <3>1. n \in 1 .. k /\ n - 1 \in 0 .. k - 1
      BY <2>1
    <3>2. n \in 1 .. length' /\ n \in 1 .. length /\ n - 1 \in 0 .. length - 1
      BY <1>1, <1>5, <3>1
    <3> QED BY <1>1, <1>2, <1>3, <1>6, <3>1, <3>2
  <2>2. CASE ~ (n <= k)
    <3>1. PICK i \in 1 .. m : n = k + i
      <4>1. n - k \in 1 .. m /\ n = k + (n - k)
        BY <2>2
      <4> QED BY <4>1
    <3>2. n - 1 = k + i - 1
      BY <3>1
    <3>3. data'[n - 1] = new[i]
      BY <1>1, <1>5, <3>1, <3>2
    <3>4. n \in 1 .. length'
      BY <1>1, <1>5
    <3> QED BY <1>3, <1>6, <3>1, <3>3, <3>4
  <2> QED BY <2>1, <2>2
<1>8. Len(Contents') = Len(whole)
  BY <1>1, <1>3, <1>5, <1>6
<1>9. Contents' = whole
  <2>1. \A n \in 1 .. Len(Contents') : Contents'[n] = whole[n]
    BY <1>6, <1>7, <1>8
  <2> QED BY <1>3, <1>8, <2>1, SameItems
<1> QED BY <1>1, <1>4, <1>9

LEMMA PushImplements ==
  ASSUME BufferInv, BufferInv', NEW item \in Elements, AnyVec_push(item) \/ ScalarVec_push(item)
  PROVE  \E new \in Strings \cup Single : Sequence!AppendItems(new)
<1>1. /\ <<item>> \in Seq(Elements) /\ Len(<<item>>) = 1
      /\ <<>> \in Seq({Blank}) /\ Len(<<>>) = 0
  BY Chunks
<1>2. length \in Nat /\ length + Len(<<item>>) + Len(<<>>) = length + 1
  BY <1>1, SizeFacts
<1>3. Contents' = Contents \o <<item>> /\ result' = TRUE
  <2>1. CASE AnyVec_push(item)
    <3>1. AppendTo(AnyVec_room, <<item>>, <<>>)
      BY <2>1 DEF AnyVec_push
    <3>2. RoomFor(AnyVec_room, length + Len(<<item>>) + Len(<<>>))
      BY <1>2, AnyVecRoom
    <3> QED BY <1>1, <3>1, <3>2, AppendAppends
  <2>2. CASE ScalarVec_push(item)
    <3>1. kind = "vec" /\ AppendTo(ScalarVec_room, <<item>>, <<>>)
      BY <2>2 DEF ScalarVec_push
    <3>2. RoomFor(ScalarVec_room, length + Len(<<item>>) + Len(<<>>))
      BY <1>2, <3>1, ScalarVecRoom
    <3> QED BY <1>1, <3>1, <3>2, AppendAppends
  <2> QED BY <2>1, <2>2
<1>4. <<item>> \in Strings \cup Single
  BY DEF Single
<1> QED BY <1>3, <1>4 DEF Sequence!AppendItems

LEMMA AppendRawImplements ==
  ASSUME BufferInv, BufferInv', NEW chars \in Strings, mystr_append_raw(chars)
  PROVE  Sequence!AppendItems(chars)
<1>1. /\ chars \in Seq(Elements) /\ Len(chars) \in Nat
      /\ <<Blank>> \in Seq({Blank}) /\ Len(<<Blank>>) = 1
  BY Chunks
<1>2. kind = "string" /\ AppendTo(mystr_room(Len(chars)), chars, <<Blank>>)
  BY DEF mystr_append_raw
<1>3. RoomFor(mystr_room(Len(chars)), length + Len(chars) + Len(<<Blank>>))
  BY <1>1, <1>2, MystrRoom
<1>4. Contents' = Contents \o chars /\ result' = TRUE
  BY <1>1, <1>2, <1>3, AppendAppends
<1> QED BY <1>4 DEF Sequence!AppendItems

\* An index is in use when the sequence has an item there.
LEMMA HoldsInUse ==
  ASSUME BufferInv, NEW index \in Indices
  PROVE  /\ Sequence!Holds(index) <=> InUse(index)
         /\ index \in Int
         /\ InUse(index) => index + 1 \in 1 .. length /\ Contents[index + 1] = data[index]
<1>1. index \in Int /\ length \in Nat /\ Len(Contents) = length
  BY BoundsAssumption, ContentsFacts
<1>2. ASSUME InUse(index)
      PROVE  index + 1 \in 1 .. length /\ Contents[index + 1] = data[index]
  <2>1. index + 1 \in 1 .. length /\ (index + 1) - 1 = index
    BY <1>1, <1>2 DEF InUse
  <2> QED BY <2>1, ContentsFacts
<1> QED BY <1>1, <1>2 DEF Sequence!Holds, InUse

LEMMA SetImplements ==
  ASSUME BufferInv, BufferInv', NEW index \in Indices, NEW item \in Elements, set_v_fn(index, item)
  PROVE  Sequence!Replace(index, item)
<1>1. length \in Nat /\ index \in Int /\ length' = length
  BY HoldsInUse, SizeFacts DEF set_v_fn
<1>2. CASE InUse(index)
  <2>1. data' = [data EXCEPT ![index] = item] /\ result' = TRUE
    BY <1>2 DEF set_v_fn
  <2>2. ASSUME NEW n \in 1 .. length
        PROVE  data'[n - 1] = IF n = index + 1 THEN item ELSE data[n - 1]
    <3>1. n - 1 \in DOMAIN data /\ (n - 1 = index <=> n = index + 1)
      BY <1>1, SizeFacts
    <3> QED BY <2>1, <3>1
  <2>3. Contents' = [n \in 1 .. length |-> data'[n - 1]]
    BY <1>1 DEF Contents
  <2>4. [Contents EXCEPT ![index + 1] = item]
          = [n \in 1 .. length |-> IF n = index + 1 THEN item ELSE data[n - 1]]
    BY DEF Contents
  <2>5. Contents' = [Contents EXCEPT ![index + 1] = item]
    BY <2>2, <2>3, <2>4
  <2> QED BY <1>2, <2>1, <2>5, HoldsInUse DEF Sequence!Replace
<1>3. CASE ~ InUse(index)
  <2>1. data' = data /\ result' = FALSE
    BY <1>3 DEF set_v_fn
  <2>2. Contents' = Contents
    BY <1>1, <2>1 DEF Contents
  <2> QED BY <1>3, <2>1, <2>2, HoldsInUse DEF Sequence!Replace
<1> QED BY <1>2, <1>3

LEMMA GetImplements ==
  ASSUME BufferInv, NEW index \in Indices, get_v_fn(index)
  PROVE  Sequence!LookUp(index)
<1>1. result' = IF Sequence!Holds(index) THEN Contents[index + 1] ELSE Nil
  BY HoldsInUse DEF get_v_fn
<1>2. Contents' = Contents
  BY DEF get_v_fn, Contents
<1> QED BY <1>1, <1>2 DEF Sequence!LookUp

LEMMA PopImplements ==
  ASSUME BufferInv, BufferInv', pop
  PROVE  Sequence!DropLast
<1>1. /\ length \in Nat /\ length # 0 /\ length' = length - 1 /\ result' = TRUE
      /\ Contents \in Seq(Elements) /\ Len(Contents) = length
  BY ContentsFacts DEF pop
<1>2. PICK k \in Nat : k = length - 1
  BY <1>1
<1>3. ASSUME NEW n \in 1 .. k PROVE data'[n - 1] = data[n - 1] /\ Contents[n] = data[n - 1]
  <2>1. n \in 1 .. length /\ n - 1 # length - 1
    BY <1>1, <1>2
  <2>2. data'[n - 1] = data[n - 1]
    BY <2>1 DEF pop
  <2> QED BY <2>1, <2>2, ContentsFacts
<1>4. Contents' = [n \in 1 .. k |-> data'[n - 1]]
  BY <1>1, <1>2 DEF Contents
<1>5. SubSeq(Contents, 1, k) = [n \in 1 .. k |-> Contents[n]]
  BY <1>1, <1>2
<1>6. Contents' = SubSeq(Contents, 1, Len(Contents) - 1)
  BY <1>1, <1>2, <1>3, <1>4, <1>5
<1>7. Contents # <<>>
  BY <1>1
<1> QED BY <1>1, <1>6, <1>7 DEF Sequence!DropLast

\* Lists, strings and vectors of whatever size are sequences: however often a
\* buffer was moved to a larger allocation, it holds the items that were
\* appended, in order, with the replacements since (AnyVec_push,
\* mystr_append_raw, list_set_v_fn, string_set_v_fn).
THEOREM BuffersImplementSequence == BufferSpec => ImplementsSequence
<1>1. BufferInit => Sequence!SeqInit
  <2> SUFFICES ASSUME BufferInit PROVE Sequence!SeqInit
    OBVIOUS
  <2>1. length = 0 /\ result = Nil
    BY DEF BufferInit, Start
  <2>2. Contents = <<>>
    BY <2>1 DEF Contents
  <2> QED BY <2>1, <2>2 DEF Sequence!SeqInit
<1>2. BufferInv /\ BufferInv' /\ [BufferNext]_bufferVars
        => [Sequence!SeqNext]_Sequence!seqVars
  <2> SUFFICES ASSUME BufferInv, BufferInv', [BufferNext]_bufferVars
               PROVE  [Sequence!SeqNext]_Sequence!seqVars
    OBVIOUS
  <2>1. CASE \E item \in Elements : AnyVec_push(item) \/ ScalarVec_push(item)
    BY <2>1, PushImplements DEF Sequence!SeqNext
  <2>2. CASE \E chars \in Strings : mystr_append_raw(chars)
    BY <2>2, AppendRawImplements DEF Sequence!SeqNext
  <2>3. CASE \E index \in Indices, item \in Elements : set_v_fn(index, item)
    BY <2>3, SetImplements DEF Sequence!SeqNext
  <2>4. CASE \E index \in Indices : get_v_fn(index)
    BY <2>4, GetImplements DEF Sequence!SeqNext
  <2>5. CASE pop
    BY <2>5, PopImplements DEF Sequence!SeqNext
  <2>6. CASE UNCHANGED bufferVars
    BY <2>6 DEF bufferVars, Contents, Sequence!seqVars
  <2> QED BY <2>1, <2>2, <2>3, <2>4, <2>5, <2>6 DEF BufferNext
<1> QED BY <1>1, <1>2, BufferInvariance, PTL
        DEF BufferSpec, ImplementsSequence, Sequence!SeqSpec
=============================================================================
