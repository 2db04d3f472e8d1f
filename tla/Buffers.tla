------------------------------ MODULE Buffers ------------------------------
(***************************************************************************)
(* Growable buffers: AnyVec and ScalarVec of src/src/includes/vec.h, mystr *)
(* of src/src/mystr.c, and the list and string objects made of an AnyVec   *)
(* and a mystr.  A behaviour follows one buffer, of one kind.              *)
(*                                                                         *)
(* Every operation is one step.  `data` is the allocation, cells from 0 on *)
(* with what they hold; `length` cells of it are in use.  A store outside  *)
(* of the allocation, undefined in C, changes nothing but `outside`.       *)
(* Reallocation succeeds.                                                  *)
(***************************************************************************)
EXTENDS Integers, Sequences

CONSTANTS
  Elements,         \* values, or characters
  Nil,          \* what a look-up yields where there is no item
  Blank,         \* what a cell holds that was never written
  Indices,       \* the int keys that are tried
  ListSizes,     \* capacities lists start with (MK_LIST)
  VecSizes,      \* capacities vectors of scalars start with
  StringSizes,   \* capacities strings start with
  MaxAppend,     \* bounds the characters appended at once
  MaxLength      \* bounds the length

\* mk_list asks for room for one item at least, dud vectors have 8 cells, and
\* mystr_new("") has one; a ScalarVec with less than two would not grow.
ASSUME SizesAssumption ==
  /\ ListSizes \subseteq Nat \ {0}
  /\ VecSizes \subseteq Nat \ {0, 1}
  /\ StringSizes \subseteq Nat \ {0}
ASSUME BoundsAssumption ==
  Indices \subseteq Int /\ MaxAppend \in Nat /\ MaxLength \in Nat

VARIABLES kind, data, length, capacity, result, outside

bufferVars == <<kind, data, length, capacity, result, outside>>

Kinds == {"list", "vec", "string"}

\* The items in use.
Contents == [pos \in 1 .. length |-> data[pos - 1]]

Blanks(n) == [pos \in 0 .. n - 1 |-> Blank]

Start(size, allocated) ==
  /\ data = Blanks(allocated) /\ length = 0 /\ capacity = size

BufferInit ==
  /\ \/ kind = "list" /\ \E size \in ListSizes : Start(size, size)        \* AnyVec_new
     \/ kind = "vec" /\ \E size \in VecSizes : Start(size, size)          \* ScalarVec_dud
     \/ kind = "string" /\ \E size \in StringSizes :
                             \/ Start(size, size)                         \* mystr_new
                             \/ Start(size, size + 1)                     \* mystr_res
  /\ result = Nil /\ outside = FALSE
-----------------------------------------------------------------------------
(***************************************************************************)
(* Growing.                                                                *)
(***************************************************************************)
\* realloc keeps what fits.
Reallocated(cells, size) ==
  [pos \in 0 .. size - 1 |-> IF pos \in DOMAIN cells THEN cells[pos] ELSE Blank]

Grown(full, size) ==
  IF full THEN [data |-> Reallocated(data, size), capacity |-> size]
  ELSE [data |-> data, capacity |-> capacity]

AnyVec_room == Grown(length >= capacity, 1 + (capacity * 3) \div 2)

ScalarVec_room == Grown(length >= capacity, (capacity * 3) \div 2)

\* Mutant: the terminator is not counted.
mystr_room_NoTerminator(n) ==
  Grown(capacity - length < n,
        capacity + IF length + n < capacity THEN capacity ELSE ((length + n) * 3) \div 2)

\* The difference is unsigned: were a string as long as its capacity, it would
\* be huge and nothing would grow.
mystr_room(n) ==
  Grown(capacity > length /\ capacity - 1 - length < n,
        capacity + IF length + n < capacity THEN capacity ELSE ((length + n) * 3) \div 2)

(***************************************************************************)
(* The operations.                                                         *)
(***************************************************************************)
\* Write `new` and then `ending` behind the items in use.
AppendTo(room, new, ending) ==
  LET written == length .. length + Len(new) + Len(ending) - 1
      tail == new \o ending
  IN  /\ length + Len(new) <= MaxLength
      /\ data' = [pos \in DOMAIN room.data |->
                    IF pos \in written THEN tail[pos - length + 1] ELSE room.data[pos]]
      /\ outside' = (outside \/ ~ written \subseteq DOMAIN room.data)
      /\ capacity' = room.capacity
      /\ length' = length + Len(new)
      /\ result' = TRUE
      /\ UNCHANGED kind

\* list[nil] := item, and AnyVec_push.
AnyVec_push(item) == kind = "list" /\ AppendTo(AnyVec_room, <<item>>, <<>>)

ScalarVec_push(item) == kind = "vec" /\ AppendTo(ScalarVec_room, <<item>>, <<>>)

\* Also string[nil] := item, with one character.
mystr_append_raw(chars) ==
  kind = "string" /\ AppendTo(mystr_room(Len(chars)), chars, <<Blank>>)

InUse(index) == index \in 0 .. length - 1

\* list_set_v_fn and string_set_v_fn for a key other than nil; a key that is
\* not an int counts as -1.
set_v_fn(index, item) ==
  /\ kind \in {"list", "string"}
  /\ result' = InUse(index)
  /\ data' = IF InUse(index) THEN [data EXCEPT ![index] = item] ELSE data
  /\ UNCHANGED <<kind, length, capacity, outside>>

\* Mutant: the index may equal the length.
get_v_fn_Past(index) ==
  /\ kind \in {"list", "string"}
  /\ result' = IF index \in 0 .. length /\ index \in DOMAIN data THEN data[index] ELSE Nil
  /\ UNCHANGED <<kind, data, length, capacity, outside>>

get_v_fn(index) ==
  /\ kind \in {"list", "string"}
  /\ result' = IF InUse(index) THEN data[index] ELSE Nil
  /\ UNCHANGED <<kind, data, length, capacity, outside>>

\* AnyVec_pop blanks the cell, ScalarVec_pop does not; a caller pops what it
\* has pushed.
pop ==
  /\ kind \in {"list", "vec"}
  /\ length # 0
  /\ length' = length - 1
  /\ data' = IF kind = "list" THEN [data EXCEPT ![length - 1] = Blank] ELSE data
  /\ result' = TRUE
  /\ UNCHANGED <<kind, capacity, outside>>

Strings == UNION {[1 .. n -> Elements] : n \in 0 .. MaxAppend}

Single == {<<item>> : item \in Elements}

BufferNext ==
  \/ \E item \in Elements : AnyVec_push(item) \/ ScalarVec_push(item)
  \/ \E chars \in Strings : mystr_append_raw(chars)
  \/ \E index \in Indices, item \in Elements : set_v_fn(index, item)
  \/ \E index \in Indices : get_v_fn(index)
  \/ pop

BufferSpec == BufferInit /\ [][BufferNext]_bufferVars
-----------------------------------------------------------------------------
(***************************************************************************)
(* Properties.                                                             *)
(***************************************************************************)
\* A string keeps a cell for its terminator.
Reserve == IF kind = "string" THEN 1 ELSE 0

BufferTypeOK ==
  /\ kind \in Kinds
  /\ length \in Nat /\ capacity \in Nat
  /\ DOMAIN data \subseteq Nat /\ data \in [DOMAIN data -> Elements \cup {Blank}]
  /\ result \in Elements \cup {Nil} \cup BOOLEAN
  /\ outside \in BOOLEAN

\* Whatever is appended, set and popped in whatever order, nothing is stored
\* outside of the allocation: it has the cells the capacity says, there is
\* room for a string's terminator, and what is in use was written
\* (vec.h:143, vec.h:279, mystr.c:163).
StaysInside ==
  /\ ~ outside
  /\ length + Reserve <= capacity
  /\ 0 .. capacity - 1 \subseteq DOMAIN data
  /\ kind = "vec" => capacity > 1
  /\ \A pos \in 0 .. length - 1 : data[pos] \in Elements

\* The inductive invariant.
BufferInv == BufferTypeOK /\ StaysInside

\* However a buffer has grown, it holds the items that were appended, with the
\* replacements since, and no other.
Sequence ==
  INSTANCE ItemSequence WITH seq <- Contents, answer <- result, Items <- Elements,
                             None <- Nil, Chunks <- Strings \cup Single
ImplementsSequence == Sequence!SeqSpec
=============================================================================
