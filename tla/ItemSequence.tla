---------------------------- MODULE ItemSequence ----------------------------
(***************************************************************************)
(* What a list, a string or a vector promises: a sequence of items.  Items *)
(* are appended, the item at an index is replaced or looked up, an index   *)
(* outside of the sequence is refused and changes nothing, and the last    *)
(* item may be dropped.  Buffers implements this.                          *)
(***************************************************************************)
EXTENDS Integers, Sequences

CONSTANTS
  Items, Indices,
  Chunks,    \* the sequences of items that are appended at once
  None       \* the answer where there is no item

VARIABLES
  seq,       \* the items
  answer     \* what the latest operation returned

seqVars == <<seq, answer>>

SeqInit == seq = <<>> /\ answer = None

Holds(index) == index \in 0 .. Len(seq) - 1

AppendItems(new) == seq' = seq \o new /\ answer' = TRUE

Replace(index, item) ==
  IF Holds(index)
  THEN seq' = [seq EXCEPT ![index + 1] = item] /\ answer' = TRUE
  ELSE answer' = FALSE /\ UNCHANGED seq

LookUp(index) ==
  /\ answer' = IF Holds(index) THEN seq[index + 1] ELSE None
  /\ UNCHANGED seq

DropLast ==
  /\ seq # <<>>
  /\ seq' = SubSeq(seq, 1, Len(seq) - 1)
  /\ answer' = TRUE

SeqNext ==
  \/ \E new \in Chunks : AppendItems(new)
  \/ \E index \in Indices, item \in Items : Replace(index, item)
  \/ \E index \in Indices : LookUp(index)
  \/ DropLast

SeqSpec == SeqInit /\ [][SeqNext]_seqVars
=============================================================================
