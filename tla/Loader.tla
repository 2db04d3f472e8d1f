------------------------------- MODULE Loader -------------------------------
(***************************************************************************)
(* src/src/load_bc.c: the reader of files of bytecode.  tbl_dispatch calls *)
(* the function for the section it is in until the file ends or is         *)
(* refused.  A step is one call; in the loops over characters,             *)
(* instructions and constants it is one iteration, with the states         *)
(* "chars", "code" and "konst" for where in its function a loop is.        *)
(*                                                                         *)
(* A file is a sequence of bytes.  Bytes are read in the order of a        *)
(* little-endian machine, as memcpy does there.                            *)
(***************************************************************************)
EXTENDS Integers, SequencesExt

CONSTANTS
  Programs,  \* the programs that are written to files
  Damages,   \* what a byte of a file is changed to
  Huge       \* stands for the lengths that no file has

Prefix == <<84, 66, 67, 70>>   \* "TBCF"

(***************************************************************************)
(* What docs/bytecode_fmt.md says of a file: the bytes of a program.  A    *)
(* constant comes with the bytes of its payload, and with what the program *)
(* means by it; a real is known by the int that has its four bytes.        *)
(***************************************************************************)
Number(n, size) == [i \in 1 .. size |-> CASE i = 1 -> n % 256 [] i = 2 -> n \div 256 [] OTHER -> 0]

\* The parts in a row: the last n of them, for each n.
LastJoined(parts) ==
  LET joined[n \in 0 .. Len(parts)] ==
        IF n = 0 THEN <<>> ELSE parts[Len(parts) + 1 - n] \o joined[n - 1]
  IN  joined

JoinAll(parts) == LastJoined(parts)[Len(parts)]

Tags == [nil |-> 0, bool |-> 1, int |-> 2, real |-> 3, strid |-> 4]

\* The int that four bytes stand for.
Upper(byte) == IF byte < 128 THEN byte ELSE byte - 256
IntOf(bytes) == bytes[1] + 256 * bytes[2] + 65536 * bytes[3] + 16777216 * Upper(bytes[4])

\* A payload is what the native value has in memory, and that of a bool its first byte
\* (docs/bytecode_fmt.md:18).
Meaning(konst) ==
  CASE konst.tag = "nil" -> 0
    [] konst.tag = "bool" -> IF konst.bytes[1] # 0 THEN 1 ELSE 0
    [] OTHER -> IntOf(konst.bytes)

\* What can be written: numbers have two bytes that count, and a count of zero is
\* the mark of an end, so that no string is empty and no chunk has no code.
Bytes == 0 .. 255
MaxShort == 65535
Shorts == 0 .. MaxShort
Counts == Shorts \ {0}
Instructions == [op : Bytes, flag : Bytes, wide : Shorts]
Constants == [tag : DOMAIN Tags, bytes : Seq(Bytes), means : Int]
Chunks == [code : Seq(Instructions), constants : Seq(Constants)]

ASSUME ProgramsAssumption ==
  \A program \in Programs :
    /\ program \in [entry_id : Shorts, strings : Seq(Seq(Bytes)), chunks : Seq(Chunks)]
    /\ \A n \in 1 .. Len(program.strings) : Len(program.strings[n]) \in Counts
    /\ \A n \in 1 .. Len(program.chunks) :
         LET chunk == program.chunks[n] IN
         /\ Len(chunk.code) \in Counts /\ Len(chunk.constants) \in Shorts
         /\ \A m \in 1 .. Len(chunk.constants) :
              LET konst == chunk.constants[m] IN
              Len(konst.bytes) = 4 /\ konst.means = Meaning(konst)

WrittenString(string) == Number(Len(string), 4) \o string
WrittenInst(inst) == <<inst.op, inst.flag>> \o Number(inst.wide, 2)
WrittenConst(konst) == <<Tags[konst.tag]>> \o konst.bytes

CodeParts(chunk) == [i \in DOMAIN chunk.code |-> WrittenInst(chunk.code[i])]
ConstParts(chunk) == [i \in DOMAIN chunk.constants |-> WrittenConst(chunk.constants[i])]

WrittenChunk(chunk) ==
  Number(Len(chunk.code), 8) \o JoinAll(CodeParts(chunk)) \o
    Number(Len(chunk.constants), 8) \o JoinAll(ConstParts(chunk))

StringParts(program) == [i \in DOMAIN program.strings |-> WrittenString(program.strings[i])]
ChunkParts(program) == [i \in DOMAIN program.chunks |-> WrittenChunk(program.chunks[i])]

Written(program) ==
  Prefix \o Number(program.entry_id, 4) \o
    JoinAll(StringParts(program)) \o Number(0, 4) \o JoinAll(ChunkParts(program)) \o Number(0, 8)

\* Files as they were written, cut short anywhere, or with one byte changed.
FileOf == [program \in Programs |-> Written(program)]
Cut(file) == {SubSeq(file, 1, n) : n \in 0 .. Len(file) - 1}
Changed(file) == {[file EXCEPT ![n] = byte] : n \in DOMAIN file, byte \in Damages}
Files == UNION {{FileOf[p]} \cup Cut(FileOf[p]) \cup Changed(FileOf[p]) : p \in Programs}

ASSUME FilesAssumption ==
  /\ \A file \in Files : Len(file) < Huge /\ \A n \in DOMAIN file : file[n] \in Bytes
  /\ Huge \in Nat /\ MaxShort < Huge
-----------------------------------------------------------------------------
VARIABLES
  data, pos,   \* the file and how many of its bytes are read
  state, flags,
  prgm,        \* the program loaded so far
  temp,        \* the string or chunk being read
  rc,          \* what is left to read of it
  skipped      \* history: the lengths of strings that nothing came of

loaderVars == <<data, pos, state, flags, prgm, temp, rc, skipped>>

NoProgram == [entry_id |-> 0, strings |-> <<>>, chunks |-> <<>>]
EmptyChunk == [code |-> <<>>, constants |-> <<>>]

LoaderInit ==
  /\ data \in Files
  /\ pos = 0 /\ state = "prefix" /\ flags = {}
  /\ prgm = NoProgram
  /\ temp = <<>> /\ rc = 0
  /\ skipped = 0
-----------------------------------------------------------------------------
(***************************************************************************)
(* Reading bytes.                                                          *)
(***************************************************************************)
Byte(n) == data[pos + n]

Left == Len(data) - pos

\* Unsigned numbers of four and of eight bytes; Huge when they have more than
\* two that count.
Unsigned(size) ==
  IF \E n \in 3 .. size : Byte(n) # 0 THEN Huge ELSE Byte(1) + 256 * Byte(2)

\* A real, converted to an int: the fraction is dropped.  What an int cannot
\* hold becomes the smallest int, as x86 has it.
RealAsInt(bytes) ==
  LET exponent == 2 * (bytes[4] % 128) + (bytes[3] \div 128) - 127
      mantissa == bytes[1] + 256 * bytes[2] + 65536 * (128 + (bytes[3] % 128))
      whole == IF exponent < 0 THEN 0
               ELSE IF exponent <= 23 THEN mantissa \div 2 ^ (23 - exponent)
               ELSE mantissa * 2 ^ (exponent - 23)
  IN  IF exponent > 30 THEN - (2 ^ 30) - (2 ^ 30)
      ELSE IF bytes[4] < 128 THEN whole ELSE - whole

\* alias_chomp_as_i32 and, with a conversion to an int, alias_chomp_as_f32, of
\* the four bytes behind the first n.
Payload(n) == [i \in 1 .. 4 |-> Byte(n + i)]
I32(n) == IntOf(Payload(n))
F32AsInt(n) == RealAsInt(Payload(n))

\* The file is refused: the bytes that were asked for are not there (flag
\* "unexpected_eos"), or not the right ones.  tbl_load_from throws away what
\* was loaded.
Refuse(why, at) ==
  /\ flags' = flags \cup why
  /\ state' = "err" /\ pos' = at
  /\ prgm' = NoProgram /\ temp' = <<>> /\ rc' = 0
  /\ UNCHANGED <<data, skipped>>

\* Reading n bytes takes those that are left.
Short(n) == Left < n
CutShort == Refuse({"unexpected_eos"}, Len(data))

Took(n) == pos' = pos + n /\ UNCHANGED <<data, flags>>
-----------------------------------------------------------------------------
(***************************************************************************)
(* The sections of a file.                                                 *)
(***************************************************************************)
eat_prefix ==
  /\ state = "prefix"
  /\ \/ Short(4) /\ Refuse({"invalid_byte"}, Len(data))
     \/ ~ Short(4) /\ SubSeq(data, 1, 4) # Prefix /\ Refuse({"invalid_byte"}, 4)
     \/ /\ ~ Short(4) /\ SubSeq(data, 1, 4) = Prefix
        /\ state' = "meta" /\ Took(4)
        /\ UNCHANGED <<prgm, temp, rc, skipped>>

eat_meta ==
  /\ state = "meta"
  /\ \/ Short(4) /\ CutShort
     \/ /\ ~ Short(4)
        /\ prgm' = [prgm EXCEPT !.entry_id = I32(0)]
        /\ state' = "str" /\ Took(4)
        /\ UNCHANGED <<temp, rc, skipped>>

\* Mutant: where the length is negative, the reader does not get on.
eat_str_Stay ==
  /\ state = "str"
  /\ \/ Short(4) /\ CutShort
     \/ /\ ~ Short(4) /\ Byte(4) < 128 /\ Took(4)
        /\ \/ Unsigned(4) = 0 /\ state' = "chunk" /\ UNCHANGED <<temp, rc>>
           \/ Unsigned(4) # 0 /\ state' = "chars" /\ temp' = <<>> /\ rc' = Unsigned(4)
        /\ UNCHANGED <<prgm, skipped>>

\* The length is copied to a signed int: a string of 2^31 characters or more
\* is none at all, and the next section is a string again.
eat_str ==
  /\ state = "str"
  /\ \/ Short(4) /\ CutShort
     \/ /\ ~ Short(4) /\ Took(4)
        /\ \/ /\ Unsigned(4) = 0
              /\ state' = "chunk"
              /\ UNCHANGED <<temp, rc, skipped>>
           \/ /\ Unsigned(4) # 0 /\ Byte(4) < 128
              /\ state' = "chars" /\ temp' = <<>> /\ rc' = Unsigned(4)
              /\ UNCHANGED skipped
           \/ /\ Byte(4) >= 128
              /\ skipped' = skipped + 1
              /\ UNCHANGED <<state, temp, rc>>
        /\ UNCHANGED prgm

eat_char ==
  /\ state = "chars"
  /\ \/ Short(1) /\ CutShort
     \/ /\ ~ Short(1) /\ Took(1)
        /\ \/ rc > 1 /\ temp' = Append(temp, Byte(1)) /\ rc' = rc - 1 /\ UNCHANGED <<state, prgm>>
           \/ /\ rc = 1
              /\ prgm' = [prgm EXCEPT !.strings = Append(@, Append(temp, Byte(1)))]
              /\ state' = "str" /\ temp' = <<>> /\ rc' = 0
        /\ UNCHANGED skipped

\* Mutant: a file may end where a chunk could begin.
eat_chunk_Lenient ==
  /\ state = "chunk"
  /\ \/ Short(8) /\ state' = "end" /\ UNCHANGED <<data, pos, flags, temp, rc>>
     \/ /\ ~ Short(8) /\ Took(8)
        /\ \/ Unsigned(8) = 0 /\ state' = "end" /\ UNCHANGED <<temp, rc>>
           \/ Unsigned(8) # 0 /\ state' = "code" /\ temp' = EmptyChunk /\ rc' = Unsigned(8)
  /\ UNCHANGED <<prgm, skipped>>

eat_chunk ==
  /\ state = "chunk"
  /\ \/ Short(8) /\ CutShort
     \/ /\ ~ Short(8) /\ Took(8)
        /\ \/ Unsigned(8) = 0 /\ state' = "end" /\ UNCHANGED <<temp, rc>>
           \/ Unsigned(8) # 0 /\ state' = "code" /\ temp' = EmptyChunk /\ rc' = Unsigned(8)
        /\ UNCHANGED <<prgm, skipped>>

eat_instruction ==
  /\ state = "code" /\ rc > 0
  /\ \/ Short(4) /\ CutShort
     \/ /\ ~ Short(4) /\ Took(4)
        /\ temp' = [temp EXCEPT !.code =
             Append(@, [op |-> Byte(1), flag |-> Byte(2), wide |-> Byte(3) + 256 * Byte(4)])]
        /\ rc' = rc - 1
        /\ UNCHANGED <<state, prgm, skipped>>

\* Mutant: a chunk without constants is forgotten.
PushChunk_Lost == state' = "chunk" /\ temp' = <<>> /\ rc' = 0 /\ UNCHANGED prgm

PushChunk ==
  /\ prgm' = [prgm EXCEPT !.chunks = Append(@, temp)]
  /\ state' = "chunk" /\ temp' = <<>> /\ rc' = 0

eat_konst_count ==
  /\ state = "code" /\ rc = 0
  /\ \/ Short(8) /\ CutShort
     \/ /\ ~ Short(8) /\ Took(8)
        /\ \/ Unsigned(8) = 0 /\ PushChunk
           \/ /\ Unsigned(8) # 0
              /\ state' = "konst" /\ rc' = Unsigned(8)
              /\ UNCHANGED <<prgm, temp>>
        /\ UNCHANGED skipped

Konst(tag, value) == [tag |-> tag, data |-> value]

\* make_value_str takes a uint16_t.
StrId(n) == n % (MaxShort + 1)

\* Mutant: a bool is its payload's last byte.
Constant_LastByte ==
  CASE Byte(1) = 1 -> Konst("bool", IF Byte(5) # 0 THEN 1 ELSE 0)
    [] Byte(1) = 2 -> Konst("int", I32(1))
    [] Byte(1) = 3 -> Konst("int", F32AsInt(1))
    [] Byte(1) = 4 -> Konst("strid", StrId(I32(1)))
    [] OTHER -> Konst("nil", 0)

\* A real becomes an int, and of the id of a string 16 bits are kept.
Constant ==
  CASE Byte(1) = 1 -> Konst("bool", IF Byte(2) # 0 THEN 1 ELSE 0)
    [] Byte(1) = 2 -> Konst("int", I32(1))
    [] Byte(1) = 3 -> Konst("int", F32AsInt(1))
    [] Byte(1) = 4 -> Konst("strid", StrId(I32(1)))
    [] OTHER -> Konst("nil", 0)

\* Where the payload is cut, no flag says so.
eat_konst ==
  /\ state = "konst"
  /\ \/ Short(1) /\ CutShort
     \/ ~ Short(1) /\ Short(5) /\ Refuse({}, Len(data))
     \/ /\ ~ Short(5) /\ Took(5)
        /\ LET chunk == [temp EXCEPT !.constants = Append(@, Constant)] IN
           IF rc = 1
           THEN /\ prgm' = [prgm EXCEPT !.chunks = Append(@, chunk)]
                /\ state' = "chunk" /\ temp' = <<>> /\ rc' = 0
           ELSE /\ temp' = chunk /\ rc' = rc - 1
                /\ UNCHANGED <<state, prgm>>
        /\ UNCHANGED skipped

tbl_dispatch ==
  \/ eat_prefix \/ eat_meta \/ eat_str \/ eat_char
  \/ eat_chunk \/ eat_instruction \/ eat_konst_count \/ eat_konst

LoaderSpec == LoaderInit /\ [][tbl_dispatch]_loaderVars

Ended == state \in {"end", "err"}

\* Whether an embedding program may go on to run what it got: the vectors of
\* a refused file are null.
tbasic_validate_prgm ==
  state = "end" /\ prgm.entry_id \in 0 .. Len(prgm.chunks) - 1
-----------------------------------------------------------------------------
(***************************************************************************)
(* Properties.                                                             *)
(***************************************************************************)
\* The constants that are not loaded as they were written: reals, which become ints
\* (load_bc.c:293), and string ids of more than 16 bits (value.h:75).
Lossy(konst) == konst.tag = "real" \/ (konst.tag = "strid" /\ konst.means \notin Shorts)

SameConst(konst, original) == konst = Konst(original.tag, original.means) \/ Lossy(original)

SameChunk(chunk, original) ==
  /\ chunk.code = original.code
  /\ Len(chunk.constants) = Len(original.constants)
  /\ \A n \in 1 .. Len(original.constants) : SameConst(chunk.constants[n], original.constants[n])

SameProgram(program, original) ==
  /\ program.entry_id = original.entry_id /\ program.strings = original.strings
  /\ Len(program.chunks) = Len(original.chunks)
  /\ \A n \in 1 .. Len(original.chunks) : SameChunk(program.chunks[n], original.chunks[n])

LoaderTypeOK ==
  /\ state \in {"prefix", "meta", "str", "chars", "chunk", "code", "konst", "end", "err"}
  /\ flags \subseteq {"invalid_byte", "unexpected_eos"}
  /\ pos \in 0 .. Len(data) /\ rc \in 0 .. Huge

BytesOf(chunk) == 16 + 4 * Len(chunk.code) + 5 * Len(chunk.constants)

\* The bytes of the strings and of the chunks that were read to their ends.
SumOver(sizes) ==
  LET sum[n \in 0 .. Len(sizes)] == IF n = 0 THEN 0 ELSE sum[n - 1] + sizes[n]
  IN  sum[Len(sizes)]

StringBytes == SumOver([n \in DOMAIN prgm.strings |-> 4 + Len(prgm.strings[n])])
ChunkBytes == SumOver([n \in DOMAIN prgm.chunks |-> BytesOf(prgm.chunks[n])])

\* The bytes of the section that is being read.
BytesOpen ==
  CASE state = "str" -> 0
    [] state = "chars" -> 4 + Len(temp)
    [] state = "chunk" -> 4
    [] state = "code" -> 4 + 8 + 4 * Len(temp.code)
    [] state = "konst" -> 4 + BytesOf(temp)
    [] state = "end" -> 4 + 8

\* Wherever a length or a tag was damaged, each byte that was read belongs to
\* one item of the program, or to the length of a string that was skipped: no
\* section is read twice, in part, or as another (the loops of tbl_eat_str and
\* tbl_eat_chunk).
AccountedFor ==
  state \notin {"prefix", "meta", "err"} =>
    pos = 8 + 4 * skipped + StringBytes + ChunkBytes + BytesOpen

LoaderInv == LoaderTypeOK /\ AccountedFor

\* A file that holds a program as docs/bytecode_fmt.md says is accepted, and
\* the program that is loaded is the one that was written: its entry, strings
\* and chunks, each in its place, each constant with its type and its value, except
\* that nothing is said of the value of a real or of a string id above 65535
\* (tbl_load_from).
LoadsAsWritten ==
  Ended => \A program \in Programs :
             data = FileOf[program] => state = "end" /\ flags = {} /\ SameProgram(prgm, program)

\* A file cut short, at whichever byte, is refused, and no part of it is left
\* to run.  A flag says so, except where the cut goes through the payload of a
\* constant (load_bc.c:275).
RefusesCutFiles ==
  Ended => \A program \in Programs :
             IsStrictPrefix(data, FileOf[program]) =>
               /\ state = "err" /\ ~ tbasic_validate_prgm
               /\ flags = {} => \E chunk \in ToSet(program.chunks) : chunk.constants # <<>>

\* Whatever the bytes say, loading ends (tbl_dispatch).
LoadEnds == <>Ended
=============================================================================
