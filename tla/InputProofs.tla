---------------------------- MODULE InputProofs ----------------------------
(***************************************************************************)
(* Theorems about what the program reads: files of bytecode, for every set *)
(* of programs, every damage, and files of any length, and sources of any  *)
(* length.                                                                 *)
(*                                                                         *)
(* The first part is about the bytes of a file, the second about the       *)
(* reader whatever the file is, the third about files that begin as a      *)
(* program does: there the reader has read what was written, up to where   *)
(* it is (OnCourse).  The fourth is about the lexer.                       *)
(***************************************************************************)
EXTENDS Loader, Lexer, SequenceTheorems, FiniteSetTheorems, Recursion, TLAPS

\* The joins of the last parts, one part after the other.
LEMMA JoinTurns ==
  ASSUME NEW S, NEW parts \in Seq(Seq(S))
  PROVE  /\ LastJoined(parts) \in [0 .. Len(parts) -> Seq(S)]
         /\ LastJoined(parts)[0] = <<>>
         /\ \A n \in 1 .. Len(parts) :
              LastJoined(parts)[n] = parts[Len(parts) + 1 - n] \o LastJoined(parts)[n - 1]
<1> DEFINE T == Seq(S)
           k == Len(parts)
           Turn(n, s) == parts[k + 1 - n] \o s
           next == [n \in 1 .. k |-> [s \in T |-> Turn(n, s)]]
<1>1. k \in Nat
  OBVIOUS
<1>2. ASSUME NEW n \in 1 .. k, NEW s \in T
      PROVE  Turn(n, s) \in T
  <2>1. k + 1 - n \in 1 .. k
    BY <1>1
  <2>2. parts[k + 1 - n] \in T
    BY <2>1
  <2> QED BY <2>2, ConcatProperties
<1>3. <<>> \in T
  OBVIOUS
<1> HIDE DEF T, k, Turn
<1>4. next \in [1 .. k -> [T -> T]]
  BY <1>2
<1> HIDE DEF next
<1>5. PICK f \in [0 .. k -> T] : Follows(f, k, <<>>, next)
  BY <1>1, <1>3, <1>4, RecursiveFunction
<1>6. ASSUME NEW n \in 1 .. k
      PROVE  f[n] = Turn(n, f[n - 1])
  <2>1. n - 1 \in 0 .. k
    BY <1>1
  <2>2. f[n - 1] \in T
    BY <2>1, <1>5
  <2>3. f[n] = next[n][f[n - 1]]
    BY <1>5 DEF Follows
  <2> QED BY <2>2, <2>3 DEF next
<1>7. f[0] = <<>>
  BY <1>5 DEF Follows
<1> DEFINE IsJoin(r) == r = [n \in 0 .. k |-> IF n = 0 THEN <<>> ELSE Turn(n, r[n - 1])]
<1>8. IsJoin(f)
  <2>1. ASSUME NEW n \in 0 .. k
        PROVE  f[n] = IF n = 0 THEN <<>> ELSE Turn(n, f[n - 1])
    BY <1>1, <1>6, <1>7
  <2> QED BY <2>1, <1>5
<1>9. LastJoined(parts) = CHOOSE r : IsJoin(r)
  BY DEF LastJoined, k, Turn
<1>10. IsJoin(LastJoined(parts))
  <2> HIDE DEF IsJoin
  <2> QED BY <1>8, <1>9
<1> DEFINE r == LastJoined(parts)
<1>11. r = [n \in 0 .. k |-> IF n = 0 THEN <<>> ELSE Turn(n, r[n - 1])]
  BY <1>10
<1> HIDE DEF r
<1>12. r[0] = <<>> /\ \A n \in 1 .. k : r[n] = Turn(n, r[n - 1])
  BY <1>1, <1>11
<1>13. \A n \in 0 .. k : r[n] \in T
  <2> DEFINE G == {n \in 0 .. k : r[n] \in T}
  <2>1. 0 \in G
    BY <1>1, <1>3, <1>12
  <2>2. ASSUME NEW n \in 1 .. k, n - 1 \in G
        PROVE  n \in G
    <3>1. r[n - 1] \in T /\ n \in 0 .. k
      BY <2>2, <1>1
    <3> QED BY <3>1, <1>2, <1>12
  <2> HIDE DEF G
  <2>3. 0 .. k \subseteq G
    BY <1>1, <2>1, <2>2, UpTo
  <2> QED BY <2>3 DEF G
<1>14. r \in [0 .. k -> T]
  BY <1>11, <1>13
<1> QED BY <1>12, <1>14 DEF r, k, T, Turn

\* The sums of the first sizes, one size after the other.
LEMMA SumTurns ==
  ASSUME NEW sizes \in Seq(Nat)
  PROVE  \E f \in [0 .. Len(sizes) -> Nat] :
           /\ f[0] = 0 /\ \A n \in 1 .. Len(sizes) : f[n] = f[n - 1] + sizes[n]
           /\ SumOver(sizes) = f[Len(sizes)]
<1> DEFINE k == Len(sizes)
           next == [n \in 1 .. k |-> [s \in Nat |-> s + sizes[n]]]
<1>1. k \in Nat
  OBVIOUS
<1>2. \A n \in 1 .. k : sizes[n] \in Nat
  OBVIOUS
<1> HIDE DEF k
<1>4. next \in [1 .. k -> [Nat -> Nat]]
  BY <1>2
<1> HIDE DEF next
<1>5. PICK f \in [0 .. k -> Nat] : Follows(f, k, 0, next)
  BY <1>1, <1>4, RecursiveFunction
<1>6. ASSUME NEW n \in 1 .. k
      PROVE  f[n] = f[n - 1] + sizes[n]
  <2>1. n - 1 \in 0 .. k
    BY <1>1
  <2>2. f[n - 1] \in Nat
    BY <2>1, <1>5
  <2>3. f[n] = next[n][f[n - 1]]
    BY <1>5 DEF Follows
  <2> QED BY <2>2, <2>3 DEF next
<1>7. f[0] = 0
  BY <1>5 DEF Follows
<1> DEFINE IsSum(r) == r = [n \in 0 .. k |-> IF n = 0 THEN 0 ELSE r[n - 1] + sizes[n]]
<1>8. IsSum(f)
  <2>1. ASSUME NEW n \in 0 .. k
        PROVE  f[n] = IF n = 0 THEN 0 ELSE f[n - 1] + sizes[n]
    BY <1>1, <1>6, <1>7
  <2> QED BY <2>1, <1>5
<1>9. SumOver(sizes) = (CHOOSE r : IsSum(r))[k]
  BY DEF SumOver, k
<1>10. PICK r : r = CHOOSE g : IsSum(g)
  OBVIOUS
<1>11. IsSum(r)
  <2> HIDE DEF IsSum
  <2> QED BY <1>8, <1>10
<1>12. r[0] = 0 /\ \A n \in 1 .. k : r[n] = r[n - 1] + sizes[n]
  BY <1>1, <1>11
<1>13. \A n \in 0 .. k : r[n] \in Nat
  <2> DEFINE G == {n \in 0 .. k : r[n] \in Nat}
  <2>1. 0 \in G
    BY <1>1, <1>12
  <2>2. ASSUME NEW n \in 1 .. k, n - 1 \in G
        PROVE  n \in G
    <3>1. r[n - 1] \in Nat /\ n \in 0 .. k
      BY <2>2, <1>1
    <3>2. r[n] = r[n - 1] + sizes[n] /\ sizes[n] \in Nat
      BY <1>2, <1>12
    <3> QED BY <3>1, <3>2
  <2> HIDE DEF G
  <2>3. 0 .. k \subseteq G
    BY <1>1, <2>1, <2>2, UpTo
  <2> QED BY <2>3 DEF G
<1>14. r \in [0 .. k -> Nat]
  BY <1>11, <1>13
<1>15. SumOver(sizes) = r[k]
  BY <1>9, <1>10
<1> QED BY <1>12, <1>14, <1>15 DEF k

\* A sum with one more addend.
LEMMA SumAppend ==
  ASSUME NEW sizes \in Seq(Nat), NEW more \in Nat
  PROVE  /\ SumOver(sizes) \in Nat
         /\ SumOver(Append(sizes, more)) = SumOver(sizes) + more
<1>1. PICK k \in Nat : k = Len(sizes)
  OBVIOUS
<1>2. PICK longer \in Seq(Nat) : longer = Append(sizes, more)
  BY AppendProperties
<1>3. /\ Len(longer) = k + 1 /\ longer[k + 1] = more
      /\ \A n \in 1 .. k : longer[n] = sizes[n] /\ sizes[n] \in Nat
  BY <1>1, <1>2
<1>4. PICK f \in [0 .. k -> Nat] :
        /\ f[0] = 0 /\ \A n \in 1 .. k : f[n] = f[n - 1] + sizes[n]
        /\ SumOver(sizes) = f[k]
  BY <1>1, SumTurns
<1>5. PICK g \in [0 .. k + 1 -> Nat] :
        /\ g[0] = 0 /\ \A n \in 1 .. k + 1 : g[n] = g[n - 1] + longer[n]
        /\ SumOver(longer) = g[k + 1]
  BY <1>3, SumTurns
<1>6. \A n \in 0 .. k : g[n] = f[n]
  <2> DEFINE G == {n \in 0 .. k : g[n] = f[n]}
  <2>1. 0 \in G
    BY <1>4, <1>5
  <2>2. ASSUME NEW n \in 1 .. k, n - 1 \in G
        PROVE  n \in G
    BY <2>2, <1>3, <1>4, <1>5
  <2> HIDE DEF G
  <2>3. 0 .. k \subseteq G
    BY <2>1, <2>2, UpTo
  <2> QED BY <2>3 DEF G
<1>7. g[k + 1] = g[k] + more /\ f[k] \in Nat
  BY <1>3, <1>4, <1>5
<1> QED BY <1>2, <1>4, <1>5, <1>6, <1>7

\* What a concatenation consists of.
LEMMA ConcatOf ==
  ASSUME NEW S, NEW s \in Seq(S), NEW t \in Seq(S)
  PROVE  /\ s \o t \in Seq(S) /\ Len(s \o t) = Len(s) + Len(t)
         /\ Len(s) \in Nat /\ Len(t) \in Nat
         /\ \A i \in 1 .. Len(s) : (s \o t)[i] = s[i]
         /\ \A i \in 1 .. Len(t) : (s \o t)[Len(s) + i] = t[i]
<1>1. PICK both : both = s \o t
  OBVIOUS
<1>2. /\ both \in Seq(S) /\ Len(both) = Len(s) + Len(t)
      /\ \A i \in 1 .. Len(s) + Len(t) : both[i] = IF i <= Len(s) THEN s[i] ELSE t[i - Len(s)]
  BY <1>1, ConcatProperties
<1>3. Len(s) \in Nat /\ Len(t) \in Nat
  OBVIOUS
<1>4. ASSUME NEW i \in 1 .. Len(s) PROVE both[i] = s[i]
  BY <1>2, <1>3
<1>5. ASSUME NEW i \in 1 .. Len(t) PROVE both[Len(s) + i] = t[i]
  BY <1>2, <1>3
<1> QED BY <1>1, <1>2, <1>3, <1>4, <1>5

\* Numbers of two bytes, and counts.
LEMMA ShortFacts ==
  /\ 0 \in Shorts /\ Shorts \subseteq Nat /\ Counts = Shorts \ {0} /\ Counts \subseteq Nat \ {0}
  /\ MaxShort \in Nat /\ \A n \in Shorts : n <= MaxShort
<1>1. MaxShort \in Nat
  BY SMT DEF MaxShort
<1> QED BY <1>1 DEF Shorts, Counts

\* A number is written in the bytes that count and in zeros.
LEMMA NumberTyped ==
  ASSUME NEW n \in Shorts, NEW size \in {2, 4, 8}
  PROVE  /\ Number(n, size) \in Seq(Bytes) /\ Len(Number(n, size)) = size
         /\ Number(n, size)[1] + 256 * Number(n, size)[2] = n
         /\ \A i \in 3 .. size : Number(n, size)[i] = 0
<1>1. n % 256 \in Bytes /\ n \div 256 \in Bytes /\ (n % 256) + 256 * (n \div 256) = n
  BY SMT DEF Bytes, Shorts, MaxShort
<1>2. PICK low \in Bytes : low = n % 256
  BY <1>1
<1>3. PICK high \in Bytes : high = n \div 256
  BY <1>1
<1>4. PICK number : number = Number(n, size)
  OBVIOUS
<1>5. number = [i \in 1 .. size |-> CASE i = 1 -> low [] i = 2 -> high [] OTHER -> 0]
  BY <1>2, <1>3, <1>4 DEF Number
<1>6. size \in Nat /\ size >= 2 /\ 0 \in Bytes
  BY DEF Bytes
<1>7. \A i \in 1 .. size : number[i] = IF i = 1 THEN low ELSE IF i = 2 THEN high ELSE 0
  BY <1>5
<1>8. number = [i \in 1 .. size |-> number[i]]
  BY <1>5
<1>9. \A i \in 1 .. size : number[i] \in Bytes
  BY <1>6, <1>7
<1>10. number \in Seq(Bytes) /\ Len(number) = size
  BY <1>6, <1>8, <1>9
<1>11. number[1] = low /\ number[2] = high /\ \A i \in 3 .. size : number[i] = 0
  BY <1>6, <1>7
<1> QED BY <1>1, <1>2, <1>3, <1>4, <1>10, <1>11

\* The tags of constants (ByteCodeTag).
LEMMA TagValues ==
  /\ DOMAIN Tags = {"nil", "bool", "int", "real", "strid"}
  /\ Tags["nil"] = 0 /\ Tags["bool"] = 1 /\ Tags["int"] = 2 /\ Tags["real"] = 3 /\ Tags["strid"] = 4
BY DEF Tags

\* A byte and four more.
LEMMA ByteAndMore ==
  ASSUME NEW t \in Bytes, NEW second \in Seq(Bytes), Len(second) = 4
  PROVE  /\ <<t>> \o second \in Seq(Bytes) /\ Len(<<t>> \o second) = 5
         /\ (<<t>> \o second)[1] = t
         /\ \A i \in 1 .. 4 : (<<t>> \o second)[i + 1] = second[i]
<1>0. <<t>> \in Seq(Bytes)
  OBVIOUS
<1>1. PICK first \in Seq(Bytes) : first = <<t>>
  BY <1>0, Zenon
<1>2. Len(first) = 1 /\ first[1] = t
  BY <1>1
<1>3. /\ first \o second \in Seq(Bytes) /\ Len(first \o second) = Len(first) + Len(second)
      /\ \A i \in 1 .. Len(first) : (first \o second)[i] = first[i]
      /\ \A i \in 1 .. Len(second) : (first \o second)[Len(first) + i] = second[i]
  BY ConcatOf
<1>4. Len(first \o second) = 5 /\ (first \o second)[1] = t
      /\ \A i \in 1 .. 4 : (first \o second)[i + 1] = second[i]
  BY <1>2, <1>3
<1> QED BY <1>1, <1>3, <1>4, Zenon

\* A constant is written as its tag and its payload.
LEMMA ConstTyped ==
  ASSUME NEW konst \in Constants, Len(konst.bytes) = 4
  PROVE  /\ WrittenConst(konst) \in Seq(Bytes) /\ Len(WrittenConst(konst)) = 5
         /\ WrittenConst(konst)[1] = Tags[konst.tag]
         /\ \A i \in 1 .. 4 : WrittenConst(konst)[i + 1] = konst.bytes[i]
<1>1. konst.bytes \in Seq(Bytes) /\ konst.tag \in DOMAIN Tags
  BY DEF Constants
<1>2. Tags[konst.tag] \in Bytes
  <2>1. PICK tag : tag = konst.tag /\ tag \in {"nil", "bool", "int", "real", "strid"}
    BY <1>1, TagValues
  <2>2. Tags[tag] \in {0, 1, 2, 3, 4}
    BY <2>1, TagValues
  <2>3. {0, 1, 2, 3, 4} \subseteq Bytes
    BY DEF Bytes
  <2> QED BY <2>1, <2>2, <2>3
<1>3. PICK t \in Bytes : t = Tags[konst.tag]
  BY <1>2
<1>4. WrittenConst(konst) = <<t>> \o konst.bytes
  BY <1>3, Zenon DEF WrittenConst
<1> QED BY <1>1, <1>3, <1>4, ByteAndMore

\* An instruction is written as four bytes.
LEMMA InstTyped ==
  ASSUME NEW inst \in Instructions
  PROVE  /\ WrittenInst(inst) \in Seq(Bytes) /\ Len(WrittenInst(inst)) = 4
         /\ WrittenInst(inst)[1] = inst.op /\ WrittenInst(inst)[2] = inst.flag
         /\ WrittenInst(inst)[3] + 256 * WrittenInst(inst)[4] = inst.wide
<1>1. inst.op \in Bytes /\ inst.flag \in Bytes /\ inst.wide \in Shorts
  BY DEF Instructions
<1>2. PICK first : first = <<inst.op, inst.flag>>
  OBVIOUS
<1>3. first \in Seq(Bytes) /\ Len(first) = 2 /\ first[1] = inst.op /\ first[2] = inst.flag
  BY <1>1, <1>2
<1>4. PICK wide : wide = Number(inst.wide, 2)
  OBVIOUS
<1>5. wide \in Seq(Bytes) /\ Len(wide) = 2 /\ wide[1] + 256 * wide[2] = inst.wide
  BY <1>1, <1>4, NumberTyped
<1>6. PICK four : four = first \o wide
  OBVIOUS
<1>7. /\ four \in Seq(Bytes) /\ Len(four) = 4
      /\ \A i \in 1 .. 4 : four[i] = IF i <= 2 THEN first[i] ELSE wide[i - 2]
  <2>1. first \in Seq(Bytes) /\ wide \in Seq(Bytes) /\ Len(first) + Len(wide) = 4 /\ Len(first) = 2
    BY <1>3, <1>5
  <2> QED BY <2>1, <1>6, ConcatProperties
<1>8. four[1] = first[1] /\ four[2] = first[2] /\ four[3] = wide[1] /\ four[4] = wide[2]
  BY <1>7
<1>9. four = WrittenInst(inst)
  BY <1>2, <1>4, <1>6 DEF WrittenInst
<1> QED BY <1>3, <1>5, <1>7, <1>8, <1>9

\* Parts, and all of them joined.
LEMMA PartsTyped ==
  ASSUME NEW S, NEW parts, NEW n \in Nat, DOMAIN parts = 1 .. n, parts = [i \in 1 .. n |-> parts[i]],
         \A i \in 1 .. n : parts[i] \in Seq(S)
  PROVE  /\ parts \in Seq(Seq(S)) /\ Len(parts) = n
         /\ LastJoined(parts) \in [0 .. n -> Seq(S)]
         /\ JoinAll(parts) = LastJoined(parts)[n] /\ JoinAll(parts) \in Seq(S)
<1>1. parts \in Seq(Seq(S)) /\ Len(parts) = n
  OBVIOUS
<1>2. LastJoined(parts) \in [0 .. n -> Seq(S)]
  BY <1>1, JoinTurns
<1> QED BY <1>1, <1>2 DEF JoinAll

\* The bytes that a chunk is written as: its four items.
LEMMA ChunkTyped ==
  ASSUME NEW chunk \in Chunks, Len(chunk.code) \in Counts, Len(chunk.constants) \in Shorts,
         \A m \in 1 .. Len(chunk.constants) : Len(chunk.constants[m].bytes) = 4
  PROVE  /\ CodeParts(chunk) \in Seq(Seq(Bytes)) /\ Len(CodeParts(chunk)) = Len(chunk.code)
         /\ ConstParts(chunk) \in Seq(Seq(Bytes)) /\ Len(ConstParts(chunk)) = Len(chunk.constants)
         /\ \A i \in 1 .. Len(chunk.code) : CodeParts(chunk)[i] = WrittenInst(chunk.code[i])
         /\ \A i \in 1 .. Len(chunk.constants) : ConstParts(chunk)[i] = WrittenConst(chunk.constants[i])
         /\ JoinAll(CodeParts(chunk)) \in Seq(Bytes) /\ JoinAll(ConstParts(chunk)) \in Seq(Bytes)
         /\ WrittenChunk(chunk) \in Seq(Bytes)
<1>1. chunk.code \in Seq(Instructions) /\ chunk.constants \in Seq(Constants)
  BY DEF Chunks
<1>2. PICK n \in Nat : n = Len(chunk.code) /\ n \in Shorts /\ DOMAIN chunk.code = 1 .. n
  BY <1>1 DEF Counts, Shorts
<1>3. PICK m \in Nat : m = Len(chunk.constants) /\ m \in Shorts /\ DOMAIN chunk.constants = 1 .. m
  BY <1>1 DEF Counts, Shorts
<1>4. \A i \in 1 .. n : WrittenInst(chunk.code[i]) \in Seq(Bytes)
  BY <1>1, <1>2, InstTyped
<1>5. \A i \in 1 .. m : WrittenConst(chunk.constants[i]) \in Seq(Bytes)
  BY <1>1, <1>3, ConstTyped
<1>6. PICK code : code = CodeParts(chunk)
  OBVIOUS
<1>7. PICK constants : constants = ConstParts(chunk)
  OBVIOUS
<1>8. code = [i \in 1 .. n |-> WrittenInst(chunk.code[i])]
  BY <1>2, <1>6 DEF CodeParts
<1>9. constants = [i \in 1 .. m |-> WrittenConst(chunk.constants[i])]
  BY <1>3, <1>7 DEF ConstParts
<1>10. /\ DOMAIN code = 1 .. n /\ code = [i \in 1 .. n |-> code[i]]
       /\ \A i \in 1 .. n : code[i] \in Seq(Bytes) /\ code[i] = WrittenInst(chunk.code[i])
  BY <1>4, <1>8
<1>11. /\ DOMAIN constants = 1 .. m /\ constants = [i \in 1 .. m |-> constants[i]]
       /\ \A i \in 1 .. m : constants[i] \in Seq(Bytes) /\ constants[i] = WrittenConst(chunk.constants[i])
  BY <1>5, <1>9
<1>12. code \in Seq(Seq(Bytes)) /\ Len(code) = n /\ JoinAll(code) \in Seq(Bytes)
  <2>1. \A i \in 1 .. n : code[i] \in Seq(Bytes)
    BY <1>10
  <2>2. DOMAIN code = 1 .. n /\ code = [i \in 1 .. n |-> code[i]]
    BY <1>10
  <2> QED BY <2>1, <2>2, PartsTyped
<1>13. constants \in Seq(Seq(Bytes)) /\ Len(constants) = m /\ JoinAll(constants) \in Seq(Bytes)
  <2>1. \A i \in 1 .. m : constants[i] \in Seq(Bytes)
    BY <1>11
  <2>2. DOMAIN constants = 1 .. m /\ constants = [i \in 1 .. m |-> constants[i]]
    BY <1>11
  <2> QED BY <2>1, <2>2, PartsTyped
<1>14. Number(n, 8) \in Seq(Bytes) /\ Number(m, 8) \in Seq(Bytes)
  BY <1>2, <1>3, NumberTyped
<1>15. WrittenChunk(chunk) = Number(n, 8) \o JoinAll(code) \o Number(m, 8) \o JoinAll(constants)
  BY <1>2, <1>3, <1>6, <1>7 DEF WrittenChunk
<1>16. WrittenChunk(chunk) \in Seq(Bytes)
  BY <1>12, <1>13, <1>14, <1>15, ConcatProperties
<1> QED BY <1>2, <1>3, <1>6, <1>7, <1>10, <1>11, <1>12, <1>13, <1>16

\* The same for a program, whose bytes are seven items.
LEMMA ProgramTyped ==
  ASSUME NEW p \in Programs
  PROVE  /\ p.entry_id \in Shorts
         /\ p.strings \in Seq(Seq(Bytes)) /\ p.chunks \in Seq(Chunks)
         /\ StringParts(p) \in Seq(Seq(Bytes)) /\ Len(StringParts(p)) = Len(p.strings)
         /\ ChunkParts(p) \in Seq(Seq(Bytes)) /\ Len(ChunkParts(p)) = Len(p.chunks)
         /\ \A i \in 1 .. Len(p.strings) : StringParts(p)[i] = WrittenString(p.strings[i])
         /\ \A i \in 1 .. Len(p.chunks) : ChunkParts(p)[i] = WrittenChunk(p.chunks[i])
         /\ JoinAll(StringParts(p)) \in Seq(Bytes) /\ JoinAll(ChunkParts(p)) \in Seq(Bytes)
         /\ Written(p) \in Seq(Bytes)
<1>1. /\ p.strings \in Seq(Seq(Bytes)) /\ p.chunks \in Seq(Chunks) /\ p.entry_id \in Shorts
      /\ \A n \in 1 .. Len(p.strings) : Len(p.strings[n]) \in Counts
      /\ \A n \in 1 .. Len(p.chunks) :
           /\ Len(p.chunks[n].code) \in Counts /\ Len(p.chunks[n].constants) \in Shorts
           /\ \A m \in 1 .. Len(p.chunks[n].constants) : Len(p.chunks[n].constants[m].bytes) = 4
  BY ProgramsAssumption
<1>2. PICK n \in Nat : n = Len(p.strings) /\ DOMAIN p.strings = 1 .. n
  BY <1>1
<1>3. PICK m \in Nat : m = Len(p.chunks) /\ DOMAIN p.chunks = 1 .. m
  BY <1>1
<1>4. ASSUME NEW i \in 1 .. n PROVE WrittenString(p.strings[i]) \in Seq(Bytes)
  <2>1. p.strings[i] \in Seq(Bytes) /\ Len(p.strings[i]) \in Shorts
    BY <1>1, <1>2 DEF Counts, Shorts
  <2>2. Number(Len(p.strings[i]), 4) \in Seq(Bytes)
    BY <2>1, NumberTyped
  <2> QED BY <2>1, <2>2, ConcatProperties DEF WrittenString
<1>5. ASSUME NEW i \in 1 .. m PROVE WrittenChunk(p.chunks[i]) \in Seq(Bytes)
  <2>1. p.chunks[i] \in Chunks
    BY <1>1, <1>3
  <2> QED BY <2>1, <1>1, <1>3, ChunkTyped
<1>6. PICK strings : strings = StringParts(p)
  OBVIOUS
<1>7. PICK chunks : chunks = ChunkParts(p)
  OBVIOUS
<1>8. strings = [i \in 1 .. n |-> WrittenString(p.strings[i])]
  BY <1>2, <1>6 DEF StringParts
<1>9. chunks = [i \in 1 .. m |-> WrittenChunk(p.chunks[i])]
  BY <1>3, <1>7 DEF ChunkParts
<1>10. /\ DOMAIN strings = 1 .. n /\ strings = [i \in 1 .. n |-> strings[i]]
       /\ \A i \in 1 .. n : strings[i] \in Seq(Bytes) /\ strings[i] = WrittenString(p.strings[i])
  BY <1>4, <1>8
<1>11. /\ DOMAIN chunks = 1 .. m /\ chunks = [i \in 1 .. m |-> chunks[i]]
       /\ \A i \in 1 .. m : chunks[i] \in Seq(Bytes) /\ chunks[i] = WrittenChunk(p.chunks[i])
  BY <1>5, <1>9
<1>12. strings \in Seq(Seq(Bytes)) /\ Len(strings) = n /\ JoinAll(strings) \in Seq(Bytes)
  BY <1>10, PartsTyped
<1>13. chunks \in Seq(Seq(Bytes)) /\ Len(chunks) = m /\ JoinAll(chunks) \in Seq(Bytes)
  BY <1>11, PartsTyped
<1>14. /\ Number(p.entry_id, 4) \in Seq(Bytes) /\ Number(0, 4) \in Seq(Bytes) /\ Number(0, 8) \in Seq(Bytes)
  <2>1. 0 \in Shorts /\ p.entry_id \in Shorts
    BY <1>1, ShortFacts
  <2>2. \A s \in Shorts : Number(s, 4) \in Seq(Bytes) /\ Number(s, 8) \in Seq(Bytes)
    BY NumberTyped
  <2> QED BY <2>1, <2>2
<1>15. Prefix \in Seq(Bytes)
  BY DEF Prefix, Bytes
<1>16. Written(p) = Prefix \o Number(p.entry_id, 4) \o JoinAll(strings) \o Number(0, 4) \o
                      JoinAll(chunks) \o Number(0, 8)
  BY <1>6, <1>7 DEF Written
<1>17. Written(p) \in Seq(Bytes)
  <2>1. Prefix \o Number(p.entry_id, 4) \in Seq(Bytes)
    BY <1>14, <1>15, ConcatProperties
  <2>2. Prefix \o Number(p.entry_id, 4) \o JoinAll(strings) \in Seq(Bytes)
    BY <2>1, <1>12, ConcatProperties
  <2>3. Prefix \o Number(p.entry_id, 4) \o JoinAll(strings) \o Number(0, 4) \in Seq(Bytes)
    BY <2>2, <1>14, ConcatProperties
  <2>4. Prefix \o Number(p.entry_id, 4) \o JoinAll(strings) \o Number(0, 4) \o JoinAll(chunks) \in Seq(Bytes)
    BY <2>3, <1>13, ConcatProperties
  <2> QED BY <2>4, <1>14, <1>16, ConcatProperties
<1> QED BY <1>1, <1>2, <1>3, <1>6, <1>7, <1>10, <1>11, <1>12, <1>13, <1>17

\* A file is a sequence of bytes, also when it is cut or changed.
LEMMA FilesTyped == \A file \in Files : file \in Seq(Bytes)
<1> SUFFICES ASSUME NEW file \in Files PROVE file \in Seq(Bytes)
  OBVIOUS
<1>1. PICK p \in Programs : file \in {FileOf[p]} \cup Cut(FileOf[p]) \cup Changed(FileOf[p])
  BY DEF Files
<1>2. PICK w \in Seq(Bytes) : w = FileOf[p]
  BY ProgramTyped DEF FileOf
<1>3. CASE file = w
  BY <1>3
<1>4. CASE file \in Cut(w)
  <2>1. PICK n \in 0 .. Len(w) - 1 : file = SubSeq(w, 1, n)
    BY <1>4 DEF Cut
  <2>2. n \in Int /\ \A i \in 1 .. n : w[i] \in Bytes
    BY <1>2
  <2> QED BY <2>1, <2>2, SubSeqProperties
<1>5. CASE file \in Changed(w)
  <2>1. PICK n \in DOMAIN w, byte \in Damages : file = [w EXCEPT ![n] = byte]
    BY <1>5 DEF Changed
  <2>2. DOMAIN file = DOMAIN w /\ DOMAIN w = 1 .. Len(w) /\ Len(w) \in Nat
    BY <2>1
  <2>3. \A i \in 1 .. Len(w) : file[i] \in Bytes
    BY <2>2, FilesAssumption
  <2>4. file = [i \in 1 .. Len(w) |-> file[i]]
    BY <2>1, <2>2
  <2> QED BY <2>2, <2>3, <2>4
<1> QED BY <1>1, <1>2, <1>3, <1>4, <1>5

(***************************************************************************)
(* The reader, whatever the file is.                                       *)
(***************************************************************************)
Data ==
  Shorts \cup {IntOf(bytes) : bytes \in [1 .. 4 -> Bytes]} \cup {RealAsInt(bytes) : bytes \in [1 .. 4 -> Bytes]}

LoadedValues == [tag : {"nil", "bool", "int", "strid"}, data : Data]
LoadedChunks == [code : Seq(Instructions), constants : Seq(LoadedValues)]
LoadedPrograms == [entry_id : Data, strings : Seq(Seq(Bytes)), chunks : Seq(LoadedChunks)]

\* What is read has the types of a program, and each loop has a turn to go.
Reading ==
  /\ data \in Seq(Bytes) /\ prgm \in LoadedPrograms /\ skipped \in Nat
  /\ state \in {"prefix", "meta"} =>
       prgm = NoProgram /\ skipped = 0 /\ pos = IF state = "prefix" THEN 0 ELSE 4
  /\ state = "chars" => temp \in Seq(Bytes) /\ rc >= 1
  /\ state = "code" => temp \in LoadedChunks /\ temp.constants = <<>>
  /\ state = "konst" => temp \in LoadedChunks /\ rc >= 1

LoaderIInv == LoaderInv /\ Reading

\* What a chunk that was read consists of.
LEMMA LoadedChunkTyped ==
  ASSUME NEW chunk \in LoadedChunks
  PROVE  /\ chunk.code \in Seq(Instructions) /\ chunk.constants \in Seq(LoadedValues)
         /\ Len(chunk.code) \in Nat /\ Len(chunk.constants) \in Nat
         /\ BytesOf(chunk) \in Nat
         /\ BytesOf(chunk) = 16 + 4 * Len(chunk.code) + 5 * Len(chunk.constants)
<1>1. chunk.code \in Seq(Instructions) /\ chunk.constants \in Seq(LoadedValues)
  BY DEF LoadedChunks
<1>2. Len(chunk.code) \in Nat /\ Len(chunk.constants) \in Nat
  BY <1>1
<1>3. PICK n \in Nat : n = Len(chunk.code)
  BY <1>2
<1>4. PICK m \in Nat : m = Len(chunk.constants)
  BY <1>2
<1>5. BytesOf(chunk) = 16 + 4 * n + 5 * m
  BY <1>3, <1>4 DEF BytesOf
<1>6. 16 + 4 * n + 5 * m \in Nat
  OBVIOUS
<1> QED BY <1>1, <1>2, <1>3, <1>4, <1>5, <1>6

\* What is loaded grows by a string or by a chunk.
Sizes(items, size) == [n \in DOMAIN items |-> size[items[n]]]

\* One more size makes the sum greater by it.
LEMMA SizesAppend ==
  ASSUME NEW S, NEW items \in Seq(S), NEW more \in S, NEW size \in [S -> Nat]
  PROVE  /\ SumOver(Sizes(items, size)) \in Nat
         /\ SumOver(Sizes(Append(items, more), size)) = SumOver(Sizes(items, size)) + size[more]
<1>0. PICK a : a = Sizes(items, size)
  OBVIOUS
<1>1. PICK k \in Nat : k = Len(items) /\ DOMAIN items = 1 .. k
  OBVIOUS
<1>2. PICK longer \in Seq(S) : longer = Append(items, more)
  BY AppendProperties
<1>b. PICK b : b = Sizes(longer, size)
  OBVIOUS
<1>3. /\ Len(longer) = k + 1 /\ DOMAIN longer = 1 .. k + 1
      /\ longer[k + 1] = more /\ \A n \in 1 .. k : longer[n] = items[n]
  BY <1>1, <1>2, AppendProperties
<1>4. a \in Seq(Nat) /\ Len(a) = k /\ \A n \in 1 .. k : a[n] = size[items[n]]
  <2>1. a = [n \in 1 .. k |-> size[items[n]]]
    BY <1>0, <1>1 DEF Sizes
  <2>2. \A n \in 1 .. k : size[items[n]] \in Nat
    BY <1>1
  <2> QED BY <2>1, <2>2
<1>5. b \in Seq(Nat) /\ Len(b) = k + 1 /\ \A n \in 1 .. k + 1 : b[n] = size[longer[n]]
  <2>1. b = [n \in 1 .. k + 1 |-> size[longer[n]]]
    BY <1>b, <1>3 DEF Sizes
  <2>2. \A n \in 1 .. k + 1 : size[longer[n]] \in Nat
    BY <1>3
  <2> QED BY <2>1, <2>2
<1>6. PICK m \in Nat : m = size[more]
  OBVIOUS
<1>7. PICK c \in Seq(Nat) : c = Append(a, m)
  BY <1>4, AppendProperties
<1>8. Len(c) = k + 1 /\ c[k + 1] = m /\ \A n \in 1 .. k : c[n] = a[n]
  BY <1>4, <1>7, AppendProperties
<1>9. b = c
  <2>1. b[k + 1] = c[k + 1]
    BY <1>3, <1>5, <1>6, <1>8
  <2>2. ASSUME NEW n \in 1 .. k PROVE b[n] = c[n]
    <3>1. c[n] = a[n] /\ a[n] = size[items[n]]
      BY <1>4, <1>8
    <3>2. n \in 1 .. k + 1 /\ longer[n] = items[n]
      BY <1>3
    <3> QED BY <3>1, <3>2, <1>5
  <2>3. \A n \in 1 .. k + 1 : n \in 1 .. k \/ n = k + 1
    OBVIOUS
  <2>4. Len(b) = Len(c) /\ \A n \in 1 .. Len(b) : b[n] = c[n]
    BY <2>1, <2>2, <2>3, <1>5, <1>8
  <2> QED BY <2>4, <1>5, <1>7, SeqEqual
<1>10. SumOver(a) \in Nat /\ SumOver(c) = SumOver(a) + m
  BY <1>4, <1>7, SumAppend
<1> QED BY <1>0, <1>b, <1>2, <1>6, <1>9, <1>10, Zenon

\* The bytes of the strings, with one more string.
LEMMA StringsGrow ==
  ASSUME NEW string \in Seq(Bytes), prgm.strings \in Seq(Seq(Bytes))
  PROVE  /\ StringBytes \in Nat
         /\ prgm'.strings = Append(prgm.strings, string) => StringBytes' = StringBytes + 4 + Len(string)
         /\ prgm'.strings = prgm.strings => StringBytes' = StringBytes
<1>1. PICK size \in [Seq(Bytes) -> Nat] : \A s \in Seq(Bytes) : size[s] = 4 + Len(s)
  <2>1. [s \in Seq(Bytes) |-> 4 + Len(s)] \in [Seq(Bytes) -> Nat]
    OBVIOUS
  <2> QED BY <2>1
<1>2. PICK a : a = Sizes(prgm.strings, size)
  OBVIOUS
<1>3. a = [n \in DOMAIN prgm.strings |-> 4 + Len(prgm.strings[n])]
  <2>1. \A n \in DOMAIN prgm.strings : size[prgm.strings[n]] = 4 + Len(prgm.strings[n])
    BY <1>1
  <2> QED BY <1>2, <2>1 DEF Sizes
<1>4. SumOver(a) = StringBytes
  BY <1>3 DEF StringBytes
<1>5. PICK longer \in Seq(Seq(Bytes)) : longer = Append(prgm.strings, string)
  BY AppendProperties
<1>6. PICK b : b = Sizes(longer, size)
  OBVIOUS
<1>7. b = [n \in DOMAIN longer |-> 4 + Len(longer[n])]
  <2>1. \A n \in DOMAIN longer : size[longer[n]] = 4 + Len(longer[n])
    BY <1>1
  <2> QED BY <1>6, <2>1 DEF Sizes
<1>8. SumOver(a) \in Nat /\ SumOver(b) = SumOver(a) + size[string]
  BY <1>2, <1>5, <1>6, SizesAppend
<1>9. StringBytes' = SumOver([n \in DOMAIN prgm'.strings |-> 4 + Len(prgm'.strings[n])])
  BY DEF StringBytes
<1>10. prgm'.strings = longer => StringBytes' = SumOver(b)
  BY <1>7, <1>9
<1>11. prgm'.strings = prgm.strings => StringBytes' = SumOver(a)
  BY <1>3, <1>9
<1>12. size[string] = 4 + Len(string) /\ Len(string) \in Nat
  BY <1>1
<1> QED BY <1>4, <1>5, <1>8, <1>10, <1>11, <1>12

\* The bytes of the chunks, with one more chunk.
LEMMA ChunksGrow ==
  ASSUME NEW chunk \in LoadedChunks, prgm.chunks \in Seq(LoadedChunks)
  PROVE  /\ ChunkBytes \in Nat
         /\ prgm'.chunks = Append(prgm.chunks, chunk) => ChunkBytes' = ChunkBytes + BytesOf(chunk)
         /\ prgm'.chunks = prgm.chunks => ChunkBytes' = ChunkBytes
<1>1. PICK size \in [LoadedChunks -> Nat] : \A s \in LoadedChunks : size[s] = BytesOf(s)
  <2>1. [s \in LoadedChunks |-> BytesOf(s)] \in [LoadedChunks -> Nat]
    BY LoadedChunkTyped
  <2> QED BY <2>1
<1>2. PICK a : a = Sizes(prgm.chunks, size)
  OBVIOUS
<1>3. a = [n \in DOMAIN prgm.chunks |-> BytesOf(prgm.chunks[n])]
  <2>1. \A n \in DOMAIN prgm.chunks : size[prgm.chunks[n]] = BytesOf(prgm.chunks[n])
    BY <1>1
  <2> QED BY <1>2, <2>1 DEF Sizes
<1>4. SumOver(a) = ChunkBytes
  BY <1>3 DEF ChunkBytes
<1>5. PICK longer \in Seq(LoadedChunks) : longer = Append(prgm.chunks, chunk)
  BY AppendProperties
<1>6. PICK b : b = Sizes(longer, size)
  OBVIOUS
<1>7. b = [n \in DOMAIN longer |-> BytesOf(longer[n])]
  <2>1. \A n \in DOMAIN longer : size[longer[n]] = BytesOf(longer[n])
    BY <1>1
  <2> QED BY <1>6, <2>1 DEF Sizes
<1>8. SumOver(a) \in Nat /\ SumOver(b) = SumOver(a) + size[chunk]
  BY <1>2, <1>5, <1>6, SizesAppend
<1>9. ChunkBytes' = SumOver([n \in DOMAIN prgm'.chunks |-> BytesOf(prgm'.chunks[n])])
  BY DEF ChunkBytes
<1>10. prgm'.chunks = longer => ChunkBytes' = SumOver(b)
  BY <1>7, <1>9
<1>11. prgm'.chunks = prgm.chunks => ChunkBytes' = SumOver(a)
  BY <1>3, <1>9
<1> QED BY <1>1, <1>4, <1>5, <1>8, <1>10, <1>11

\* Before a program is read there are no bytes of strings or chunks.
LEMMA NothingLoaded ==
  /\ NoProgram \in LoadedPrograms
  /\ prgm = NoProgram => StringBytes = 0 /\ ChunkBytes = 0
<1>1. NoProgram \in LoadedPrograms
  BY DEF NoProgram, LoadedPrograms, Data, Shorts, MaxShort
<1>2. <<>> \in Seq(Nat) /\ Len(<<>>) = 0
  OBVIOUS
<1>3. SumOver(<<>>) = 0
  BY <1>2, SumTurns
<1>4. NoProgram.strings = <<>> /\ NoProgram.chunks = <<>>
  BY DEF NoProgram
<1>5. \A f : DOMAIN f = {} /\ f = [n \in {} |-> 0] => f = <<>>
  OBVIOUS
<1>6. ASSUME prgm = NoProgram
      PROVE  StringBytes = 0 /\ ChunkBytes = 0
  <2>1. [n \in DOMAIN prgm.strings |-> 4 + Len(prgm.strings[n])] = <<>>
    BY <1>4, <1>6
  <2>2. [n \in DOMAIN prgm.chunks |-> BytesOf(prgm.chunks[n])] = <<>>
    BY <1>4, <1>6
  <2> QED BY <2>1, <2>2, <1>3 DEF StringBytes, ChunkBytes
<1> QED BY <1>1, <1>6

\* The bytes that are not cut off.
LEMMA BytesThere ==
  ASSUME LoaderIInv, NEW k \in Nat, ~ Short(k)
  PROVE  /\ pos \in Nat /\ Len(data) \in Nat /\ pos + k \in 0 .. Len(data)
         /\ \A n \in 1 .. k : Byte(n) \in Bytes
<1>1. data \in Seq(Bytes) /\ pos \in 0 .. Len(data)
  BY DEF LoaderIInv, LoaderInv, LoaderTypeOK, Reading
<1>2. Len(data) \in Nat /\ pos + k \in 0 .. Len(data)
  BY <1>1 DEF Short, Left
<1> QED BY <1>1, <1>2 DEF Byte

\* Two bytes are a number.
LEMMA TwoBytes ==
  ASSUME NEW low \in Bytes, NEW high \in Bytes
  PROVE  low + 256 * high \in Shorts /\ low + 256 * high \in 0 .. Huge
<1>1. low \in Nat /\ high \in Nat /\ low <= 255 /\ high <= 255
  BY DEF Bytes
<1>2. low + 256 * high \in Nat /\ low + 256 * high <= MaxShort
  BY <1>1, SMT DEF MaxShort
<1>3. Huge \in Nat /\ MaxShort < Huge
  BY FilesAssumption
<1> QED BY <1>2, <1>3, ShortFacts DEF Shorts

\* What the lengths in a file come out as (alias_chomp_as_u32, alias_chomp_as_u64).
LEMMA UnsignedTyped ==
  ASSUME LoaderIInv, NEW k \in {4, 8}, ~ Short(k)
  PROVE  Unsigned(k) \in 0 .. Huge
<1>1. Byte(1) \in Bytes /\ Byte(2) \in Bytes
  BY BytesThere
<1>2. Huge \in 0 .. Huge
  BY FilesAssumption
<1> QED BY <1>1, <1>2, TwoBytes DEF Unsigned

\* What make_value_str keeps of the id of a string.
LEMMA StrIdShort ==
  ASSUME NEW m \in Int
  PROVE  StrId(m) \in Shorts /\ (m \in Shorts => StrId(m) = m)
<1>1. StrId(m) \in Int /\ StrId(m) >= 0 /\ StrId(m) <= MaxShort
  BY SMT DEF StrId, MaxShort
<1>2. m >= 0 /\ m <= MaxShort => StrId(m) = m
  BY SMT DEF StrId, MaxShort
<1> QED BY <1>1, <1>2 DEF Shorts

\* What the payload of a constant comes out as.
LEMMA PayloadTyped ==
  ASSUME LoaderIInv, NEW n \in {0, 1}, ~ Short(n + 4)
  PROVE  /\ Payload(n) \in [1 .. 4 -> Bytes]
         /\ I32(n) \in Data /\ F32AsInt(n) \in Data
<1>1. \A i \in 1 .. 4 : Byte(n + i) \in Bytes
  BY BytesThere
<1>2. Payload(n) \in [1 .. 4 -> Bytes]
  BY <1>1 DEF Payload
<1> QED BY <1>2 DEF I32, F32AsInt, Data

\* A file that is refused leaves nothing that would have to be accounted for.
LEMMA RefuseReads ==
  ASSUME LoaderIInv, NEW why \in SUBSET {"invalid_byte", "unexpected_eos"},
         NEW at \in 0 .. Len(data), Refuse(why, at)
  PROVE  LoaderIInv'
<1>1. /\ data' = data /\ flags' = flags \cup why /\ state' = "err" /\ pos' = at
      /\ prgm' = NoProgram /\ rc' = 0 /\ skipped' = skipped
  BY DEF Refuse
<1>2. LoaderTypeOK'
  BY <1>1, FilesAssumption DEF LoaderTypeOK, LoaderIInv, LoaderInv
<1>3. AccountedFor'
  BY <1>1 DEF AccountedFor
<1>4. Reading'
  BY <1>1, NothingLoaded DEF Reading, LoaderIInv
<1> QED BY <1>2, <1>3, <1>4 DEF LoaderIInv, LoaderInv

\* A file that is refused has no bytes that must be accounted for.
LEMMA CutShortReads ==
  ASSUME LoaderIInv, CutShort \/ Refuse({}, Len(data)) \/ Refuse({"invalid_byte"}, Len(data))
  PROVE  LoaderIInv'
<1>1. Len(data) \in 0 .. Len(data)
  BY DEF LoaderIInv, Reading
<1>2. /\ {} \in SUBSET {"invalid_byte", "unexpected_eos"}
      /\ {"invalid_byte"} \in SUBSET {"invalid_byte", "unexpected_eos"}
      /\ {"unexpected_eos"} \in SUBSET {"invalid_byte", "unexpected_eos"}
  OBVIOUS
<1> QED BY <1>1, <1>2, RefuseReads DEF CutShort

\* What each step that reads goes on from.
LEMMA TookTyped ==
  ASSUME LoaderIInv, NEW k \in Nat, ~ Short(k), Took(k)
  PROVE  /\ data' = data /\ flags' = flags /\ pos' = pos + k
         /\ data' \in Seq(Bytes) /\ pos' \in 0 .. Len(data')
         /\ flags' \subseteq {"invalid_byte", "unexpected_eos"}
         /\ pos \in Nat
         /\ StringBytes \in Nat /\ ChunkBytes \in Nat /\ skipped \in Nat
         /\ prgm.strings \in Seq(Seq(Bytes)) /\ prgm.chunks \in Seq(LoadedChunks)
         /\ prgm.entry_id \in Data
<1>1. data' = data /\ flags' = flags /\ pos' = pos + k
  BY DEF Took
<1>2. pos' \in 0 .. Len(data')
  BY <1>1, BytesThere
<1>3. /\ data \in Seq(Bytes) /\ prgm \in LoadedPrograms /\ skipped \in Nat
      /\ flags \subseteq {"invalid_byte", "unexpected_eos"}
  BY DEF LoaderIInv, Reading, LoaderInv, LoaderTypeOK
<1>4. prgm.strings \in Seq(Seq(Bytes)) /\ prgm.chunks \in Seq(LoadedChunks) /\ prgm.entry_id \in Data
  BY <1>3 DEF LoadedPrograms
<1>5. <<>> \in Seq(Bytes) /\ EmptyChunk \in LoadedChunks
  BY DEF EmptyChunk, LoadedChunks
<1>6. StringBytes \in Nat /\ ChunkBytes \in Nat
  BY <1>4, <1>5, StringsGrow, ChunksGrow
<1> QED BY <1>1, <1>2, <1>3, <1>4, <1>6, BytesThere

\* While the program stays, its bytes do.
LEMMA SamePrgm ==
  ASSUME LoaderIInv, UNCHANGED prgm
  PROVE  StringBytes' = StringBytes /\ ChunkBytes' = ChunkBytes
BY DEF StringBytes, ChunkBytes

\* The calls of the reader, one by one: tbl_eat_prefix.
LEMMA PrefixReads == LoaderIInv /\ eat_prefix => LoaderIInv'
<1> SUFFICES ASSUME LoaderIInv, eat_prefix PROVE LoaderIInv'
  OBVIOUS
<1>1. CASE Refuse({"invalid_byte"}, Len(data))
  BY <1>1, CutShortReads
<1>2. CASE ~ Short(4) /\ Refuse({"invalid_byte"}, 4)
  <2>1. state = "prefix" /\ pos = 0
    BY DEF eat_prefix, LoaderIInv, Reading
  <2>2. 4 \in 0 .. Len(data)
    BY <1>2, <2>1, BytesThere
  <2>3. {"invalid_byte"} \in SUBSET {"invalid_byte", "unexpected_eos"}
    OBVIOUS
  <2> QED BY <1>2, <2>2, <2>3, RefuseReads
<1>3. CASE ~ Short(4) /\ state' = "meta" /\ Took(4) /\ UNCHANGED <<prgm, temp, rc, skipped>>
  <2>1. state = "prefix" /\ pos = 0 /\ prgm = NoProgram /\ skipped = 0 /\ prgm \in LoadedPrograms
    BY DEF eat_prefix, LoaderIInv, Reading
  <2>2. rc \in 0 .. Huge
    BY DEF LoaderIInv, LoaderInv, LoaderTypeOK
  <2>3. data' \in Seq(Bytes) /\ pos' \in 0 .. Len(data') /\ flags' \subseteq {"invalid_byte", "unexpected_eos"} /\ pos' = 4
    BY <1>3, <2>1, TookTyped
  <2>4. LoaderTypeOK'
    BY <1>3, <2>2, <2>3 DEF LoaderTypeOK
  <2>5. AccountedFor'
    BY <1>3 DEF AccountedFor
  <2>6. Reading'
    BY <1>3, <2>1, <2>3 DEF Reading
  <2> QED BY <2>4, <2>5, <2>6 DEF LoaderIInv, LoaderInv
<1> QED BY <1>1, <1>2, <1>3 DEF eat_prefix

\* tbl_eat_meta.
LEMMA MetaReads == LoaderIInv /\ eat_meta => LoaderIInv'
<1> SUFFICES ASSUME LoaderIInv, eat_meta PROVE LoaderIInv'
  OBVIOUS
<1>1. CASE CutShort
  BY <1>1, CutShortReads
<1>2. CASE /\ ~ Short(4) /\ prgm' = [prgm EXCEPT !.entry_id = I32(0)]
           /\ state' = "str" /\ Took(4) /\ UNCHANGED <<temp, rc, skipped>>
  <2>1. state = "meta" /\ pos = 4 /\ prgm = NoProgram /\ skipped = 0 /\ prgm \in LoadedPrograms
    BY DEF eat_meta, LoaderIInv, Reading
  <2>2. rc \in 0 .. Huge
    BY DEF LoaderIInv, LoaderInv, LoaderTypeOK
  <2>3. data' \in Seq(Bytes) /\ pos' \in 0 .. Len(data') /\ flags' \subseteq {"invalid_byte", "unexpected_eos"} /\ pos' = 8
    BY <1>2, <2>1, TookTyped
  <2>4. I32(0) \in Data
    BY <1>2, PayloadTyped
  <2>5. prgm' \in LoadedPrograms /\ prgm'.strings = prgm.strings /\ prgm'.chunks = prgm.chunks
    BY <1>2, <2>1, <2>4 DEF LoadedPrograms
  <2>6. StringBytes' = 0 /\ ChunkBytes' = 0
    BY <2>1, <2>5, NothingLoaded DEF StringBytes, ChunkBytes
  <2>7. BytesOpen' = 0
    BY <1>2 DEF BytesOpen
  <2>8. LoaderTypeOK'
    BY <1>2, <2>2, <2>3 DEF LoaderTypeOK
  <2>9. AccountedFor'
    BY <1>2, <2>1, <2>3, <2>6, <2>7 DEF AccountedFor
  <2>10. Reading'
    BY <1>2, <2>1, <2>3, <2>5 DEF Reading
  <2> QED BY <2>8, <2>9, <2>10 DEF LoaderIInv, LoaderInv
<1> QED BY <1>1, <1>2 DEF eat_meta

\* tbl_eat_str, as far as the length.
LEMMA StrReads == LoaderIInv /\ eat_str => LoaderIInv'
<1> SUFFICES ASSUME LoaderIInv, eat_str PROVE LoaderIInv'
  OBVIOUS
<1>1. CASE CutShort
  BY <1>1, CutShortReads
<1>2. CASE ~ Short(4) /\ Took(4) /\ ~ CutShort
  <2>1. /\ data' \in Seq(Bytes) /\ pos' \in 0 .. Len(data')
        /\ flags' \subseteq {"invalid_byte", "unexpected_eos"} /\ pos' = pos + 4
        /\ pos \in Nat /\ StringBytes \in Nat /\ ChunkBytes \in Nat /\ skipped \in Nat
    BY <1>2, TookTyped
  <2>2. /\ state = "str" /\ UNCHANGED prgm /\ prgm \in LoadedPrograms /\ rc \in 0 .. Huge
        /\ pos = 8 + 4 * skipped + StringBytes + ChunkBytes
    <3>1. state = "str" /\ UNCHANGED prgm
      BY <1>2 DEF eat_str
    <3>2. prgm \in LoadedPrograms /\ rc \in 0 .. Huge /\ AccountedFor
      BY DEF LoaderIInv, Reading, LoaderInv, LoaderTypeOK
    <3>3. pos = 8 + 4 * skipped + StringBytes + ChunkBytes + BytesOpen
      BY <3>1, <3>2 DEF AccountedFor
    <3>4. BytesOpen = 0
      BY <3>1 DEF BytesOpen
    <3> QED BY <2>1, <3>1, <3>2, <3>3, <3>4
  <2>3. StringBytes' = StringBytes /\ ChunkBytes' = ChunkBytes
    BY <2>2, SamePrgm
  <2>4. CASE state' = "chunk" /\ UNCHANGED <<temp, rc, skipped>>
    <3>1. BytesOpen' = 4
      BY <2>4 DEF BytesOpen
    <3>2. LoaderTypeOK'
      BY <2>1, <2>2, <2>4 DEF LoaderTypeOK
    <3>3. AccountedFor'
      BY <2>1, <2>2, <2>3, <2>4, <3>1 DEF AccountedFor
    <3>4. Reading'
      BY <2>1, <2>2, <2>4 DEF Reading
    <3> QED BY <3>2, <3>3, <3>4 DEF LoaderIInv, LoaderInv
  <2>5. CASE Unsigned(4) # 0 /\ state' = "chars" /\ temp' = <<>> /\ rc' = Unsigned(4) /\ UNCHANGED skipped
    <3>1. BytesOpen' = 4 /\ rc' \in 0 .. Huge /\ rc' # 0
      BY <1>2, <2>5, UnsignedTyped DEF BytesOpen
    <3>2. LoaderTypeOK'
      BY <2>1, <2>2, <2>5, <3>1 DEF LoaderTypeOK
    <3>3. AccountedFor'
      BY <2>1, <2>2, <2>3, <2>5, <3>1 DEF AccountedFor
    <3>4. rc' >= 1 /\ temp' \in Seq(Bytes)
      BY <2>5, <3>1, FilesAssumption
    <3>5. Reading'
      BY <2>1, <2>2, <2>5, <3>4 DEF Reading
    <3> QED BY <3>2, <3>3, <3>5 DEF LoaderIInv, LoaderInv
  <2>6. CASE skipped' = skipped + 1 /\ UNCHANGED <<state, temp, rc>>
    <3>1. BytesOpen' = 0
      BY <2>2, <2>6 DEF BytesOpen
    <3>2. LoaderTypeOK'
      BY <2>1, <2>2, <2>6 DEF LoaderTypeOK
    <3>3. AccountedFor'
      BY <2>1, <2>2, <2>3, <2>6, <3>1 DEF AccountedFor
    <3>4. Reading'
      BY <2>1, <2>2, <2>6 DEF Reading
    <3> QED BY <3>2, <3>3, <3>4 DEF LoaderIInv, LoaderInv
  <2> QED BY <1>2, <2>4, <2>5, <2>6 DEF eat_str
<1> QED BY <1>1, <1>2 DEF eat_str

\* The loop of tbl_eat_str.
LEMMA CharReads == LoaderIInv /\ eat_char => LoaderIInv'
<1> SUFFICES ASSUME LoaderIInv, eat_char PROVE LoaderIInv'
  OBVIOUS
<1>1. CASE CutShort
  BY <1>1, CutShortReads
<1>2. CASE ~ Short(1) /\ Took(1) /\ ~ CutShort
  <2>1. /\ data' \in Seq(Bytes) /\ pos' \in 0 .. Len(data')
        /\ flags' \subseteq {"invalid_byte", "unexpected_eos"} /\ pos' = pos + 1
        /\ pos \in Nat /\ StringBytes \in Nat /\ ChunkBytes \in Nat /\ skipped \in Nat
        /\ prgm.strings \in Seq(Seq(Bytes)) /\ prgm.chunks \in Seq(LoadedChunks)
        /\ Byte(1) \in Bytes
    BY <1>2, TookTyped, BytesThere
  <2>2. state = "chars" /\ UNCHANGED skipped
    BY <1>2 DEF eat_char
  <2>3. prgm \in LoadedPrograms /\ rc \in 0 .. Huge /\ rc >= 1 /\ temp \in Seq(Bytes)
    BY <2>2 DEF LoaderIInv, Reading, LoaderInv, LoaderTypeOK
  <2>4. PICK string \in Seq(Bytes) : string = Append(temp, Byte(1)) /\ Len(string) = Len(temp) + 1
    BY <2>1, <2>3, AppendProperties
  <2>5. pos = 8 + 4 * skipped + StringBytes + ChunkBytes + 4 + Len(temp) /\ Len(temp) \in Nat
    <3>1. pos = 8 + 4 * skipped + StringBytes + ChunkBytes + BytesOpen
      BY <2>2 DEF AccountedFor, LoaderIInv, LoaderInv
    <3>2. BytesOpen = 4 + Len(temp) /\ Len(temp) \in Nat
      BY <2>2, <2>3 DEF BytesOpen
    <3> QED BY <2>1, <3>1, <3>2
  <2>6. CASE rc > 1 /\ temp' = Append(temp, Byte(1)) /\ rc' = rc - 1 /\ UNCHANGED <<state, prgm>>
    <3>1. StringBytes' = StringBytes /\ ChunkBytes' = ChunkBytes
      BY <2>6, SamePrgm
    <3>2. BytesOpen' = 4 + Len(string)
      BY <2>2, <2>4, <2>6 DEF BytesOpen
    <3>3. rc' \in 0 .. Huge /\ rc' >= 1
      BY <2>3, <2>6, FilesAssumption
    <3>4. LoaderTypeOK'
      BY <2>1, <2>2, <2>6, <3>3 DEF LoaderTypeOK
    <3>5. AccountedFor'
      BY <2>1, <2>2, <2>4, <2>5, <3>1, <3>2 DEF AccountedFor
    <3>6. Reading'
      BY <2>1, <2>2, <2>3, <2>4, <2>6, <3>3 DEF Reading
    <3> QED BY <3>4, <3>5, <3>6 DEF LoaderIInv, LoaderInv
  <2>7. CASE /\ prgm' = [prgm EXCEPT !.strings = Append(@, Append(temp, Byte(1)))]
             /\ state' = "str" /\ temp' = <<>> /\ rc' = 0
    <3>1. /\ prgm' \in LoadedPrograms /\ prgm'.chunks = prgm.chunks
          /\ prgm'.strings = Append(prgm.strings, string)
      <4>1. Append(prgm.strings, string) \in Seq(Seq(Bytes))
        BY <2>1, AppendProperties
      <4>2. prgm' = [prgm EXCEPT !.strings = Append(prgm.strings, string)]
        BY <2>4, <2>7
      <4> QED BY <2>3, <4>1, <4>2 DEF LoadedPrograms
    <3>2. StringBytes' = StringBytes + 4 + Len(string)
      BY <2>1, <3>1, StringsGrow
    <3>3. ChunkBytes' = ChunkBytes
      BY <3>1 DEF ChunkBytes
    <3>4. BytesOpen' = 0
      BY <2>7 DEF BytesOpen
    <3>5. rc' \in 0 .. Huge
      BY <2>7, FilesAssumption
    <3>6. LoaderTypeOK'
      BY <2>1, <2>7, <3>5 DEF LoaderTypeOK
    <3>7. AccountedFor'
      BY <2>1, <2>2, <2>4, <2>5, <3>2, <3>3, <3>4 DEF AccountedFor
    <3>8. Reading'
      BY <2>1, <2>2, <2>7, <3>1 DEF Reading
    <3> QED BY <3>6, <3>7, <3>8 DEF LoaderIInv, LoaderInv
  <2> QED BY <1>2, <2>6, <2>7 DEF eat_char
<1> QED BY <1>1, <1>2 DEF eat_char

\* tbl_eat_chunk, as far as the number of instructions.
LEMMA ChunkReads == LoaderIInv /\ eat_chunk => LoaderIInv'
<1> SUFFICES ASSUME LoaderIInv, eat_chunk PROVE LoaderIInv'
  OBVIOUS
<1>1. CASE CutShort
  BY <1>1, CutShortReads
<1>2. CASE ~ Short(8) /\ Took(8) /\ ~ CutShort
  <2>1. /\ data' \in Seq(Bytes) /\ pos' \in 0 .. Len(data')
        /\ flags' \subseteq {"invalid_byte", "unexpected_eos"} /\ pos' = pos + 8
        /\ pos \in Nat /\ StringBytes \in Nat /\ ChunkBytes \in Nat /\ skipped \in Nat
    BY <1>2, TookTyped
  <2>2. state = "chunk" /\ UNCHANGED <<prgm, skipped>>
    BY <1>2 DEF eat_chunk
  <2>3. prgm \in LoadedPrograms /\ rc \in 0 .. Huge
    BY DEF LoaderIInv, Reading, LoaderInv, LoaderTypeOK
  <2>4. pos = 8 + 4 * skipped + StringBytes + ChunkBytes + 4
    <3>1. pos = 8 + 4 * skipped + StringBytes + ChunkBytes + BytesOpen
      BY <2>2 DEF AccountedFor, LoaderIInv, LoaderInv
    <3>2. BytesOpen = 4
      BY <2>2 DEF BytesOpen
    <3> QED BY <2>1, <3>1, <3>2
  <2>5. StringBytes' = StringBytes /\ ChunkBytes' = ChunkBytes
    BY <2>2, SamePrgm
  <2>6. CASE state' = "end" /\ UNCHANGED <<temp, rc>>
    <3>1. BytesOpen' = 12
      BY <2>6 DEF BytesOpen
    <3>2. LoaderTypeOK'
      BY <2>1, <2>3, <2>6 DEF LoaderTypeOK
    <3>3. AccountedFor'
      BY <2>1, <2>2, <2>4, <2>5, <3>1 DEF AccountedFor
    <3>4. Reading'
      BY <2>1, <2>2, <2>3, <2>6 DEF Reading
    <3> QED BY <3>2, <3>3, <3>4 DEF LoaderIInv, LoaderInv
  <2>7. CASE state' = "code" /\ temp' = EmptyChunk /\ rc' = Unsigned(8)
    <3>1. EmptyChunk \in LoadedChunks /\ EmptyChunk.constants = <<>> /\ Len(EmptyChunk.code) = 0
      BY DEF EmptyChunk, LoadedChunks
    <3>2. BytesOpen' = 12 /\ rc' \in 0 .. Huge
      BY <1>2, <2>7, <3>1, UnsignedTyped DEF BytesOpen
    <3>3. LoaderTypeOK'
      BY <2>1, <2>7, <3>2 DEF LoaderTypeOK
    <3>4. AccountedFor'
      BY <2>1, <2>2, <2>4, <2>5, <3>2 DEF AccountedFor
    <3>5. Reading'
      BY <2>1, <2>2, <2>3, <2>7, <3>1 DEF Reading
    <3> QED BY <3>3, <3>4, <3>5 DEF LoaderIInv, LoaderInv
  <2> QED BY <1>2, <2>6, <2>7 DEF eat_chunk
<1> QED BY <1>1, <1>2 DEF eat_chunk

\* What holds in the two loops over a chunk's items.
LEMMA OpenChunk ==
  ASSUME LoaderIInv
  PROVE  /\ state = "code" => /\ temp \in LoadedChunks /\ temp.constants = <<>>
                              /\ pos = 8 + 4 * skipped + StringBytes + ChunkBytes + 12 + 4 * Len(temp.code)
         /\ state = "konst" => /\ temp \in LoadedChunks /\ rc >= 1
                               /\ pos = 8 + 4 * skipped + StringBytes + ChunkBytes + (4 + BytesOf(temp))
<1>1. ASSUME state = "code"
      PROVE  /\ temp \in LoadedChunks /\ temp.constants = <<>>
             /\ pos = 8 + 4 * skipped + StringBytes + ChunkBytes + 12 + 4 * Len(temp.code)
  <2>1. temp \in LoadedChunks /\ temp.constants = <<>>
    BY <1>1 DEF LoaderIInv, Reading
  <2>2. pos = 8 + 4 * skipped + StringBytes + ChunkBytes + BytesOpen
    BY <1>1 DEF AccountedFor, LoaderIInv, LoaderInv
  <2>3. PICK n \in Nat : n = Len(temp.code)
    BY <2>1, LoadedChunkTyped
  <2>4. BytesOpen = 12 + 4 * n
    BY <1>1, <2>3 DEF BytesOpen
  <2>5. skipped \in Nat /\ StringBytes \in Nat /\ ChunkBytes \in Nat
    <3>1. skipped \in Nat /\ prgm \in LoadedPrograms
      BY DEF LoaderIInv, Reading
    <3>2. prgm.strings \in Seq(Seq(Bytes)) /\ prgm.chunks \in Seq(LoadedChunks) /\ <<>> \in Seq(Bytes)
      BY <3>1 DEF LoadedPrograms
    <3> QED BY <2>1, <3>1, <3>2, StringsGrow, ChunksGrow
  <2> QED BY <2>1, <2>2, <2>3, <2>4, <2>5
<1>2. ASSUME state = "konst"
      PROVE  /\ temp \in LoadedChunks /\ rc >= 1
             /\ pos = 8 + 4 * skipped + StringBytes + ChunkBytes + (4 + BytesOf(temp))
  <2>1. temp \in LoadedChunks /\ rc >= 1
    BY <1>2 DEF LoaderIInv, Reading
  <2>2. pos = 8 + 4 * skipped + StringBytes + ChunkBytes + BytesOpen
    BY <1>2 DEF AccountedFor, LoaderIInv, LoaderInv
  <2>3. BytesOpen = 4 + BytesOf(temp)
    BY <1>2 DEF BytesOpen
  <2> QED BY <2>1, <2>2, <2>3
<1> QED BY <1>1, <1>2

\* The loop of tbl_eat_chunk over the instructions.
LEMMA InstructionReads == LoaderIInv /\ eat_instruction => LoaderIInv'
<1> SUFFICES ASSUME LoaderIInv, eat_instruction PROVE LoaderIInv'
  OBVIOUS
<1>1. CASE CutShort
  BY <1>1, CutShortReads
<1>2. CASE ~ Short(4) /\ Took(4) /\ ~ CutShort
  <2>1. /\ data' \in Seq(Bytes) /\ pos' \in 0 .. Len(data')
        /\ flags' \subseteq {"invalid_byte", "unexpected_eos"} /\ pos' = pos + 4
        /\ pos \in Nat /\ StringBytes \in Nat /\ ChunkBytes \in Nat /\ skipped \in Nat
    BY <1>2, TookTyped
  <2>2. PICK inst : inst = [op |-> Byte(1), flag |-> Byte(2), wide |-> Byte(3) + 256 * Byte(4)]
    OBVIOUS
  <2>3. /\ state = "code" /\ state' = "code" /\ rc > 0 /\ rc' = rc - 1 /\ UNCHANGED <<prgm, skipped>>
        /\ temp' = [temp EXCEPT !.code = Append(temp.code, inst)]
    BY <1>2, <2>2 DEF eat_instruction
  <2>4. inst \in Instructions
    <3>1. Byte(1) \in Bytes /\ Byte(2) \in Bytes /\ Byte(3) \in Bytes /\ Byte(4) \in Bytes
      BY <1>2, BytesThere
    <3>2. Byte(3) + 256 * Byte(4) \in Shorts
      BY <3>1, TwoBytes
    <3> QED BY <2>2, <3>1, <3>2 DEF Instructions
  <2>5. /\ temp \in LoadedChunks /\ temp.constants = <<>>
        /\ pos = 8 + 4 * skipped + StringBytes + ChunkBytes + 12 + 4 * Len(temp.code)
    BY <2>3, OpenChunk
  <2>6. PICK n \in Nat : n = Len(temp.code)
    BY <2>5, LoadedChunkTyped
  <2>7. PICK code \in Seq(Instructions) : code = Append(temp.code, inst) /\ Len(code) = n + 1
    <3>1. temp.code \in Seq(Instructions)
      BY <2>5, LoadedChunkTyped
    <3>2. Append(temp.code, inst) \in Seq(Instructions) /\ Len(Append(temp.code, inst)) = Len(temp.code) + 1
      BY <2>4, <3>1, AppendProperties
    <3> QED BY <2>6, <3>2
  <2>8. temp' \in LoadedChunks /\ temp'.constants = <<>> /\ temp'.code = code
    BY <2>3, <2>5, <2>7 DEF LoadedChunks
  <2>9. StringBytes' = StringBytes /\ ChunkBytes' = ChunkBytes
    BY <2>3, SamePrgm
  <2>10. BytesOpen' = 12 + 4 * (n + 1)
    BY <2>3, <2>7, <2>8 DEF BytesOpen
  <2>11. prgm \in LoadedPrograms /\ rc \in 0 .. Huge
    BY DEF LoaderIInv, Reading, LoaderInv, LoaderTypeOK
  <2>12. rc' \in 0 .. Huge
    BY <2>3, <2>11, FilesAssumption
  <2>13. LoaderTypeOK'
    BY <2>1, <2>3, <2>12 DEF LoaderTypeOK
  <2>14. AccountedFor'
    <3>0. pos = 8 + 4 * skipped + StringBytes + ChunkBytes + 12 + 4 * n
      BY <2>5, <2>6, Zenon
    <3>1. pos' = 8 + 4 * skipped + StringBytes + ChunkBytes + (12 + 4 * (n + 1))
      BY <2>1, <3>0
    <3> QED BY <3>1, <2>3, <2>9, <2>10 DEF AccountedFor
  <2>15. Reading'
    BY <2>1, <2>3, <2>8, <2>11 DEF Reading
  <2> QED BY <2>13, <2>14, <2>15 DEF LoaderIInv, LoaderInv
<1> QED BY <1>1, <1>2 DEF eat_instruction

\* tbl_eat_chunk, the number of constants.
LEMMA KonstCountReads == LoaderIInv /\ eat_konst_count => LoaderIInv'
<1> SUFFICES ASSUME LoaderIInv, eat_konst_count PROVE LoaderIInv'
  OBVIOUS
<1>1. CASE CutShort
  BY <1>1, CutShortReads
<1>2. CASE ~ Short(8) /\ Took(8) /\ ~ CutShort
  <2>1. /\ data' \in Seq(Bytes) /\ pos' \in 0 .. Len(data')
        /\ flags' \subseteq {"invalid_byte", "unexpected_eos"} /\ pos' = pos + 8
        /\ pos \in Nat /\ StringBytes \in Nat /\ ChunkBytes \in Nat /\ skipped \in Nat
        /\ prgm.strings \in Seq(Seq(Bytes)) /\ prgm.chunks \in Seq(LoadedChunks)
    BY <1>2, TookTyped
  <2>2. state = "code" /\ UNCHANGED skipped
    BY <1>2 DEF eat_konst_count
  <2>3. /\ temp \in LoadedChunks /\ temp.constants = <<>>
        /\ pos = 8 + 4 * skipped + StringBytes + ChunkBytes + 12 + 4 * Len(temp.code)
    BY <2>2, OpenChunk
  <2>4. PICK n \in Nat : n = Len(temp.code) /\ BytesOf(temp) = 16 + 4 * n
    <3>1. Len(temp.constants) = 0
      BY <2>3
    <3>2. Len(temp.code) \in Nat
      BY <2>3, LoadedChunkTyped
    <3> QED BY <3>1, <3>2 DEF BytesOf
  <2>5. prgm \in LoadedPrograms
    BY DEF LoaderIInv, Reading
  <2>6. CASE PushChunk
    <3>1. /\ prgm' = [prgm EXCEPT !.chunks = Append(prgm.chunks, temp)]
          /\ state' = "chunk" /\ temp' = <<>> /\ rc' = 0
      BY <2>6 DEF PushChunk
    <3>2. /\ prgm' \in LoadedPrograms /\ prgm'.strings = prgm.strings
          /\ prgm'.chunks = Append(prgm.chunks, temp)
      <4>1. Append(prgm.chunks, temp) \in Seq(LoadedChunks)
        BY <2>1, <2>3, AppendProperties
      <4> QED BY <2>5, <3>1, <4>1 DEF LoadedPrograms
    <3>3. ChunkBytes' = ChunkBytes + BytesOf(temp)
      BY <2>1, <2>3, <3>2, ChunksGrow
    <3>4. StringBytes' = StringBytes
      BY <3>2 DEF StringBytes
    <3>5. BytesOpen' = 4
      BY <3>1 DEF BytesOpen
    <3>6. rc' \in 0 .. Huge
      BY <3>1, FilesAssumption
    <3>7. LoaderTypeOK'
      BY <2>1, <3>1, <3>6 DEF LoaderTypeOK
    <3>8. AccountedFor'
      <4>0. pos = 8 + 4 * skipped + StringBytes + ChunkBytes + 12 + 4 * n
        BY <2>3, <2>4, Zenon
      <4>2. pos' = 8 + 4 * skipped + StringBytes + (ChunkBytes + (16 + 4 * n)) + 4
        BY <2>1, <4>0
      <4>1. pos' = 8 + 4 * skipped + StringBytes + (ChunkBytes + BytesOf(temp)) + 4
        BY <2>4, <4>2, Zenon
      <4> QED BY <4>1, <2>2, <3>3, <3>4, <3>5 DEF AccountedFor
    <3>9. Reading'
      BY <2>1, <2>2, <3>1, <3>2 DEF Reading
    <3> QED BY <3>7, <3>8, <3>9 DEF LoaderIInv, LoaderInv
  <2>7. CASE Unsigned(8) # 0 /\ state' = "konst" /\ rc' = Unsigned(8) /\ UNCHANGED <<prgm, temp>>
    <3>1. rc' \in 0 .. Huge /\ rc' >= 1
      BY <1>2, <2>7, UnsignedTyped, FilesAssumption
    <3>2. BytesOpen' = 4 + (16 + 4 * n)
      <4>1. BytesOf(temp') = 16 + 4 * n
        BY <2>4, <2>7
      <4> QED BY <2>7, <4>1 DEF BytesOpen
    <3>3. StringBytes' = StringBytes /\ ChunkBytes' = ChunkBytes
      BY <2>7, SamePrgm
    <3>4. LoaderTypeOK'
      BY <2>1, <2>7, <3>1 DEF LoaderTypeOK
    <3>5. AccountedFor'
      <4>0. pos = 8 + 4 * skipped + StringBytes + ChunkBytes + 12 + 4 * n
        BY <2>3, <2>4, Zenon
      <4>1. pos' = 8 + 4 * skipped + StringBytes + ChunkBytes + (4 + (16 + 4 * n))
        BY <2>1, <4>0
      <4> QED BY <4>1, <2>2, <3>2, <3>3 DEF AccountedFor
    <3>6. Reading'
      BY <2>1, <2>2, <2>3, <2>5, <2>7, <3>1 DEF Reading
    <3> QED BY <3>4, <3>5, <3>6 DEF LoaderIInv, LoaderInv
  <2> QED BY <1>2, <2>6, <2>7 DEF eat_konst_count
<1> QED BY <1>1, <1>2 DEF eat_konst_count

\* A constant that is read has the type of a value.
LEMMA ConstantTyped ==
  ASSUME LoaderIInv, ~ Short(5)
  PROVE  Constant \in LoadedValues
<1>1. I32(1) \in Data /\ F32AsInt(1) \in Data
  BY PayloadTyped
<1>2. 0 \in Data /\ 1 \in Data
  BY DEF Data, Shorts, MaxShort
<1>3. PICK i \in Data : i = I32(1)
  BY <1>1
<1>4. PICK f \in Data : f = F32AsInt(1)
  BY <1>1
<1>5. StrId(I32(1)) \in Data
  <2>1. PICK bytes \in [1 .. 4 -> Bytes] : bytes = Payload(1)
    BY PayloadTyped
  <2>2. \A n \in 1 .. 4 : bytes[n] \in Int
    BY <2>1 DEF Bytes
  <2>3. IntOf(bytes) \in Int
    BY <2>2, SMT DEF IntOf, Upper
  <2>4. I32(1) \in Int
    BY <2>1, <2>3 DEF I32
  <2> QED BY <2>4, StrIdShort DEF Data
<1>6. PICK id \in Data : id = StrId(I32(1))
  BY <1>5
<1> QED BY <1>2, <1>3, <1>4, <1>6 DEF Constant, Konst, LoadedValues

\* The loop of tbl_eat_chunk over the constants.
LEMMA KonstReads == LoaderIInv /\ eat_konst => LoaderIInv'
<1> SUFFICES ASSUME LoaderIInv, eat_konst PROVE LoaderIInv'
  OBVIOUS
<1>1. CASE CutShort \/ Refuse({}, Len(data))
  BY <1>1, CutShortReads
<1>2. CASE ~ Short(5) /\ Took(5) /\ ~ CutShort /\ ~ Refuse({}, Len(data))
  <2>1. /\ data' \in Seq(Bytes) /\ pos' \in 0 .. Len(data')
        /\ flags' \subseteq {"invalid_byte", "unexpected_eos"} /\ pos' = pos + 5
        /\ pos \in Nat /\ StringBytes \in Nat /\ ChunkBytes \in Nat /\ skipped \in Nat
        /\ prgm.strings \in Seq(Seq(Bytes)) /\ prgm.chunks \in Seq(LoadedChunks)
    BY <1>2, TookTyped
  <2>2. state = "konst" /\ UNCHANGED skipped
    BY <1>2 DEF eat_konst
  <2>3. /\ temp \in LoadedChunks /\ rc >= 1
        /\ pos = 8 + 4 * skipped + StringBytes + ChunkBytes + (4 + BytesOf(temp))
    BY <2>2, OpenChunk
  <2>4. PICK n \in Nat : n = BytesOf(temp)
    BY <2>3, LoadedChunkTyped
  <2>5. prgm \in LoadedPrograms /\ rc \in 0 .. Huge
    BY DEF LoaderIInv, Reading, LoaderInv, LoaderTypeOK
  <2>6. PICK chunk : chunk = [temp EXCEPT !.constants = Append(@, Constant)]
    OBVIOUS
  <2>7. chunk \in LoadedChunks /\ BytesOf(chunk) = n + 5
    <3>1. PICK constants \in Seq(LoadedValues) :
            constants = Append(temp.constants, Constant) /\ Len(constants) = Len(temp.constants) + 1
      <4>1. Constant \in LoadedValues /\ temp.constants \in Seq(LoadedValues)
        BY <1>2, <2>3, ConstantTyped, LoadedChunkTyped
      <4>2. /\ Append(temp.constants, Constant) \in Seq(LoadedValues)
            /\ Len(Append(temp.constants, Constant)) = Len(temp.constants) + 1
        BY <4>1, AppendProperties
      <4> QED BY <4>2
    <3>2. chunk = [temp EXCEPT !.constants = constants]
      BY <2>6, <3>1
    <3>3. chunk \in LoadedChunks /\ chunk.code = temp.code /\ chunk.constants = constants
      BY <2>3, <3>2 DEF LoadedChunks
    <3>4. PICK c \in Nat : c = Len(temp.code)
      BY <2>3, LoadedChunkTyped
    <3>5. PICK k \in Nat : k = Len(temp.constants)
      BY <2>3, LoadedChunkTyped
    <3>6. n = 16 + 4 * c + 5 * k
      BY <2>3, <2>4, <3>4, <3>5, LoadedChunkTyped
    <3>7. BytesOf(chunk) = 16 + 4 * c + 5 * (k + 1)
      BY <3>1, <3>3, <3>4, <3>5 DEF BytesOf
    <3> QED BY <3>3, <3>6, <3>7
  <2>8. CASE rc = 1
    <3>1. /\ prgm' = [prgm EXCEPT !.chunks = Append(prgm.chunks, chunk)]
          /\ state' = "chunk" /\ temp' = <<>> /\ rc' = 0
      BY <1>2, <2>6, <2>8 DEF eat_konst
    <3>2. /\ prgm' \in LoadedPrograms /\ prgm'.strings = prgm.strings
          /\ prgm'.chunks = Append(prgm.chunks, chunk)
      <4>1. Append(prgm.chunks, chunk) \in Seq(LoadedChunks)
        BY <2>1, <2>7, AppendProperties
      <4> QED BY <2>5, <3>1, <4>1 DEF LoadedPrograms
    <3>3. ChunkBytes' = ChunkBytes + BytesOf(chunk)
      BY <2>1, <2>7, <3>2, ChunksGrow
    <3>4. StringBytes' = StringBytes
      BY <3>2 DEF StringBytes
    <3>5. BytesOpen' = 4
      BY <3>1 DEF BytesOpen
    <3>6. rc' \in 0 .. Huge
      BY <3>1, FilesAssumption
    <3>7. LoaderTypeOK'
      BY <2>1, <3>1, <3>6 DEF LoaderTypeOK
    <3>8. AccountedFor'
      <4>1. pos' = 8 + 4 * skipped + StringBytes + (ChunkBytes + (n + 5)) + 4
        BY <2>1, <2>3, <2>4
      <4> QED BY <4>1, <2>2, <2>7, <3>3, <3>4, <3>5 DEF AccountedFor
    <3>9. Reading'
      BY <2>1, <2>2, <3>1, <3>2 DEF Reading
    <3> QED BY <3>7, <3>8, <3>9 DEF LoaderIInv, LoaderInv
  <2>9. CASE rc # 1
    <3>1. temp' = chunk /\ rc' = rc - 1 /\ UNCHANGED <<state, prgm>>
      BY <1>2, <2>6, <2>9 DEF eat_konst
    <3>2. rc' \in 0 .. Huge /\ rc' >= 1
      BY <2>3, <2>5, <2>9, <3>1, FilesAssumption
    <3>3. BytesOpen' = 4 + (n + 5)
      <4>1. BytesOf(temp') = n + 5
        BY <2>7, <3>1
      <4> QED BY <2>2, <3>1, <4>1 DEF BytesOpen
    <3>4. StringBytes' = StringBytes /\ ChunkBytes' = ChunkBytes
      BY <3>1, SamePrgm
    <3>5. LoaderTypeOK'
      BY <2>1, <2>2, <3>1, <3>2 DEF LoaderTypeOK
    <3>6. AccountedFor'
      <4>1. pos' = 8 + 4 * skipped + StringBytes + ChunkBytes + (4 + (n + 5))
        BY <2>1, <2>3, <2>4
      <4> QED BY <4>1, <2>2, <3>3, <3>4 DEF AccountedFor
    <3>7. Reading'
      BY <2>1, <2>2, <2>5, <2>7, <3>1, <3>2 DEF Reading
    <3> QED BY <3>5, <3>6, <3>7 DEF LoaderIInv, LoaderInv
  <2> QED BY <2>8, <2>9
<1> QED BY <1>1, <1>2 DEF eat_konst

\* The invariant holds at first,
LEMMA LoaderStarts == LoaderInit => LoaderIInv
<1> SUFFICES ASSUME LoaderInit PROVE LoaderIInv
  OBVIOUS
<1>1. /\ data \in Seq(Bytes) /\ pos = 0 /\ state = "prefix" /\ flags = {} /\ prgm = NoProgram
      /\ rc = 0 /\ skipped = 0
  BY FilesTyped DEF LoaderInit
<1>2. LoaderTypeOK
  BY <1>1, FilesAssumption DEF LoaderTypeOK
<1>3. AccountedFor
  BY <1>1 DEF AccountedFor
<1>4. Reading
  BY <1>1, NothingLoaded DEF Reading
<1> QED BY <1>2, <1>3, <1>4 DEF LoaderIInv, LoaderInv

\* and each call keeps it.
LEMMA LoaderGoesOn == LoaderIInv /\ [tbl_dispatch]_loaderVars => LoaderIInv'
<1> SUFFICES ASSUME LoaderIInv, [tbl_dispatch]_loaderVars PROVE LoaderIInv'
  OBVIOUS
<1>1. CASE tbl_dispatch
  BY <1>1, PrefixReads, MetaReads, StrReads, CharReads, ChunkReads, InstructionReads,
     KonstCountReads, KonstReads DEF tbl_dispatch
<1>2. CASE UNCHANGED loaderVars
  BY <1>2 DEF loaderVars, LoaderIInv, LoaderInv, LoaderTypeOK, AccountedFor, Reading,
              StringBytes, ChunkBytes, BytesOpen
<1> QED BY <1>1, <1>2

\* Each byte that was read belongs to one item of what was loaded, whatever
\* the file looks like (tbl_eat_str, tbl_eat_chunk).
THEOREM BytesAccountedFor == LoaderSpec => []LoaderInv
<1>1. LoaderIInv => LoaderInv
  BY DEF LoaderIInv
<1> QED BY <1>1, LoaderStarts, LoaderGoesOn, PTL DEF LoaderSpec

(***************************************************************************)
(* What is ahead of the reader in a file that is as it was written.        *)
(***************************************************************************)
Ahead(file, at, rest) ==
  /\ at \in Nat /\ rest \in Seq(Bytes) /\ Len(file) = at + Len(rest)
  /\ \A i \in 1 .. Len(rest) : file[at + i] = rest[i]

\* With k chunks read; with j constants, or j instructions, of the next one.
ChunksAhead(p, k) == LastJoined(ChunkParts(p))[Len(p.chunks) - k] \o Number(0, 8)

ConstsAhead(p, k, j) ==
  LastJoined(ConstParts(p.chunks[k + 1]))[Len(p.chunks[k + 1].constants) - j] \o ChunksAhead(p, k + 1)

CodeAhead(p, k, j) ==
  LastJoined(CodeParts(p.chunks[k + 1]))[Len(p.chunks[k + 1].code) - j] \o
    (Number(Len(p.chunks[k + 1].constants), 8) \o ConstsAhead(p, k, 0))

\* With k strings read, and with j characters of the next one.
StringsAhead(p, k) ==
  LastJoined(StringParts(p))[Len(p.strings) - k] \o (Number(0, 4) \o ChunksAhead(p, 0))

CharsAhead(p, k, j) ==
  SubSeq(p.strings[k + 1], j + 1, Len(p.strings[k + 1])) \o StringsAhead(p, k + 1)

\* Bytes in a row, however they are put together.
LEMMA BytesAssociate ==
  \A s, t, u \in Seq(Bytes) : (s \o t) \o u = s \o (t \o u)
BY ConcatAssociative

\* Bytes behind bytes are bytes.
LEMMA BytesConcat ==
  \A s, t \in Seq(Bytes) : s \o t \in Seq(Bytes)
BY ConcatProperties

\* The items of a program, however they are put together.
LEMMA FiveAssociate ==
  \A a, b, c, d, e \in Seq(Bytes) : (((a \o b) \o c) \o d) \o e = a \o (b \o (c \o (d \o e)))
<1> TAKE a \in Seq(Bytes)
<1>0. \A t, u \in Seq(Bytes) : (a \o t) \o u = a \o (t \o u)
  BY BytesAssociate, Zenon
<1> TAKE b \in Seq(Bytes)
<1>1. \A u \in Seq(Bytes) : (a \o b) \o u = a \o (b \o u)
  BY <1>0, Zenon
<1>2. PICK ab \in Seq(Bytes) : ab = a \o b
  BY BytesConcat, Zenon
<1>3. \A t, u \in Seq(Bytes) : (ab \o t) \o u = ab \o (t \o u)
  BY BytesAssociate, Zenon
<1> TAKE c \in Seq(Bytes)
<1>4. \A u \in Seq(Bytes) : (ab \o c) \o u = ab \o (c \o u)
  BY <1>3, Zenon
<1>5. PICK abc \in Seq(Bytes) : abc = ab \o c
  BY BytesConcat, Zenon
<1>6. \A t, u \in Seq(Bytes) : (abc \o t) \o u = abc \o (t \o u)
  BY BytesAssociate, Zenon
<1> TAKE d, e \in Seq(Bytes)
<1>7. (abc \o d) \o e = abc \o (d \o e)
  BY <1>6, Zenon
<1>8. PICK de \in Seq(Bytes) : de = d \o e
  BY BytesConcat, Zenon
<1>9. (ab \o c) \o de = ab \o (c \o de)
  BY <1>4, Zenon
<1>10. PICK cde \in Seq(Bytes) : cde = c \o de
  BY BytesConcat, Zenon
<1>11. (a \o b) \o cde = a \o (b \o cde)
  BY <1>1, Zenon
<1> QED BY <1>2, <1>5, <1>7, <1>8, <1>9, <1>10, <1>11, Zenon

\* What is left of parts that are joined, when j of them are read.
LEMMA JoinAhead ==
  ASSUME NEW parts \in Seq(Seq(Bytes)), NEW rest \in Seq(Bytes), NEW n \in Nat, n = Len(parts)
  PROVE  /\ LastJoined(parts)[0] \o rest = rest
         /\ \A j \in 0 .. n : LastJoined(parts)[n - j] \o rest \in Seq(Bytes)
         /\ \A j \in 0 .. n - 1 :
              LastJoined(parts)[n - j] \o rest = parts[j + 1] \o (LastJoined(parts)[n - (j + 1)] \o rest)
<1>1. n = Len(parts)
  OBVIOUS
<1>2. PICK joined : joined = LastJoined(parts)
  OBVIOUS
<1>3. /\ joined \in [0 .. n -> Seq(Bytes)] /\ joined[0] = <<>>
      /\ \A m \in 1 .. n : joined[m] = parts[n + 1 - m] \o joined[m - 1]
  BY <1>1, <1>2, JoinTurns
<1>4. joined[0] \o rest = rest
  BY <1>3, ConcatEmptySeq
<1>5. ASSUME NEW j \in 0 .. n
      PROVE  joined[n - j] \o rest \in Seq(Bytes)
  <2>1. n - j \in 0 .. n
    OBVIOUS
  <2>2. joined[n - j] \in Seq(Bytes)
    BY <1>3, <2>1
  <2> QED BY <2>2, ConcatProperties
<1>6. ASSUME NEW j \in 0 .. n - 1
      PROVE  /\ joined[n - j] \o rest = parts[j + 1] \o (joined[n - (j + 1)] \o rest)
  <2>0. /\ n - j \in 1 .. n /\ n + 1 - (n - j) = j + 1 /\ (n - j) - 1 = n - (j + 1)
        /\ (n - j) - 1 \in 0 .. n
    OBVIOUS
  <2>1. PICK m \in 1 .. n : m = n - j /\ n + 1 - m = j + 1 /\ m - 1 = n - (j + 1) /\ m - 1 \in 0 .. n
    BY <2>0
  <2>2. joined[m] = parts[j + 1] \o joined[m - 1]
    BY <1>3, <2>1
  <2>3. joined[m - 1] \in Seq(Bytes)
    BY <1>3, <2>1
  <2>4. parts[j + 1] \in Seq(Bytes)
    BY <1>1
  <2>5. (parts[j + 1] \o joined[m - 1]) \o rest = parts[j + 1] \o (joined[m - 1] \o rest)
    BY <2>3, <2>4, BytesAssociate, Zenon
  <2> QED BY <2>1, <2>2, <2>5
<1> QED BY <1>1, <1>2, <1>4, <1>5, <1>6

\* Behind the chunks there is the mark of the end.
LEMMA ChunksAheadOf ==
  ASSUME NEW p \in Programs
  PROVE  /\ \A k \in 0 .. Len(p.chunks) : ChunksAhead(p, k) \in Seq(Bytes)
         /\ ChunksAhead(p, Len(p.chunks)) = Number(0, 8)
         /\ \A k \in 0 .. Len(p.chunks) - 1 :
              ChunksAhead(p, k) = WrittenChunk(p.chunks[k + 1]) \o ChunksAhead(p, k + 1)
<1>1. PICK n \in Nat : n = Len(p.chunks)
  BY ProgramTyped
<1>2. PICK parts \in Seq(Seq(Bytes)) :
        parts = ChunkParts(p) /\ Len(parts) = n /\ \A i \in 1 .. n : parts[i] = WrittenChunk(p.chunks[i])
  BY <1>1, ProgramTyped
<1>3. PICK rest \in Seq(Bytes) : rest = Number(0, 8)
  BY NumberTyped, ShortFacts
<1>j. /\ LastJoined(parts)[0] \o rest = rest
      /\ \A j \in 0 .. n : LastJoined(parts)[n - j] \o rest \in Seq(Bytes)
      /\ \A j \in 0 .. n - 1 :
           LastJoined(parts)[n - j] \o rest = parts[j + 1] \o (LastJoined(parts)[n - (j + 1)] \o rest)
  <2>1. n = Len(parts)
    BY <1>2
  <2> QED BY <2>1, JoinAhead
<1>4. \A k : ChunksAhead(p, k) = LastJoined(parts)[n - k] \o rest
  BY <1>1, <1>2, <1>3 DEF ChunksAhead
<1>5. n - n = 0 /\ \A k \in 0 .. n - 1 : k + 1 \in 1 .. n
  OBVIOUS
<1>6. ChunksAhead(p, n) = rest
  BY <1>2, <1>4, <1>5, <1>j
<1>7. \A k \in 0 .. n : ChunksAhead(p, k) \in Seq(Bytes)
  BY <1>2, <1>4, <1>j
<1>8. ASSUME NEW k \in 0 .. n - 1
      PROVE  ChunksAhead(p, k) = WrittenChunk(p.chunks[k + 1]) \o ChunksAhead(p, k + 1)
  <2>1. ChunksAhead(p, k) = parts[k + 1] \o (LastJoined(parts)[n - (k + 1)] \o rest)
    BY <1>2, <1>4, <1>j
  <2>2. parts[k + 1] = WrittenChunk(p.chunks[k + 1])
    BY <1>2, <1>5
  <2> QED BY <1>4, <2>1, <2>2
<1> QED BY <1>1, <1>3, <1>6, <1>7, <1>8

\* What a chunk of a program that is written to a file is like.
LEMMA ChunkOfProgram ==
  ASSUME NEW p \in Programs, NEW k \in 0 .. Len(p.chunks) - 1
  PROVE  /\ p.chunks[k + 1] \in Chunks
         /\ Len(p.chunks[k + 1].code) \in Counts /\ Len(p.chunks[k + 1].constants) \in Shorts
         /\ \A m \in 1 .. Len(p.chunks[k + 1].constants) :
              /\ Len(p.chunks[k + 1].constants[m].bytes) = 4
              /\ p.chunks[k + 1].constants[m].means = Meaning(p.chunks[k + 1].constants[m])
<1>1. p.chunks \in Seq(Chunks) /\ Len(p.chunks) \in Nat
  BY ProgramTyped
<1>2. k + 1 \in 1 .. Len(p.chunks)
  BY <1>1
<1>3. PICK n \in 1 .. Len(p.chunks) : n = k + 1
  BY <1>2
<1>4. /\ Len(p.chunks[n].code) \in Counts /\ Len(p.chunks[n].constants) \in Shorts
      /\ \A m \in 1 .. Len(p.chunks[n].constants) :
           /\ Len(p.chunks[n].constants[m].bytes) = 4
           /\ p.chunks[n].constants[m].means = Meaning(p.chunks[n].constants[m])
  BY ProgramsAssumption
<1>5. p.chunks[n] \in Chunks
  BY <1>1
<1> QED BY <1>3, <1>4, <1>5

\* Behind the constants there is the next chunk.
LEMMA ConstsAheadOf ==
  ASSUME NEW p \in Programs, NEW k \in 0 .. Len(p.chunks) - 1
  PROVE  LET constants == p.chunks[k + 1].constants IN
         /\ \A j \in 0 .. Len(constants) : ConstsAhead(p, k, j) \in Seq(Bytes)
         /\ ConstsAhead(p, k, Len(constants)) = ChunksAhead(p, k + 1)
         /\ \A j \in 0 .. Len(constants) - 1 :
              ConstsAhead(p, k, j) = WrittenConst(constants[j + 1]) \o ConstsAhead(p, k, j + 1)
<1>1. PICK chunk \in Chunks :
        /\ chunk = p.chunks[k + 1] /\ Len(chunk.code) \in Counts /\ Len(chunk.constants) \in Shorts
        /\ \A m \in 1 .. Len(chunk.constants) : Len(chunk.constants[m].bytes) = 4
  BY ChunkOfProgram
<1>2. PICK constants : constants = chunk.constants
  OBVIOUS
<1>3. PICK n \in Nat : n = Len(constants)
  BY <1>1, <1>2, ShortFacts
<1>4. PICK parts \in Seq(Seq(Bytes)) :
        parts = ConstParts(chunk) /\ Len(parts) = n /\ \A i \in 1 .. n : parts[i] = WrittenConst(constants[i])
  BY <1>1, <1>2, <1>3, ChunkTyped
<1>5. PICK rest \in Seq(Bytes) : rest = ChunksAhead(p, k + 1)
  <2>1. k + 1 \in 0 .. Len(p.chunks)
    BY ProgramTyped
  <2> QED BY <2>1, ChunksAheadOf
<1>j. /\ LastJoined(parts)[0] \o rest = rest
      /\ \A j \in 0 .. n : LastJoined(parts)[n - j] \o rest \in Seq(Bytes)
      /\ \A j \in 0 .. n - 1 :
           LastJoined(parts)[n - j] \o rest = parts[j + 1] \o (LastJoined(parts)[n - (j + 1)] \o rest)
  <2>1. n = Len(parts)
    BY <1>4
  <2> QED BY <2>1, JoinAhead
<1>6. \A j : ConstsAhead(p, k, j) = LastJoined(parts)[n - j] \o rest
  BY <1>1, <1>2, <1>3, <1>4, <1>5 DEF ConstsAhead
<1>7. n - n = 0 /\ \A j \in 0 .. n - 1 : j + 1 \in 1 .. n
  OBVIOUS
<1>8. ConstsAhead(p, k, n) = rest
  BY <1>4, <1>6, <1>7, <1>j
<1>9. \A j \in 0 .. n : ConstsAhead(p, k, j) \in Seq(Bytes)
  BY <1>4, <1>6, <1>j
<1>10. ASSUME NEW j \in 0 .. n - 1
       PROVE  ConstsAhead(p, k, j) = WrittenConst(constants[j + 1]) \o ConstsAhead(p, k, j + 1)
  <2>1. ConstsAhead(p, k, j) = parts[j + 1] \o (LastJoined(parts)[n - (j + 1)] \o rest)
    BY <1>4, <1>6, <1>j
  <2>2. parts[j + 1] = WrittenConst(constants[j + 1])
    BY <1>4, <1>7
  <2> QED BY <1>6, <2>1, <2>2
<1> QED BY <1>1, <1>2, <1>3, <1>5, <1>8, <1>9, <1>10

\* Behind the instructions there are the constants.
LEMMA CodeAheadOf ==
  ASSUME NEW p \in Programs, NEW k \in 0 .. Len(p.chunks) - 1
  PROVE  LET chunk == p.chunks[k + 1] IN
         /\ \A j \in 0 .. Len(chunk.code) : CodeAhead(p, k, j) \in Seq(Bytes)
         /\ CodeAhead(p, k, Len(chunk.code)) = Number(Len(chunk.constants), 8) \o ConstsAhead(p, k, 0)
         /\ \A j \in 0 .. Len(chunk.code) - 1 :
              CodeAhead(p, k, j) = WrittenInst(chunk.code[j + 1]) \o CodeAhead(p, k, j + 1)
         /\ ChunksAhead(p, k) = Number(Len(chunk.code), 8) \o CodeAhead(p, k, 0)
<1>1. PICK chunk \in Chunks :
        /\ chunk = p.chunks[k + 1] /\ Len(chunk.code) \in Counts /\ Len(chunk.constants) \in Shorts
        /\ \A m \in 1 .. Len(chunk.constants) : Len(chunk.constants[m].bytes) = 4
  BY ChunkOfProgram
<1>2. PICK code : code = chunk.code
  OBVIOUS
<1>3. PICK n \in Nat : n = Len(code) /\ n \in Shorts
  BY <1>1, <1>2, ShortFacts
<1>4. PICK parts \in Seq(Seq(Bytes)) :
        parts = CodeParts(chunk) /\ Len(parts) = n /\ \A i \in 1 .. n : parts[i] = WrittenInst(code[i])
  BY <1>1, <1>2, <1>3, ChunkTyped
<1>5. PICK after \in Seq(Bytes) : after = ConstsAhead(p, k, 0)
  <2>1. Len(chunk.constants) \in Nat
    BY <1>1, ShortFacts
  <2>2. 0 \in 0 .. Len(p.chunks[k + 1].constants)
    BY <1>1, <2>1
  <2> QED BY <2>2, ConstsAheadOf
<1>6. PICK count \in Seq(Bytes) : count = Number(Len(chunk.constants), 8)
  BY <1>1, NumberTyped
<1>7. PICK rest \in Seq(Bytes) : rest = count \o after
  BY ConcatProperties
<1>j. /\ LastJoined(parts)[0] \o rest = rest
      /\ \A j \in 0 .. n : LastJoined(parts)[n - j] \o rest \in Seq(Bytes)
      /\ \A j \in 0 .. n - 1 :
           LastJoined(parts)[n - j] \o rest = parts[j + 1] \o (LastJoined(parts)[n - (j + 1)] \o rest)
  <2>1. n = Len(parts)
    BY <1>4
  <2> QED BY <2>1, JoinAhead
<1>8. \A j : CodeAhead(p, k, j) = LastJoined(parts)[n - j] \o rest
  BY <1>1, <1>2, <1>3, <1>4, <1>5, <1>6, <1>7 DEF CodeAhead
<1>9. n - n = 0 /\ \A j \in 0 .. n - 1 : j + 1 \in 1 .. n
  OBVIOUS
<1>10. CodeAhead(p, k, n) = count \o after
  BY <1>4, <1>7, <1>8, <1>9, <1>j
<1>11. \A j \in 0 .. n : CodeAhead(p, k, j) \in Seq(Bytes)
  BY <1>4, <1>8, <1>j
<1>12. ASSUME NEW j \in 0 .. n - 1
       PROVE  CodeAhead(p, k, j) = WrittenInst(code[j + 1]) \o CodeAhead(p, k, j + 1)
  <2>1. CodeAhead(p, k, j) = parts[j + 1] \o (LastJoined(parts)[n - (j + 1)] \o rest)
    BY <1>4, <1>8, <1>j
  <2>2. parts[j + 1] = WrittenInst(code[j + 1])
    BY <1>4, <1>9
  <2> QED BY <1>8, <2>1, <2>2
<1>13. ChunksAhead(p, k) = Number(n, 8) \o CodeAhead(p, k, 0)
  <2>1. PICK next \in Seq(Bytes) : next = ChunksAhead(p, k + 1)
    <3>1. k + 1 \in 0 .. Len(p.chunks)
      BY ProgramTyped
    <3> QED BY <3>1, ChunksAheadOf
  <2>2. PICK size \in Seq(Bytes) : size = Number(n, 8)
    BY <1>3, NumberTyped
  <2>3. PICK a \in Seq(Bytes) : a = JoinAll(CodeParts(chunk)) /\ a = LastJoined(parts)[n]
    BY <1>1, <1>4, ChunkTyped DEF JoinAll
  <2>4. PICK b \in Seq(Bytes) : b = JoinAll(ConstParts(chunk))
    BY <1>1, ChunkTyped
  <2>5. after = b \o next
    <3>1. PICK m \in Nat : m = Len(chunk.constants)
      BY <1>1, ShortFacts
    <3>4. Len(ConstParts(chunk)) = Len(chunk.constants)
      BY <1>1, ChunkTyped
    <3>2. m - 0 = m /\ Len(ConstParts(chunk)) = m
      BY <3>1, <3>4
    <3>3. b = LastJoined(ConstParts(chunk))[m]
      BY <2>4, <3>2 DEF JoinAll
    <3> QED BY <1>1, <1>5, <2>1, <3>1, <3>2, <3>3 DEF ConstsAhead
  <2>6. WrittenChunk(chunk) = size \o a \o count \o b
    BY <1>2, <1>3, <1>6, <2>2, <2>3, <2>4 DEF WrittenChunk
  <2>7. (size \o a \o count \o b) \o next = size \o (a \o (count \o (b \o next)))
    <3>1. \A t, u, v, w \in Seq(Bytes) : (((size \o t) \o u) \o v) \o w = size \o (t \o (u \o (v \o w)))
      BY FiveAssociate, Zenon
    <3>2. \A v, w \in Seq(Bytes) : (((size \o a) \o count) \o v) \o w = size \o (a \o (count \o (v \o w)))
      BY <3>1, Zenon
    <3> QED BY <3>2, Zenon
  <2>11. ChunksAhead(p, k) = WrittenChunk(chunk) \o next
    BY <1>1, <2>1, ChunksAheadOf
  <2>12. n - 0 = n
    OBVIOUS
  <2>13. CodeAhead(p, k, 0) = a \o (count \o (b \o next))
    BY <1>7, <1>8, <2>3, <2>5, <2>12
  <2> QED BY <2>2, <2>6, <2>7, <2>11, <2>13, Zenon
<1> QED BY <1>1, <1>2, <1>3, <1>5, <1>6, <1>10, <1>11, <1>12, <1>13

\* Behind the strings there is a zero, and then the chunks.
LEMMA StringsAheadOf ==
  ASSUME NEW p \in Programs
  PROVE  /\ \A k \in 0 .. Len(p.strings) : StringsAhead(p, k) \in Seq(Bytes)
         /\ StringsAhead(p, Len(p.strings)) = Number(0, 4) \o ChunksAhead(p, 0)
         /\ \A k \in 0 .. Len(p.strings) - 1 :
              StringsAhead(p, k) = WrittenString(p.strings[k + 1]) \o StringsAhead(p, k + 1)
         /\ FileOf[p] = Prefix \o (Number(p.entry_id, 4) \o StringsAhead(p, 0))
<1>1. PICK n \in Nat : n = Len(p.strings)
  BY ProgramTyped
<1>2. PICK parts \in Seq(Seq(Bytes)) :
        parts = StringParts(p) /\ Len(parts) = n /\ \A i \in 1 .. n : parts[i] = WrittenString(p.strings[i])
  BY <1>1, ProgramTyped
<1>3. PICK mark \in Seq(Bytes) : mark = Number(0, 4)
  BY NumberTyped, ShortFacts
<1>4. PICK after \in Seq(Bytes) : after = ChunksAhead(p, 0)
  <2>1. 0 \in 0 .. Len(p.chunks)
    BY ProgramTyped
  <2> QED BY <2>1, ChunksAheadOf
<1>5. PICK rest \in Seq(Bytes) : rest = mark \o after
  BY ConcatProperties
<1>j. /\ LastJoined(parts)[0] \o rest = rest
      /\ \A j \in 0 .. n : LastJoined(parts)[n - j] \o rest \in Seq(Bytes)
      /\ \A j \in 0 .. n - 1 :
           LastJoined(parts)[n - j] \o rest = parts[j + 1] \o (LastJoined(parts)[n - (j + 1)] \o rest)
  <2>1. n = Len(parts)
    BY <1>2
  <2> QED BY <2>1, JoinAhead
<1>6. \A k : StringsAhead(p, k) = LastJoined(parts)[n - k] \o rest
  BY <1>1, <1>2, <1>3, <1>4, <1>5 DEF StringsAhead
<1>7. n - n = 0 /\ n - 0 = n /\ \A k \in 0 .. n - 1 : k + 1 \in 1 .. n
  OBVIOUS
<1>8. StringsAhead(p, n) = rest
  BY <1>2, <1>6, <1>7, <1>j
<1>9. \A k \in 0 .. n : StringsAhead(p, k) \in Seq(Bytes)
  BY <1>2, <1>6, <1>j
<1>10. ASSUME NEW k \in 0 .. n - 1
       PROVE  StringsAhead(p, k) = WrittenString(p.strings[k + 1]) \o StringsAhead(p, k + 1)
  <2>1. StringsAhead(p, k) = parts[k + 1] \o (LastJoined(parts)[n - (k + 1)] \o rest)
    BY <1>2, <1>6, <1>j
  <2>2. parts[k + 1] = WrittenString(p.strings[k + 1])
    BY <1>2, <1>7
  <2> QED BY <1>6, <2>1, <2>2
<1>11. FileOf[p] = Prefix \o (Number(p.entry_id, 4) \o StringsAhead(p, 0))
  <2>1. PICK a \in Seq(Bytes) : a = Prefix
    <3>1. Prefix \in Seq(Bytes)
      BY DEF Prefix, Bytes
    <3> QED BY <3>1
  <2>2. PICK b \in Seq(Bytes) : b = Number(p.entry_id, 4)
    BY ProgramTyped, NumberTyped DEF Shorts
  <2>3. PICK c \in Seq(Bytes) : c = JoinAll(StringParts(p)) /\ c = LastJoined(parts)[n]
    BY <1>2, ProgramTyped DEF JoinAll
  <2>4. PICK d \in Seq(Bytes) : d = JoinAll(ChunkParts(p))
    BY ProgramTyped
  <2>5. PICK e \in Seq(Bytes) : e = Number(0, 8)
    BY NumberTyped, ShortFacts
  <2>6. after = d \o e
    <3>4. p.chunks \in Seq(Chunks) /\ Len(ChunkParts(p)) = Len(p.chunks)
      BY ProgramTyped
    <3>1. PICK m \in Nat : m = Len(p.chunks) /\ Len(ChunkParts(p)) = m
      BY <3>4
    <3>2. m - 0 = m
      OBVIOUS
    <3>3. d = LastJoined(ChunkParts(p))[m]
      BY <2>4, <3>1 DEF JoinAll
    <3> QED BY <1>4, <2>5, <3>1, <3>2, <3>3 DEF ChunksAhead
  <2>7. FileOf[p] = a \o b \o c \o mark \o d \o e
    BY <1>3, <2>1, <2>2, <2>3, <2>4, <2>5 DEF FileOf, Written
  <2>8. PICK ab \in Seq(Bytes) : ab = a \o b
    BY ConcatProperties
  <2>9. PICK later \in Seq(Bytes) : later = c \o (mark \o (d \o e))
    <3>1. d \o e \in Seq(Bytes)
      BY ConcatProperties
    <3>2. mark \o (d \o e) \in Seq(Bytes)
      BY <3>1, ConcatProperties
    <3>3. c \o (mark \o (d \o e)) \in Seq(Bytes)
      BY <3>2, ConcatProperties
    <3> QED BY <3>3
  <2>10. (((ab \o c) \o mark) \o d) \o e = ab \o (c \o (mark \o (d \o e)))
    <3>1. \A t, u, v, w \in Seq(Bytes) : (((ab \o t) \o u) \o v) \o w = ab \o (t \o (u \o (v \o w)))
      BY FiveAssociate, Zenon
    <3>2. \A v, w \in Seq(Bytes) : (((ab \o c) \o mark) \o v) \o w = ab \o (c \o (mark \o (v \o w)))
      BY <3>1, Zenon
    <3> QED BY <3>2, Zenon
  <2>11. (a \o b) \o later = a \o (b \o later)
    <3>1. \A t, u \in Seq(Bytes) : (a \o t) \o u = a \o (t \o u)
      BY BytesAssociate, Zenon
    <3> QED BY <3>1, Zenon
  <2>13. StringsAhead(p, 0) = c \o (mark \o (d \o e))
    BY <1>5, <1>6, <1>7, <2>3, <2>6
  <2> QED BY <2>1, <2>2, <2>7, <2>8, <2>9, <2>10, <2>11, <2>13, Zenon
<1> QED BY <1>1, <1>3, <1>4, <1>5, <1>8, <1>9, <1>10, <1>11

\* Behind the characters there is the next string.
LEMMA CharsAheadOf ==
  ASSUME NEW p \in Programs, NEW k \in 0 .. Len(p.strings) - 1
  PROVE  LET string == p.strings[k + 1] IN
         /\ \A j \in 0 .. Len(string) : CharsAhead(p, k, j) \in Seq(Bytes)
         /\ CharsAhead(p, k, Len(string)) = StringsAhead(p, k + 1)
         /\ \A j \in 0 .. Len(string) - 1 : CharsAhead(p, k, j) = <<string[j + 1]>> \o CharsAhead(p, k, j + 1)
         /\ StringsAhead(p, k) = Number(Len(string), 4) \o CharsAhead(p, k, 0)
<1>1. k + 1 \in 1 .. Len(p.strings) /\ k + 1 \in 0 .. Len(p.strings)
  BY ProgramTyped
<1>2. PICK string \in Seq(Bytes) : string = p.strings[k + 1] /\ Len(string) \in Counts
  BY <1>1, ProgramTyped, ProgramsAssumption
<1>3. PICK n \in Nat : n = Len(string) /\ n \in Shorts
  BY <1>2, ShortFacts
<1>4. PICK rest \in Seq(Bytes) : rest = StringsAhead(p, k + 1)
  BY <1>1, StringsAheadOf
<1>5. \A j : CharsAhead(p, k, j) = SubSeq(string, j + 1, n) \o rest
  BY <1>2, <1>3, <1>4 DEF CharsAhead
<1>6. ASSUME NEW j \in 0 .. n
      PROVE  SubSeq(string, j + 1, n) \in Seq(Bytes) /\ CharsAhead(p, k, j) \in Seq(Bytes)
  <2>1. j + 1 \in Int /\ n \in Int /\ \A i \in j + 1 .. n : string[i] \in Bytes
    BY <1>2, <1>3
  <2>2. SubSeq(string, j + 1, n) \in Seq(Bytes)
    BY <2>1, SubSeqProperties
  <2> QED BY <1>5, <2>2, ConcatProperties
<1>7. CharsAhead(p, k, n) = rest
  <2>1. SubSeq(string, n + 1, n) = <<>>
    BY <1>3, SubSeqEmpty
  <2> QED BY <1>5, <2>1, ConcatEmptySeq
<1>8. ASSUME NEW j \in 0 .. n - 1
      PROVE  CharsAhead(p, k, j) = <<string[j + 1]>> \o CharsAhead(p, k, j + 1)
  <2>1. PICK m \in 1 .. n : m = j + 1 /\ m \in 0 .. n
    OBVIOUS
  <2>2. n \in m .. n
    OBVIOUS
  <2>3. SubSeq(string, m, n) = <<string[m]>> \o SubSeq(string, m + 1, n)
    BY <1>3, <2>2, SubSeqRecursiveFirst
  <2>4. PICK first \in Seq(Bytes) : first = <<string[m]>>
    <3>1. <<string[m]>> \in Seq(Bytes)
      BY <1>2, <1>3
    <3> QED BY <3>1
  <2>5. SubSeq(string, m + 1, n) \in Seq(Bytes)
    BY <1>6, <2>1
  <2>6. (first \o SubSeq(string, m + 1, n)) \o rest = first \o (SubSeq(string, m + 1, n) \o rest)
    BY <2>5, BytesAssociate, Zenon
  <2> QED BY <1>5, <2>1, <2>3, <2>4, <2>6
<1>9. StringsAhead(p, k) = Number(n, 4) \o CharsAhead(p, k, 0)
  <2>1. SubSeq(string, 0 + 1, n) = string
    BY <1>3, SubSeqFull
  <2>2. PICK size \in Seq(Bytes) : size = Number(n, 4)
    BY <1>3, NumberTyped
  <2>3. (size \o string) \o rest = size \o (string \o rest)
    BY BytesAssociate, Zenon
  <2>4. WrittenString(string) = size \o string
    BY <1>3, <2>2 DEF WrittenString
  <2>5. StringsAhead(p, k) = WrittenString(string) \o rest
    BY <1>2, <1>4, StringsAheadOf
  <2> QED BY <1>5, <2>1, <2>2, <2>3, <2>4, <2>5
<1> QED BY <1>2, <1>3, <1>4, <1>6, <1>7, <1>8, <1>9

(***************************************************************************)
(* What was read of it: what the reader makes of each constant, reals as   *)
(* ints and string ids of 16 bits, and the part of the program so far.     *)
(***************************************************************************)
LoadedConst(konst) ==
  CASE konst.tag = "real" -> Konst("int", RealAsInt(konst.bytes))
    [] konst.tag = "strid" -> Konst("strid", StrId(konst.means))
    [] OTHER -> Konst(konst.tag, konst.means)

LoadedChunk(chunk) ==
  [code |-> chunk.code, constants |-> [i \in DOMAIN chunk.constants |-> LoadedConst(chunk.constants[i])]]

AsLoaded(program) ==
  [entry_id |-> program.entry_id, strings |-> program.strings,
   chunks |-> [i \in DOMAIN program.chunks |-> LoadedChunk(program.chunks[i])]]

StringsRead(p, k) == [entry_id |-> p.entry_id, strings |-> SubSeq(p.strings, 1, k), chunks |-> <<>>]

ChunksRead(p, k) ==
  [entry_id |-> p.entry_id, strings |-> p.strings, chunks |-> [i \in 1 .. k |-> LoadedChunk(p.chunks[i])]]

CodeRead(chunk, j) == [code |-> SubSeq(chunk.code, 1, j), constants |-> <<>>]

ConstsRead(chunk, j) ==
  [code |-> chunk.code, constants |-> [i \in 1 .. j |-> LoadedConst(chunk.constants[i])]]

\* The file is a program's, or what is left of it.
Starts(file, whole) == Len(file) <= Len(whole) /\ \A i \in 1 .. Len(file) : file[i] = whole[i]

InStrings(p) ==
  \E k \in 0 .. Len(p.strings) : prgm = StringsRead(p, k) /\ Ahead(FileOf[p], pos, StringsAhead(p, k))

InChars(p) ==
  \E k \in 0 .. Len(p.strings) - 1 : \E j \in 0 .. Len(p.strings[k + 1]) - 1 :
    /\ prgm = StringsRead(p, k) /\ temp = SubSeq(p.strings[k + 1], 1, j)
    /\ rc = Len(p.strings[k + 1]) - j /\ Ahead(FileOf[p], pos, CharsAhead(p, k, j))

InChunks(p) ==
  \E k \in 0 .. Len(p.chunks) : prgm = ChunksRead(p, k) /\ Ahead(FileOf[p], pos, ChunksAhead(p, k))

InCode(p) ==
  \E k \in 0 .. Len(p.chunks) - 1 : \E j \in 0 .. Len(p.chunks[k + 1].code) :
    /\ prgm = ChunksRead(p, k) /\ temp = CodeRead(p.chunks[k + 1], j)
    /\ rc = Len(p.chunks[k + 1].code) - j /\ Ahead(FileOf[p], pos, CodeAhead(p, k, j))

InConsts(p) ==
  \E k \in 0 .. Len(p.chunks) - 1 : \E j \in 0 .. Len(p.chunks[k + 1].constants) - 1 :
    /\ prgm = ChunksRead(p, k) /\ temp = ConstsRead(p.chunks[k + 1], j)
    /\ rc = Len(p.chunks[k + 1].constants) - j /\ Ahead(FileOf[p], pos, ConstsAhead(p, k, j))

HasConstants(p) == \E k \in 1 .. Len(p.chunks) : Len(p.chunks[k].constants) >= 1

\* As far as the file goes, the reader has read what was written.
OnCourse(p) ==
  /\ state = "prefix" => Ahead(FileOf[p], pos, Prefix \o (Number(p.entry_id, 4) \o StringsAhead(p, 0)))
  /\ state = "meta" => prgm = NoProgram /\ Ahead(FileOf[p], pos, Number(p.entry_id, 4) \o StringsAhead(p, 0))
  /\ state = "str" => InStrings(p)
  /\ state = "chars" => InChars(p)
  /\ state = "chunk" => InChunks(p)
  /\ state = "code" => InCode(p)
  /\ state = "konst" => InConsts(p)
  /\ state = "end" => prgm = AsLoaded(p) /\ pos = Len(FileOf[p])
  /\ state = "err" => data # FileOf[p] /\ (flags = {} => HasConstants(p))
  /\ state # "err" => flags = {}

\* The next item is read, or it is not there in full.
LEMMA NextBytes ==
  ASSUME LoaderIInv, NEW p \in Programs, Starts(data, FileOf[p]),
         NEW h \in Seq(Bytes), NEW r \in Seq(Bytes), NEW k \in Nat, k = Len(h),
         Ahead(FileOf[p], pos, h \o r)
  PROVE  /\ \A n \in 1 .. k : Short(n) => data # FileOf[p]
         /\ ~ Short(k) => /\ \A i \in 1 .. k : Byte(i) = h[i]
                          /\ Ahead(FileOf[p], pos + k, r)
<1>1. PICK w : w = FileOf[p]
  OBVIOUS
<1>2. PICK rest \in Seq(Bytes) : rest = h \o r
  BY ConcatProperties
<1>3. PICK m \in Nat : m = Len(r)
  OBVIOUS
<1>4. /\ Len(rest) = k + m /\ \A i \in 1 .. k : rest[i] = h[i]
      /\ \A i \in 1 .. m : rest[k + i] = r[i]
  BY <1>2, <1>3, ConcatOf
<1>5. pos \in Nat /\ Len(w) = pos + (k + m) /\ \A i \in 1 .. k + m : w[pos + i] = rest[i]
  BY <1>1, <1>2, <1>4 DEF Ahead
<1>6. data \in Seq(Bytes) /\ pos \in 0 .. Len(data) /\ Len(data) \in Nat
  BY DEF LoaderIInv, LoaderInv, LoaderTypeOK, Reading
<1>7. Len(data) <= Len(w) /\ \A i \in 1 .. Len(data) : data[i] = w[i]
  BY <1>1 DEF Starts
<1>8. ASSUME NEW n \in 1 .. k, Short(n) PROVE data # w
  BY <1>5, <1>6, <1>8 DEF Short, Left
<1>9. ASSUME ~ Short(k)
      PROVE  (\A i \in 1 .. k : Byte(i) = h[i]) /\ Ahead(w, pos + k, r)
  <2>1. pos + k <= Len(data)
    BY <1>6, <1>9 DEF Short, Left
  <2>2. ASSUME NEW i \in 1 .. k PROVE data[pos + i] = h[i]
    <3>1. pos + i \in 1 .. Len(data) /\ i \in 1 .. k + m
      BY <2>1, <1>6
    <3> QED BY <3>1, <1>4, <1>5, <1>7
  <2>3. ASSUME NEW i \in 1 .. m PROVE w[(pos + k) + i] = r[i]
    <3>1. k + i \in 1 .. k + m /\ pos + (k + i) = (pos + k) + i
      BY <1>6
    <3> QED BY <3>1, <1>4, <1>5
  <2>4. pos + k \in Nat /\ Len(w) = (pos + k) + m
    BY <1>5, <1>6
  <2> QED BY <2>2, <2>3, <2>4, <1>3 DEF Ahead, Byte
<1> QED BY <1>1, <1>8, <1>9

\* A file may be refused only if it is not all that was written.
LEMMA RefusedOnCourse ==
  ASSUME NEW p \in Programs, data # FileOf[p], NEW why, NEW at, Refuse(why, at),
         why # {} \/ HasConstants(p)
  PROVE  OnCourse(p)'
<1>1. data' = data /\ state' = "err" /\ flags' = flags \cup why
  BY DEF Refuse
<1>2. flags' = {} => HasConstants(p)
  BY <1>1
<1> QED BY <1>1, <1>2 DEF OnCourse

\* A call that finds no item refuses the file.
LEMMA CutOnCourse ==
  ASSUME NEW p \in Programs, data # FileOf[p], CutShort
  PROVE  OnCourse(p)'
<1>1. {"unexpected_eos"} # {}
  OBVIOUS
<1> QED BY <1>1, RefusedOnCourse DEF CutShort

\* A number of two bytes that count, as it is read.
LEMMA NumberRead ==
  ASSUME NEW size \in {4, 8}, NEW n \in Shorts,
         \A i \in 1 .. size : Byte(i) = Number(n, size)[i]
  PROVE  Unsigned(size) = n /\ Byte(4) = 0 /\ (size = 4 => I32(0) = n)
<1>1. /\ Number(n, size)[1] + 256 * Number(n, size)[2] = n
      /\ \A i \in 3 .. size : Number(n, size)[i] = 0
  <2>1. size \in {2, 4, 8}
    OBVIOUS
  <2> QED BY <2>1, NumberTyped
<1>2. Byte(1) + 256 * Byte(2) = n /\ \A i \in 3 .. size : Byte(i) = 0
  <2>1. 1 \in 1 .. size /\ 2 \in 1 .. size /\ \A i \in 3 .. size : i \in 1 .. size
    OBVIOUS
  <2> QED BY <1>1, <2>1
<1>3. Unsigned(size) = n
  BY <1>2 DEF Unsigned
<1>4. Byte(3) = 0 /\ Byte(4) = 0
  BY <1>2
<1>5. n \in Int
  BY ShortFacts
<1>6. I32(0) = n
  <2>1. PICK b : b = Payload(0)
    OBVIOUS
  <2>2. b[1] = Byte(1) /\ b[2] = Byte(2) /\ b[3] = 0 /\ b[4] = 0
    BY <1>4, <2>1 DEF Payload
  <2>3. b[1] + 256 * b[2] = n
    BY <1>2, <2>2
  <2>4. I32(0) = b[1] + 256 * b[2] + 65536 * b[3] + 16777216 * Upper(b[4])
    BY <2>1, SMT DEF I32, IntOf
  <2>5. Upper(b[4]) = 0
    BY <2>2, SMT DEF Upper
  <2>6. I32(0) = n + 65536 * 0 + 16777216 * 0
    BY <2>2, <2>3, <2>4, <2>5, SMT
  <2> QED BY <2>6, <1>5, SMT
<1> QED BY <1>3, <1>4, <1>6

\* The bytes of an item, one by one.
LEMMA ItemSize ==
  \A h \in Seq(Bytes) : \A n \in Nat \ {0} : Len(h) = n =>
    Len(h) \in Nat \ {0} /\ \A i \in 1 .. n : h[i] \in Bytes
OBVIOUS

\* What is read next is the item that is ahead.
LEMMA NextItem ==
  ASSUME LoaderIInv, NEW p \in Programs, Starts(data, FileOf[p]),
         NEW h \in Seq(Bytes), NEW r \in Seq(Bytes), Len(h) \in Nat \ {0},
         Ahead(FileOf[p], pos, h \o r)
  PROVE  /\ Short(Len(h)) => data # FileOf[p]
         /\ ~ Short(Len(h)) => /\ \A i \in 1 .. Len(h) : Byte(i) = h[i]
                               /\ Ahead(FileOf[p], pos + Len(h), r)
<1>1. PICK k \in Nat : k = Len(h) /\ k \in 1 .. k
  OBVIOUS
<1>2. /\ \A n \in 1 .. k : Short(n) => data # FileOf[p]
      /\ ~ Short(k) => (\A i \in 1 .. k : Byte(i) = h[i]) /\ Ahead(FileOf[p], pos + k, r)
  BY <1>1, NextBytes
<1> QED BY <1>1, <1>2

\* How to be on course after a step.
LEMMA Arrived ==
  ASSUME NEW p, flags' = {},
         \/ state' = "meta" /\ prgm' = NoProgram
              /\ Ahead(FileOf[p], pos', Number(p.entry_id, 4) \o StringsAhead(p, 0))
         \/ state' = "str" /\ InStrings(p)'
         \/ state' = "chars" /\ InChars(p)'
         \/ state' = "chunk" /\ InChunks(p)'
         \/ state' = "code" /\ InCode(p)'
         \/ state' = "konst" /\ InConsts(p)'
         \/ state' = "end" /\ prgm' = AsLoaded(p) /\ pos' = Len(FileOf[p])
  PROVE  OnCourse(p)'
BY DEF OnCourse

\* A call that takes k bytes.
LEMMA FlagsOnCourse ==
  ASSUME NEW p \in Programs, OnCourse(p), state # "err", NEW k, Took(k)
  PROVE  flags' = {} /\ data' = data /\ pos' = pos + k
BY DEF OnCourse, Took

\* The calls of the reader again: each reads the next item of what was written.
LEMMA PrefixOnCourse ==
  ASSUME LoaderIInv, NEW p \in Programs, Starts(data, FileOf[p]), OnCourse(p), eat_prefix
  PROVE  OnCourse(p)'
<1>1. PICK h \in Seq(Bytes) : h = Prefix /\ Len(h) = 4
  <2>1. Prefix \in Seq(Bytes) /\ Len(Prefix) = 4
    BY DEF Prefix, Bytes
  <2> QED BY <2>1
<1>2. PICK r \in Seq(Bytes) : r = Number(p.entry_id, 4) \o StringsAhead(p, 0)
  <2>1. Number(p.entry_id, 4) \in Seq(Bytes)
    BY ProgramTyped, NumberTyped DEF Shorts
  <2>2. 0 \in 0 .. Len(p.strings)
    BY ProgramTyped
  <2>3. StringsAhead(p, 0) \in Seq(Bytes)
    BY <2>2, StringsAheadOf
  <2> QED BY <2>1, <2>3, ConcatProperties
<1>3. state = "prefix" /\ pos = 0 /\ prgm = NoProgram /\ flags = {} /\ Ahead(FileOf[p], pos, h \o r)
  BY <1>1, <1>2 DEF eat_prefix, OnCourse, LoaderIInv, Reading
<1>4. /\ Short(4) => data # FileOf[p]
      /\ ~ Short(4) => (\A i \in 1 .. 4 : Byte(i) = h[i]) /\ Ahead(FileOf[p], pos + 4, r)
  <2>1. Len(h) = 4 /\ Len(h) \in Nat \ {0}
    <3>1. 4 \in Nat \ {0}
      OBVIOUS
    <3> QED BY <1>1, <3>1, ItemSize, Zenon
  <2>2. /\ Short(Len(h)) => data # FileOf[p]
        /\ ~ Short(Len(h)) => (\A i \in 1 .. Len(h) : Byte(i) = h[i]) /\ Ahead(FileOf[p], pos + Len(h), r)
    BY <2>1, <1>1, <1>3, NextItem
  <2> QED BY <2>1, <2>2
<1>5. CASE Short(4) /\ Refuse({"invalid_byte"}, Len(data))
  BY <1>4, <1>5, RefusedOnCourse
<1>6. CASE ~ Short(4) /\ SubSeq(data, 1, 4) # Prefix
  <2>1. \A i \in 1 .. 4 : data[i] = h[i]
    BY <1>3, <1>4, <1>6 DEF Byte
  <2>2. \A i \in 1 .. 4 : data[i] \in Bytes
    <3>1. h \in Seq(Bytes) /\ Len(h) = 4
      BY <1>1
    <3>2. \A i \in 1 .. 4 : h[i] \in Bytes
      <4>1. 4 \in Nat \ {0}
        OBVIOUS
      <4> QED BY <3>1, <4>1, ItemSize, Zenon
    <3> QED BY <2>1, <3>2
  <2>3. PICK s \in Seq(Bytes) : s = SubSeq(data, 1, 4) /\ Len(s) = 4 /\ \A i \in 1 .. 4 : s[i] = data[i]
    <3>1. /\ SubSeq(data, 1, 4) \in Seq(Bytes)
          /\ Len(SubSeq(data, 1, 4)) = IF 1 <= 4 THEN 4 - 1 + 1 ELSE 0
          /\ \A i \in 1 .. 4 - 1 + 1 : SubSeq(data, 1, 4)[i] = data[1 + i - 1]
      BY <2>2, SubSeqProperties
    <3>2. 4 - 1 + 1 = 4 /\ \A i \in 1 .. 4 : 1 + i - 1 = i
      OBVIOUS
    <3>3. PICK s \in Seq(Bytes) : s = SubSeq(data, 1, 4)
      BY <3>1
    <3>4. Len(s) = 4 /\ \A i \in 1 .. 4 : s[i] = data[i]
      BY <3>1, <3>2, <3>3
    <3> QED BY <3>3, <3>4
  <2>4. s = h
    BY <1>1, <2>1, <2>3, SeqEqual
  <2> QED BY <1>1, <1>6, <2>3, <2>4
<1>7. CASE ~ Short(4) /\ state' = "meta" /\ Took(4) /\ UNCHANGED <<prgm, temp, rc, skipped>>
  <2>1. Ahead(FileOf[p], pos', r) /\ flags' = {}
    BY <1>3, <1>4, <1>7, FlagsOnCourse
  <2> QED BY <1>2, <1>3, <1>7, <2>1, Arrived
<1> QED BY <1>5, <1>6, <1>7 DEF eat_prefix

\* tbl_eat_meta.
LEMMA MetaOnCourse ==
  ASSUME LoaderIInv, NEW p \in Programs, Starts(data, FileOf[p]), OnCourse(p), eat_meta
  PROVE  OnCourse(p)'
<1>1. PICK h \in Seq(Bytes) : h = Number(p.entry_id, 4) /\ Len(h) = 4 /\ p.entry_id \in Shorts
  BY ProgramTyped, NumberTyped DEF Shorts
<1>2. PICK r \in Seq(Bytes) : r = StringsAhead(p, 0)
  <2>1. 0 \in 0 .. Len(p.strings)
    BY ProgramTyped
  <2> QED BY <2>1, StringsAheadOf
<1>3. state = "meta" /\ prgm = NoProgram /\ flags = {} /\ Ahead(FileOf[p], pos, h \o r)
  BY <1>1, <1>2 DEF eat_meta, OnCourse
<1>4. /\ Short(4) => data # FileOf[p]
      /\ ~ Short(4) => (\A i \in 1 .. 4 : Byte(i) = h[i]) /\ Ahead(FileOf[p], pos + 4, r)
  <2>1. Len(h) = 4 /\ Len(h) \in Nat \ {0}
    <3>1. 4 \in Nat \ {0}
      OBVIOUS
    <3> QED BY <1>1, <3>1, ItemSize, Zenon
  <2>2. /\ Short(Len(h)) => data # FileOf[p]
        /\ ~ Short(Len(h)) => (\A i \in 1 .. Len(h) : Byte(i) = h[i]) /\ Ahead(FileOf[p], pos + Len(h), r)
    BY <2>1, <1>1, <1>3, NextItem
  <2> QED BY <2>1, <2>2
<1>5. CASE Short(4) /\ CutShort
  BY <1>4, <1>5, CutOnCourse
<1>6. CASE ~ Short(4) /\ prgm' = [prgm EXCEPT !.entry_id = I32(0)] /\ state' = "str" /\ Took(4)
  <2>1. Ahead(FileOf[p], pos', r) /\ flags' = {}
    BY <1>3, <1>4, <1>6, FlagsOnCourse
  <2>2. I32(0) = p.entry_id
    BY <1>1, <1>4, <1>6, NumberRead
  <2>3. prgm' = [entry_id |-> p.entry_id, strings |-> <<>>, chunks |-> <<>>]
    BY <1>3, <1>6, <2>2 DEF NoProgram
  <2>4. SubSeq(p.strings, 1, 0) = <<>> /\ 0 \in 0 .. Len(p.strings)
    BY ProgramTyped, SubSeqEmpty
  <2>5. prgm' = StringsRead(p, 0)
    BY <2>3, <2>4 DEF StringsRead
  <2>6. InStrings(p)'
    BY <1>2, <2>1, <2>4, <2>5 DEF InStrings
  <2> QED BY <1>6, <2>1, <2>6, Arrived
<1> QED BY <1>5, <1>6 DEF eat_meta

\* tbl_eat_str, as far as the length.
LEMMA StrOnCourse ==
  ASSUME LoaderIInv, NEW p \in Programs, Starts(data, FileOf[p]), OnCourse(p), eat_str
  PROVE  OnCourse(p)'
<1>1. state = "str" /\ flags = {}
  BY DEF eat_str, OnCourse
<1>2. PICK k \in 0 .. Len(p.strings) : prgm = StringsRead(p, k) /\ Ahead(FileOf[p], pos, StringsAhead(p, k))
  BY <1>1 DEF OnCourse, InStrings
<1>3. p.strings \in Seq(Seq(Bytes)) /\ Len(p.strings) \in Nat
  BY ProgramTyped
<1>4. CASE k = Len(p.strings)
  <2>1. PICK h \in Seq(Bytes) : h = Number(0, 4) /\ Len(h) = 4 /\ 0 \in Shorts
    BY NumberTyped, ShortFacts
  <2>2. PICK r \in Seq(Bytes) : r = ChunksAhead(p, 0)
    <3>1. 0 \in 0 .. Len(p.chunks)
      BY ProgramTyped
    <3> QED BY <3>1, ChunksAheadOf
  <2>3. Ahead(FileOf[p], pos, h \o r)
    BY <1>2, <1>4, <2>1, <2>2, StringsAheadOf
  <2>4. /\ Short(4) => data # FileOf[p]
        /\ ~ Short(4) => (\A i \in 1 .. 4 : Byte(i) = h[i]) /\ Ahead(FileOf[p], pos + 4, r)
    <3>1. Len(h) = 4 /\ Len(h) \in Nat \ {0}
      <4>1. 4 \in Nat \ {0}
        OBVIOUS
      <4> QED BY <2>1, <4>1, ItemSize, Zenon
    <3>2. /\ Short(Len(h)) => data # FileOf[p]
          /\ ~ Short(Len(h)) => (\A i \in 1 .. Len(h) : Byte(i) = h[i]) /\ Ahead(FileOf[p], pos + Len(h), r)
      BY <3>1, <2>1, <2>3, NextItem
    <3> QED BY <3>1, <3>2
  <2>5. CASE Short(4) /\ CutShort
    BY <2>4, <2>5, CutOnCourse
  <2>6. CASE ~ Short(4) /\ Took(4)
    <3>1. Unsigned(4) = 0 /\ Byte(4) = 0
      BY <2>1, <2>4, <2>6, NumberRead
    <3>2. state' = "chunk" /\ UNCHANGED prgm
      BY <2>6, <3>1 DEF eat_str
    <3>3. Ahead(FileOf[p], pos', r) /\ flags' = {}
      BY <1>1, <2>4, <2>6, FlagsOnCourse
    <3>4. prgm' = ChunksRead(p, 0)
      <4>1. SubSeq(p.strings, 1, k) = p.strings
        BY <1>3, <1>4, SubSeqFull
      <4>2. [i \in 1 .. 0 |-> LoadedChunk(p.chunks[i])] = <<>>
        OBVIOUS
      <4> QED BY <1>2, <3>2, <4>1, <4>2 DEF StringsRead, ChunksRead
    <3>5. 0 \in 0 .. Len(p.chunks)
      BY ProgramTyped
    <3>6. InChunks(p)'
      BY <2>2, <3>3, <3>4, <3>5 DEF InChunks
    <3>7. flags' = {} /\ state' = "chunk" /\ InChunks(p)'
      BY <3>2, <3>3, <3>6
    <3> QED BY <3>7, Arrived, Zenon
  <2> QED BY <2>5, <2>6 DEF eat_str
<1>5. CASE k # Len(p.strings)
  <2>1. k \in 0 .. Len(p.strings) - 1 /\ k + 1 \in 1 .. Len(p.strings)
    BY <1>3, <1>5
  <2>2. PICK string \in Seq(Bytes) : string = p.strings[k + 1] /\ Len(string) \in Counts
    <3>1. PICK n \in 1 .. Len(p.strings) : n = k + 1
      BY <2>1
    <3>2. Len(p.strings[n]) \in Counts
      BY ProgramsAssumption
    <3> QED BY <1>3, <3>1, <3>2
  <2>3. Len(string) \in Shorts /\ Len(string) \in Nat \ {0}
    BY <2>2, ShortFacts
  <2>4. PICK h \in Seq(Bytes) : h = Number(Len(string), 4) /\ Len(h) = 4
    BY <2>3, NumberTyped
  <2>5. 0 \in 0 .. Len(string) /\ 0 \in 0 .. Len(string) - 1
    BY <2>3
  <2>6. PICK r \in Seq(Bytes) : r = CharsAhead(p, k, 0)
    BY <2>1, <2>2, <2>5, CharsAheadOf
  <2>7. Ahead(FileOf[p], pos, h \o r)
    BY <1>2, <2>1, <2>2, <2>4, <2>6, CharsAheadOf
  <2>8. /\ Short(4) => data # FileOf[p]
        /\ ~ Short(4) => (\A i \in 1 .. 4 : Byte(i) = h[i]) /\ Ahead(FileOf[p], pos + 4, r)
    <3>1. Len(h) = 4 /\ Len(h) \in Nat \ {0}
      <4>1. 4 \in Nat \ {0}
        OBVIOUS
      <4> QED BY <2>4, <4>1, ItemSize, Zenon
    <3>2. /\ Short(Len(h)) => data # FileOf[p]
          /\ ~ Short(Len(h)) => (\A i \in 1 .. Len(h) : Byte(i) = h[i]) /\ Ahead(FileOf[p], pos + Len(h), r)
      BY <3>1, <2>4, <2>7, NextItem
    <3> QED BY <3>1, <3>2
  <2>9. CASE Short(4) /\ CutShort
    BY <2>8, <2>9, CutOnCourse
  <2>10. CASE ~ Short(4) /\ Took(4)
    <3>1. Unsigned(4) = Len(string) /\ Byte(4) = 0
      BY <2>3, <2>4, <2>8, <2>10, NumberRead
    <3>2. state' = "chars" /\ temp' = <<>> /\ rc' = Len(string) /\ UNCHANGED prgm
      BY <2>3, <2>10, <3>1 DEF eat_str
    <3>3. Ahead(FileOf[p], pos', r) /\ flags' = {}
      BY <1>1, <2>8, <2>10, FlagsOnCourse
    <3>4. temp' = SubSeq(string, 1, 0) /\ rc' = Len(string) - 0
      BY <2>3, <3>2, SubSeqEmpty
    <3>5. InChars(p)'
      BY <1>2, <2>1, <2>2, <2>5, <2>6, <3>2, <3>3, <3>4 DEF InChars
    <3>6. flags' = {} /\ state' = "chars" /\ InChars(p)'
      BY <3>2, <3>3, <3>5
    <3> QED BY <3>6, Arrived, Zenon
  <2> QED BY <2>9, <2>10 DEF eat_str
<1> QED BY <1>4, <1>5

\* The loop of tbl_eat_str.
LEMMA CharOnCourse ==
  ASSUME LoaderIInv, NEW p \in Programs, Starts(data, FileOf[p]), OnCourse(p), eat_char
  PROVE  OnCourse(p)'
<1>1. state = "chars" /\ flags = {}
  BY DEF eat_char, OnCourse
<1>2. PICK k \in 0 .. Len(p.strings) - 1 : \E j \in 0 .. Len(p.strings[k + 1]) - 1 :
        /\ prgm = StringsRead(p, k) /\ temp = SubSeq(p.strings[k + 1], 1, j)
        /\ rc = Len(p.strings[k + 1]) - j /\ Ahead(FileOf[p], pos, CharsAhead(p, k, j))
  BY <1>1 DEF OnCourse, InChars
<1>3. k + 1 \in 1 .. Len(p.strings) /\ k + 1 \in 0 .. Len(p.strings) /\ p.strings \in Seq(Seq(Bytes))
  BY ProgramTyped
<1>4. PICK string \in Seq(Bytes) : string = p.strings[k + 1]
  BY <1>3
<1>5. PICK n \in Nat : n = Len(string)
  OBVIOUS
<1>6. PICK j \in 0 .. n - 1 :
        /\ prgm = StringsRead(p, k) /\ temp = SubSeq(string, 1, j)
        /\ rc = n - j /\ Ahead(FileOf[p], pos, CharsAhead(p, k, j))
  BY <1>2, <1>4, <1>5
<1>7. j + 1 \in 1 .. n /\ j + 1 \in 0 .. n /\ string[j + 1] \in Bytes
  BY <1>4, <1>5
<1>8. PICK h \in Seq(Bytes) : h = <<string[j + 1]>> /\ Len(h) = 1 /\ h[1] = string[j + 1]
  <2>1. /\ <<string[j + 1]>> \in Seq(Bytes) /\ Len(<<string[j + 1]>>) = 1
        /\ <<string[j + 1]>>[1] = string[j + 1]
    BY <1>7
  <2> QED BY <2>1
<1>9. PICK r \in Seq(Bytes) : r = CharsAhead(p, k, j + 1)
  BY <1>4, <1>5, <1>7, CharsAheadOf
<1>10. Ahead(FileOf[p], pos, h \o r)
  BY <1>4, <1>5, <1>6, <1>8, <1>9, CharsAheadOf
<1>11. /\ Short(1) => data # FileOf[p]
       /\ ~ Short(1) => Byte(1) = string[j + 1] /\ Ahead(FileOf[p], pos + 1, r)
  <2>1. Len(h) = 1 /\ Len(h) \in Nat \ {0}
    BY <1>8
  <2>2. /\ Short(Len(h)) => data # FileOf[p]
        /\ ~ Short(Len(h)) => (\A i \in 1 .. Len(h) : Byte(i) = h[i]) /\ Ahead(FileOf[p], pos + Len(h), r)
    BY <2>1, <1>10, NextItem
  <2> QED BY <1>8, <2>1, <2>2
<1>12. CASE Short(1) /\ CutShort
  BY <1>11, <1>12, CutOnCourse
<1>13. CASE ~ Short(1) /\ Took(1)
  <2>1. Ahead(FileOf[p], pos', r) /\ flags' = {}
    BY <1>1, <1>11, <1>13, FlagsOnCourse
  <2>2. Append(temp, Byte(1)) = SubSeq(string, 1, j + 1)
    <3>1. SubSeq(string, 1, j + 1) = SubSeq(string, 1, j) \o <<string[j + 1]>>
      <4>1. 1 \in 1 .. Len(string) /\ j + 1 \in 1 .. Len(string) /\ (j + 1) - 1 = j
        BY <1>5, <1>7
      <4> QED BY <4>1, SubSeqRecursiveSecond
    <3>2. temp \in Seq(Bytes)
      BY <1>1 DEF LoaderIInv, Reading
    <3>3. Append(temp, string[j + 1]) = temp \o <<string[j + 1]>>
      BY <1>7, <3>2, AppendIsConcat
    <3> QED BY <1>6, <1>11, <1>13, <3>1, <3>3
  <2>3. CASE rc > 1
    <3>1. temp' = SubSeq(string, 1, j + 1) /\ rc' = rc - 1 /\ UNCHANGED <<state, prgm>>
      <4>1. temp' = Append(temp, Byte(1)) /\ rc' = rc - 1 /\ UNCHANGED <<state, prgm>>
        BY <1>13, <2>3 DEF eat_char
      <4> QED BY <2>2, <4>1
    <3>2. j + 1 \in 0 .. n - 1 /\ rc' = n - (j + 1)
      BY <1>6, <2>3, <3>1
    <3>3. InChars(p)'
      BY <1>4, <1>5, <1>6, <1>9, <2>1, <3>1, <3>2 DEF InChars
    <3>4. flags' = {} /\ state' = "chars" /\ InChars(p)'
      BY <1>1, <2>1, <3>1, <3>3
    <3> QED BY <3>4, Arrived, Zenon
  <2>4. CASE ~ (rc > 1)
    <3>1. j + 1 = n
      BY <1>6, <2>4
    <3>2. /\ prgm' = [prgm EXCEPT !.strings = Append(prgm.strings, SubSeq(string, 1, j + 1))]
          /\ state' = "str"
      BY <1>13, <2>2, <2>4 DEF eat_char
    <3>3. SubSeq(string, 1, j + 1) = p.strings[k + 1]
      BY <1>4, <1>5, <3>1, SubSeqFull
    <3>4. Append(SubSeq(p.strings, 1, k), p.strings[k + 1]) = SubSeq(p.strings, 1, k + 1)
      <4>1. 1 \in 1 .. Len(p.strings) /\ k + 1 \in 1 .. Len(p.strings) /\ (k + 1) - 1 = k
        BY <1>3
      <4>2. SubSeq(p.strings, 1, k + 1) = SubSeq(p.strings, 1, k) \o <<p.strings[k + 1]>>
        BY <1>3, <4>1, SubSeqRecursiveSecond
      <4>3. SubSeq(p.strings, 1, k) \in Seq(Seq(Bytes)) /\ p.strings[k + 1] \in Seq(Bytes)
        <5>1. k \in Int /\ 1 \in Int /\ \A i \in 1 .. k : p.strings[i] \in Seq(Bytes)
          BY <1>3
        <5> QED BY <1>4, <5>1, SubSeqProperties
      <4> QED BY <4>2, <4>3, AppendIsConcat
    <3>5. prgm' = StringsRead(p, k + 1)
      BY <1>6, <3>2, <3>3, <3>4 DEF StringsRead
    <3>6. r = StringsAhead(p, k + 1)
      BY <1>4, <1>5, <1>9, <3>1, CharsAheadOf
    <3>7. InStrings(p)'
      BY <1>3, <2>1, <3>5, <3>6 DEF InStrings
    <3>8. flags' = {} /\ state' = "str" /\ InStrings(p)'
      BY <2>1, <3>2, <3>7
    <3> QED BY <3>8, Arrived, Zenon
  <2> QED BY <2>3, <2>4
<1> QED BY <1>12, <1>13 DEF eat_char

\* A sequence that is made item by item.
LEMMA MadeGrows ==
  ASSUME NEW f, NEW k \in Nat
  PROVE  Append([i \in 1 .. k |-> f[i]], f[k + 1]) = [i \in 1 .. k + 1 |-> f[i]]
<1>1. PICK S : S = {f[i] : i \in 1 .. k + 1}
  OBVIOUS
<1>2. PICK s : s = [i \in 1 .. k |-> f[i]]
  OBVIOUS
<1>3. PICK t : t = [i \in 1 .. k + 1 |-> f[i]]
  OBVIOUS
<1>4. s \in Seq(S) /\ Len(s) = k /\ \A i \in 1 .. k : s[i] = f[i]
  <2>1. \A i \in 1 .. k : f[i] \in S
    BY <1>1
  <2> QED BY <1>2, <2>1
<1>5. t \in Seq(S) /\ Len(t) = k + 1 /\ \A i \in 1 .. k + 1 : t[i] = f[i]
  <2>1. \A i \in 1 .. k + 1 : f[i] \in S
    BY <1>1
  <2> QED BY <1>3, <2>1
<1>6. f[k + 1] \in S
  BY <1>1
<1>7. PICK u \in Seq(S) : u = Append(s, f[k + 1])
  BY <1>4, <1>6, AppendProperties
<1>8. Len(u) = k + 1 /\ \A i \in 1 .. k + 1 : u[i] = f[i]
  BY <1>4, <1>6, <1>7, AppendProperties
<1>9. u = t
  BY <1>5, <1>7, <1>8, SeqEqual
<1> QED BY <1>2, <1>3, <1>7, <1>9

\* One more chunk, or one more constant, was read.
LEMMA ChunksReadGrows ==
  ASSUME NEW p \in Programs, NEW k \in 0 .. Len(p.chunks) - 1
  PROVE  [ChunksRead(p, k) EXCEPT !.chunks = Append(ChunksRead(p, k).chunks, LoadedChunk(p.chunks[k + 1]))]
           = ChunksRead(p, k + 1)
<1>1. PICK n \in Nat : n = Len(p.chunks)
  BY ProgramTyped
<1>2. PICK f : f = [i \in 1 .. n |-> LoadedChunk(p.chunks[i])]
  OBVIOUS
<1>3. k \in Nat /\ k + 1 \in 1 .. n /\ 1 .. k \subseteq 1 .. n /\ 1 .. k + 1 \subseteq 1 .. n
  BY <1>1
<1>4. \A i \in 1 .. n : LoadedChunk(p.chunks[i]) = f[i]
  BY <1>2
<1>5. ChunksRead(p, k).chunks = [i \in 1 .. k |-> f[i]]
  BY <1>3, <1>4 DEF ChunksRead
<1>6. ChunksRead(p, k + 1).chunks = [i \in 1 .. k + 1 |-> f[i]]
  BY <1>3, <1>4 DEF ChunksRead
<1>7. LoadedChunk(p.chunks[k + 1]) = f[k + 1]
  BY <1>3, <1>4
<1>8. Append(ChunksRead(p, k).chunks, LoadedChunk(p.chunks[k + 1])) = ChunksRead(p, k + 1).chunks
  BY <1>3, <1>5, <1>6, <1>7, MadeGrows
<1>9. PICK more : more = ChunksRead(p, k + 1).chunks
  OBVIOUS
<1>10. /\ ChunksRead(p, k + 1) = [entry_id |-> p.entry_id, strings |-> p.strings, chunks |-> more]
       /\ ChunksRead(p, k) = [entry_id |-> p.entry_id, strings |-> p.strings, chunks |-> ChunksRead(p, k).chunks]
  BY <1>9 DEF ChunksRead
<1>11. [ChunksRead(p, k) EXCEPT !.chunks = more] = ChunksRead(p, k + 1)
  BY <1>10
<1> QED BY <1>8, <1>9, <1>11, Zenon

\* The constants that are read, one more.
LEMMA ConstsReadGrows ==
  ASSUME NEW chunk \in Chunks, NEW j \in 0 .. Len(chunk.constants) - 1
  PROVE  [ConstsRead(chunk, j) EXCEPT
            !.constants = Append(ConstsRead(chunk, j).constants, LoadedConst(chunk.constants[j + 1]))]
           = ConstsRead(chunk, j + 1)
<1>1. PICK n \in Nat : n = Len(chunk.constants)
  BY DEF Chunks
<1>2. PICK f : f = [i \in 1 .. n |-> LoadedConst(chunk.constants[i])]
  OBVIOUS
<1>3. j \in Nat /\ j + 1 \in 1 .. n /\ 1 .. j \subseteq 1 .. n /\ 1 .. j + 1 \subseteq 1 .. n
  BY <1>1
<1>4. \A i \in 1 .. n : LoadedConst(chunk.constants[i]) = f[i]
  BY <1>2
<1>5. ConstsRead(chunk, j).constants = [i \in 1 .. j |-> f[i]]
  BY <1>3, <1>4 DEF ConstsRead
<1>6. ConstsRead(chunk, j + 1).constants = [i \in 1 .. j + 1 |-> f[i]]
  BY <1>3, <1>4 DEF ConstsRead
<1>7. LoadedConst(chunk.constants[j + 1]) = f[j + 1]
  BY <1>3, <1>4
<1>8. Append(ConstsRead(chunk, j).constants, LoadedConst(chunk.constants[j + 1])) = ConstsRead(chunk, j + 1).constants
  BY <1>3, <1>5, <1>6, <1>7, MadeGrows
<1>9. PICK more : more = ConstsRead(chunk, j + 1).constants
  OBVIOUS
<1>10. /\ ConstsRead(chunk, j + 1) = [code |-> chunk.code, constants |-> more]
       /\ ConstsRead(chunk, j) = [code |-> chunk.code, constants |-> ConstsRead(chunk, j).constants]
  BY <1>9 DEF ConstsRead
<1>11. [ConstsRead(chunk, j) EXCEPT !.constants = more] = ConstsRead(chunk, j + 1)
  BY <1>10
<1> QED BY <1>8, <1>9, <1>11, Zenon

\* A chunk of which all is read.
LEMMA ChunkAllRead ==
  ASSUME NEW chunk \in Chunks
  PROVE  /\ ConstsRead(chunk, Len(chunk.constants)) = LoadedChunk(chunk)
         /\ CodeRead(chunk, Len(chunk.code)) = ConstsRead(chunk, 0)
         /\ CodeRead(chunk, 0) = EmptyChunk
<1>1. chunk.code \in Seq(Instructions) /\ chunk.constants \in Seq(Constants)
  BY DEF Chunks
<1>2. DOMAIN chunk.constants = 1 .. Len(chunk.constants)
  BY <1>1
<1>3. SubSeq(chunk.code, 1, Len(chunk.code)) = chunk.code /\ SubSeq(chunk.code, 1, 0) = <<>>
  BY <1>1, SubSeqFull, SubSeqEmpty
<1>4. [i \in 1 .. 0 |-> LoadedConst(chunk.constants[i])] = <<>>
  OBVIOUS
<1> QED BY <1>2, <1>3, <1>4 DEF ConstsRead, LoadedChunk, CodeRead, EmptyChunk

\* tbl_eat_chunk, as far as the number of instructions.
LEMMA ChunkOnCourse ==
  ASSUME LoaderIInv, NEW p \in Programs, Starts(data, FileOf[p]), OnCourse(p), eat_chunk
  PROVE  OnCourse(p)'
<1>1. state = "chunk" /\ flags = {} /\ state # "err"
  BY DEF eat_chunk, OnCourse
<1>2. PICK k \in 0 .. Len(p.chunks) : prgm = ChunksRead(p, k) /\ Ahead(FileOf[p], pos, ChunksAhead(p, k))
  BY <1>1 DEF OnCourse, InChunks
<1>3. p.chunks \in Seq(Chunks) /\ Len(p.chunks) \in Nat /\ DOMAIN p.chunks = 1 .. Len(p.chunks)
  BY ProgramTyped
<1>4. CASE k = Len(p.chunks)
  <2>1. PICK h \in Seq(Bytes) : h = Number(0, 8) /\ Len(h) = 8 /\ 0 \in Shorts
    BY NumberTyped, ShortFacts
  <2>2. PICK r \in Seq(Bytes) : r = <<>> /\ Len(r) = 0
    <3>1. <<>> \in Seq(Bytes) /\ Len(<<>>) = 0
      OBVIOUS
    <3> QED BY <3>1, Zenon
  <2>3. Ahead(FileOf[p], pos, h \o r)
    <3>1. h \o r = h
      BY <2>2, ConcatEmptySeq
    <3>2. ChunksAhead(p, k) = h
      BY <1>4, <2>1, ChunksAheadOf
    <3> QED BY <1>2, <3>1, <3>2
  <2>4. /\ Short(8) => data # FileOf[p]
        /\ ~ Short(8) => (\A i \in 1 .. 8 : Byte(i) = h[i]) /\ Ahead(FileOf[p], pos + 8, r)
    <3>1. Len(h) = 8 /\ Len(h) \in Nat \ {0}
      <4>1. 8 \in Nat \ {0}
        OBVIOUS
      <4> QED BY <2>1, <4>1, ItemSize, Zenon
    <3>2. /\ Short(Len(h)) => data # FileOf[p]
          /\ ~ Short(Len(h)) => (\A i \in 1 .. Len(h) : Byte(i) = h[i]) /\ Ahead(FileOf[p], pos + Len(h), r)
      BY <3>1, <2>1, <2>3, NextItem
    <3> QED BY <3>1, <3>2
  <2>5. CASE Short(8) /\ CutShort
    BY <2>4, <2>5, CutOnCourse
  <2>6. CASE ~ Short(8) /\ Took(8)
    <3>1. Unsigned(8) = 0
      BY <2>1, <2>4, <2>6, NumberRead
    <3>2. state' = "end" /\ UNCHANGED prgm
      BY <2>6, <3>1 DEF eat_chunk
    <3>3. Ahead(FileOf[p], pos', r) /\ flags' = {}
      BY <1>1, <2>4, <2>6, FlagsOnCourse
    <3>4. pos' = Len(FileOf[p])
      <4>1. Len(FileOf[p]) = pos' + Len(r) /\ pos' \in Nat
        BY <3>3 DEF Ahead
      <4>2. PICK left : left = Len(r)
        OBVIOUS
      <4>3. PICK at \in Nat : at = pos'
        BY <4>1
      <4>4. left = 0
        BY <2>2, <4>2, Zenon
      <4>5. Len(FileOf[p]) = at + left
        BY <4>1, <4>2, <4>3, Zenon
      <4>6. at + left = at
        BY <4>4
      <4> QED BY <4>3, <4>5, <4>6, Zenon
    <3>5. prgm' = AsLoaded(p)
      BY <1>2, <1>3, <1>4, <3>2 DEF ChunksRead, AsLoaded
    <3> QED BY <3>2, <3>3, <3>4, <3>5, Arrived, Zenon
  <2> QED BY <2>5, <2>6 DEF eat_chunk
<1>5. CASE k # Len(p.chunks)
  <2>1. k \in 0 .. Len(p.chunks) - 1 /\ k + 1 \in 1 .. Len(p.chunks)
    BY <1>3, <1>5
  <2>2. PICK chunk \in Chunks : chunk = p.chunks[k + 1] /\ Len(chunk.code) \in Counts
    BY <2>1, ChunkOfProgram
  <2>3. PICK n \in Nat \ {0} : n = Len(chunk.code) /\ n \in Shorts
    BY <2>2, ShortFacts
  <2>4. PICK h \in Seq(Bytes) : h = Number(n, 8) /\ Len(h) = 8
    BY <2>3, NumberTyped
  <2>5. 0 \in 0 .. n
    BY <2>3
  <2>6. PICK r \in Seq(Bytes) : r = CodeAhead(p, k, 0)
    BY <2>1, <2>2, <2>3, <2>5, CodeAheadOf
  <2>7. Ahead(FileOf[p], pos, h \o r)
    BY <1>2, <2>1, <2>2, <2>3, <2>4, <2>6, CodeAheadOf
  <2>8. /\ Short(8) => data # FileOf[p]
        /\ ~ Short(8) => (\A i \in 1 .. 8 : Byte(i) = h[i]) /\ Ahead(FileOf[p], pos + 8, r)
    <3>1. Len(h) = 8 /\ Len(h) \in Nat \ {0}
      <4>1. 8 \in Nat \ {0}
        OBVIOUS
      <4> QED BY <2>4, <4>1, ItemSize, Zenon
    <3>2. /\ Short(Len(h)) => data # FileOf[p]
          /\ ~ Short(Len(h)) => (\A i \in 1 .. Len(h) : Byte(i) = h[i]) /\ Ahead(FileOf[p], pos + Len(h), r)
      BY <3>1, <2>4, <2>7, NextItem
    <3> QED BY <3>1, <3>2
  <2>9. CASE Short(8) /\ CutShort
    BY <2>8, <2>9, CutOnCourse
  <2>10. CASE ~ Short(8) /\ Took(8)
    <3>1. Unsigned(8) = n
      BY <2>3, <2>4, <2>8, <2>10, NumberRead
    <3>2. state' = "code" /\ temp' = EmptyChunk /\ rc' = n /\ UNCHANGED prgm
      BY <2>3, <2>10, <3>1 DEF eat_chunk
    <3>3. Ahead(FileOf[p], pos', r) /\ flags' = {}
      BY <1>1, <2>8, <2>10, FlagsOnCourse
    <3>4. temp' = CodeRead(chunk, 0) /\ rc' = n - 0
      BY <2>2, <2>3, <3>2, ChunkAllRead
    <3>5. InCode(p)'
      BY <1>2, <2>1, <2>2, <2>3, <2>5, <2>6, <3>2, <3>3, <3>4 DEF InCode
    <3>6. flags' = {} /\ state' = "code" /\ InCode(p)'
      BY <3>2, <3>3, <3>5
    <3> QED BY <3>6, Arrived, Zenon
  <2> QED BY <2>9, <2>10 DEF eat_chunk
<1> QED BY <1>4, <1>5

\* The loop of tbl_eat_chunk over the instructions.
LEMMA InstructionOnCourse ==
  ASSUME LoaderIInv, NEW p \in Programs, Starts(data, FileOf[p]), OnCourse(p), eat_instruction
  PROVE  OnCourse(p)'
<1>1. state = "code" /\ flags = {} /\ state # "err" /\ rc > 0
  BY DEF eat_instruction, OnCourse
<1>2. PICK k \in 0 .. Len(p.chunks) - 1 : \E j \in 0 .. Len(p.chunks[k + 1].code) :
        /\ prgm = ChunksRead(p, k) /\ temp = CodeRead(p.chunks[k + 1], j)
        /\ rc = Len(p.chunks[k + 1].code) - j /\ Ahead(FileOf[p], pos, CodeAhead(p, k, j))
  BY <1>1 DEF OnCourse, InCode
<1>3. PICK chunk \in Chunks : chunk = p.chunks[k + 1]
  BY ChunkOfProgram
<1>4. PICK n \in Nat : n = Len(chunk.code)
  BY DEF Chunks
<1>5. PICK j \in 0 .. n :
        /\ prgm = ChunksRead(p, k) /\ temp = CodeRead(chunk, j)
        /\ rc = n - j /\ Ahead(FileOf[p], pos, CodeAhead(p, k, j))
  BY <1>2, <1>3, <1>4
<1>6. j \in 0 .. n - 1 /\ j + 1 \in 1 .. n /\ j + 1 \in 0 .. n
  BY <1>1, <1>5
<1>7. PICK inst \in Instructions : inst = chunk.code[j + 1]
  BY <1>4, <1>6 DEF Chunks
<1>8. PICK h \in Seq(Bytes) : h = WrittenInst(inst) /\ Len(h) = 4
  BY InstTyped
<1>9. h[1] = inst.op /\ h[2] = inst.flag /\ h[3] + 256 * h[4] = inst.wide
  BY <1>8, InstTyped
<1>10. PICK r \in Seq(Bytes) : r = CodeAhead(p, k, j + 1)
  BY <1>3, <1>4, <1>6, CodeAheadOf
<1>11. Ahead(FileOf[p], pos, h \o r)
  BY <1>3, <1>4, <1>5, <1>6, <1>7, <1>8, <1>10, CodeAheadOf
<1>12. /\ Short(4) => data # FileOf[p]
       /\ ~ Short(4) => (\A i \in 1 .. 4 : Byte(i) = h[i]) /\ Ahead(FileOf[p], pos + 4, r)
  <2>1. Len(h) = 4 /\ Len(h) \in Nat \ {0}
    <3>1. 4 \in Nat \ {0}
      OBVIOUS
    <3> QED BY <1>8, <3>1, ItemSize, Zenon
  <2>2. /\ Short(Len(h)) => data # FileOf[p]
        /\ ~ Short(Len(h)) => (\A i \in 1 .. Len(h) : Byte(i) = h[i]) /\ Ahead(FileOf[p], pos + Len(h), r)
    BY <2>1, <1>8, <1>11, NextItem
  <2> QED BY <2>1, <2>2
<1>13. CASE Short(4) /\ CutShort
  BY <1>12, <1>13, CutOnCourse
<1>14. CASE ~ Short(4) /\ Took(4)
  <2>1. Ahead(FileOf[p], pos', r) /\ flags' = {}
    BY <1>1, <1>12, <1>14, FlagsOnCourse
  <2>2. [op |-> Byte(1), flag |-> Byte(2), wide |-> Byte(3) + 256 * Byte(4)] = inst
    <3>1. Byte(1) = h[1] /\ Byte(2) = h[2] /\ Byte(3) = h[3] /\ Byte(4) = h[4]
      BY <1>12, <1>14
    <3>2. Byte(1) = inst.op /\ Byte(2) = inst.flag /\ Byte(3) + 256 * Byte(4) = inst.wide
      BY <1>9, <3>1, Zenon
    <3>3. inst = [op |-> inst.op, flag |-> inst.flag, wide |-> inst.wide]
      BY DEF Instructions
    <3> QED BY <3>2, <3>3, Zenon
  <2>3. /\ temp' = [temp EXCEPT !.code = Append(temp.code, inst)]
        /\ rc' = rc - 1 /\ UNCHANGED <<state, prgm>>
    BY <1>14, <2>2 DEF eat_instruction
  <2>4. Append(SubSeq(chunk.code, 1, j), chunk.code[j + 1]) = SubSeq(chunk.code, 1, j + 1)
    <3>1. PICK code \in Seq(Instructions) : code = chunk.code /\ Len(code) = n
      BY <1>4 DEF Chunks
    <3>2. 1 \in 1 .. Len(code) /\ j + 1 \in 1 .. Len(code) /\ (j + 1) - 1 = j
      BY <1>6, <3>1
    <3>3. SubSeq(code, 1, j + 1) = SubSeq(code, 1, j) \o <<code[j + 1]>>
      BY <3>2, SubSeqRecursiveSecond
    <3>4. SubSeq(code, 1, j) \in Seq(Instructions) /\ code[j + 1] \in Instructions
      <4>1. j \in Int /\ 1 \in Int /\ \A i \in 1 .. j : code[i] \in Instructions
        BY <1>6, <3>1
      <4> QED BY <3>2, <4>1, SubSeqProperties
    <3> QED BY <3>1, <3>3, <3>4, AppendIsConcat
  <2>5. temp' = CodeRead(chunk, j + 1)
    BY <1>5, <1>7, <2>3, <2>4 DEF CodeRead
  <2>6. rc' = n - (j + 1)
    BY <1>5, <2>3
  <2>7. InCode(p)'
    BY <1>3, <1>4, <1>5, <1>6, <1>10, <2>1, <2>3, <2>5, <2>6 DEF InCode
  <2>8. flags' = {} /\ state' = "code" /\ InCode(p)'
    BY <1>1, <2>1, <2>3, <2>7
  <2> QED BY <2>8, Arrived, Zenon
<1> QED BY <1>13, <1>14 DEF eat_instruction

\* tbl_eat_chunk, the number of constants.
LEMMA KonstCountOnCourse ==
  ASSUME LoaderIInv, NEW p \in Programs, Starts(data, FileOf[p]), OnCourse(p), eat_konst_count
  PROVE  OnCourse(p)'
<1>1. state = "code" /\ flags = {} /\ state # "err" /\ rc = 0
  BY DEF eat_konst_count, OnCourse
<1>2. PICK k \in 0 .. Len(p.chunks) - 1 : \E j \in 0 .. Len(p.chunks[k + 1].code) :
        /\ prgm = ChunksRead(p, k) /\ temp = CodeRead(p.chunks[k + 1], j)
        /\ rc = Len(p.chunks[k + 1].code) - j /\ Ahead(FileOf[p], pos, CodeAhead(p, k, j))
  BY <1>1 DEF OnCourse, InCode
<1>3. PICK chunk \in Chunks : chunk = p.chunks[k + 1] /\ Len(chunk.constants) \in Shorts
  BY ChunkOfProgram
<1>4. PICK n \in Nat : n = Len(chunk.code)
  BY DEF Chunks
<1>5. PICK m \in Nat : m = Len(chunk.constants) /\ m \in Shorts
  BY <1>3 DEF Chunks
<1>6. prgm = ChunksRead(p, k) /\ temp = CodeRead(chunk, n) /\ Ahead(FileOf[p], pos, CodeAhead(p, k, n))
  <2>1. PICK j \in 0 .. n :
          /\ prgm = ChunksRead(p, k) /\ temp = CodeRead(chunk, j)
          /\ rc = n - j /\ Ahead(FileOf[p], pos, CodeAhead(p, k, j))
    BY <1>2, <1>3, <1>4
  <2>2. j = n
    BY <1>1, <2>1
  <2> QED BY <2>1, <2>2
<1>7. temp = ConstsRead(chunk, 0)
  BY <1>4, <1>6, ChunkAllRead
<1>8. PICK h \in Seq(Bytes) : h = Number(m, 8) /\ Len(h) = 8
  BY <1>5, NumberTyped
<1>9. PICK r \in Seq(Bytes) : r = ConstsAhead(p, k, 0)
  <2>1. 0 \in 0 .. Len(chunk.constants)
    BY <1>5
  <2> QED BY <1>3, <2>1, ConstsAheadOf
<1>10. Ahead(FileOf[p], pos, h \o r)
  BY <1>3, <1>4, <1>5, <1>6, <1>8, <1>9, CodeAheadOf
<1>11. /\ Short(8) => data # FileOf[p]
       /\ ~ Short(8) => (\A i \in 1 .. 8 : Byte(i) = h[i]) /\ Ahead(FileOf[p], pos + 8, r)
  <2>1. Len(h) = 8 /\ Len(h) \in Nat \ {0}
    <3>1. 8 \in Nat \ {0}
      OBVIOUS
    <3> QED BY <1>8, <3>1, ItemSize, Zenon
  <2>2. /\ Short(Len(h)) => data # FileOf[p]
        /\ ~ Short(Len(h)) => (\A i \in 1 .. Len(h) : Byte(i) = h[i]) /\ Ahead(FileOf[p], pos + Len(h), r)
    BY <2>1, <1>8, <1>10, NextItem
  <2> QED BY <2>1, <2>2
<1>12. CASE Short(8) /\ CutShort
  BY <1>11, <1>12, CutOnCourse
<1>13. CASE ~ Short(8) /\ Took(8)
  <2>1. Ahead(FileOf[p], pos', r) /\ flags' = {}
    BY <1>1, <1>11, <1>13, FlagsOnCourse
  <2>2. Unsigned(8) = m
    BY <1>5, <1>8, <1>11, <1>13, NumberRead
  <2>3. CASE m = 0
    <3>1. prgm' = [prgm EXCEPT !.chunks = Append(prgm.chunks, temp)] /\ state' = "chunk"
      BY <1>13, <2>2, <2>3 DEF eat_konst_count, PushChunk
    <3>2. temp = LoadedChunk(p.chunks[k + 1])
      <4>1. ConstsRead(chunk, Len(chunk.constants)) = LoadedChunk(chunk)
        BY ChunkAllRead
      <4> QED BY <1>3, <1>5, <1>7, <2>3, <4>1
    <3>3. prgm' = ChunksRead(p, k + 1)
      BY <1>6, <3>1, <3>2, ChunksReadGrows
    <3>4. r = ChunksAhead(p, k + 1)
      BY <1>3, <1>5, <1>9, <2>3, ConstsAheadOf
    <3>5. k + 1 \in 0 .. Len(p.chunks)
      BY ProgramTyped
    <3>6. InChunks(p)'
      BY <2>1, <3>3, <3>4, <3>5 DEF InChunks
    <3>7. flags' = {} /\ state' = "chunk" /\ InChunks(p)'
      BY <2>1, <3>1, <3>6
    <3> QED BY <3>7, Arrived, Zenon
  <2>4. CASE m # 0
    <3>1. state' = "konst" /\ rc' = m /\ UNCHANGED <<prgm, temp>>
      BY <1>13, <2>2, <2>4 DEF eat_konst_count
    <3>2. 0 \in 0 .. m - 1 /\ rc' = m - 0
      BY <2>4, <3>1
    <3>3. InConsts(p)'
      BY <1>3, <1>5, <1>6, <1>7, <1>9, <2>1, <3>1, <3>2 DEF InConsts
    <3>4. flags' = {} /\ state' = "konst" /\ InConsts(p)'
      BY <2>1, <3>1, <3>3
    <3> QED BY <3>4, Arrived, Zenon
  <2> QED BY <2>3, <2>4
<1> QED BY <1>12, <1>13 DEF eat_konst_count

\* What tbl_eat_chunk makes of the five bytes of a constant.
LEMMA ConstantRead ==
  ASSUME NEW konst \in Constants, Len(konst.bytes) = 4, konst.means = Meaning(konst),
         Byte(1) = Tags[konst.tag], \A i \in 1 .. 4 : Byte(1 + i) = konst.bytes[i]
  PROVE  Constant = LoadedConst(konst)
<1>1. Payload(1) = konst.bytes
  <2>1. konst.bytes = [i \in 1 .. 4 |-> konst.bytes[i]]
    BY DEF Constants
  <2>2. Payload(1) = [i \in 1 .. 4 |-> konst.bytes[i]]
    BY DEF Payload
  <2> QED BY <2>1, <2>2
<1>2. I32(1) = IntOf(konst.bytes) /\ F32AsInt(1) = RealAsInt(konst.bytes)
  BY <1>1, Zenon DEF I32, F32AsInt
<1>3. Byte(2) = konst.bytes[1]
  <2>1. 1 \in 1 .. 4 /\ 1 + 1 = 2
    OBVIOUS
  <2> QED BY <2>1
<1>4. konst.tag \in {"nil", "bool", "int", "real", "strid"}
  BY TagValues DEF Constants
<1>5. CASE konst.tag = "nil"
  <2>1. Byte(1) = 0 /\ Constant = Konst("nil", 0)
    BY <1>5, TagValues DEF Constant
  <2>2. konst.means = 0
    BY <1>5 DEF Meaning
  <2> QED BY <1>5, <2>1, <2>2 DEF LoadedConst
<1>6. CASE konst.tag = "bool"
  <2>1. Byte(1) = 1 /\ Constant = Konst("bool", IF konst.bytes[1] # 0 THEN 1 ELSE 0)
    BY <1>3, <1>6, TagValues DEF Constant
  <2>2. konst.means = IF konst.bytes[1] # 0 THEN 1 ELSE 0
    BY <1>6 DEF Meaning
  <2> QED BY <1>6, <2>1, <2>2 DEF LoadedConst
<1>7. CASE konst.tag = "int"
  <2>1. Byte(1) = 2
    BY <1>7, TagValues
  <2>2. Constant = Konst("int", IntOf(konst.bytes))
    BY <1>2, <2>1 DEF Constant
  <2>3. konst.means = IntOf(konst.bytes)
    BY <1>7 DEF Meaning
  <2> QED BY <1>7, <2>2, <2>3 DEF LoadedConst
<1>8. CASE konst.tag = "real"
  <2>1. Byte(1) = 3
    BY <1>8, TagValues
  <2>2. Constant = Konst("int", RealAsInt(konst.bytes))
    BY <1>2, <2>1 DEF Constant
  <2> QED BY <1>8, <2>2 DEF LoadedConst
<1>9. CASE konst.tag = "strid"
  <2>1. Byte(1) = 4
    BY <1>9, TagValues
  <2>2. Constant = Konst("strid", StrId(IntOf(konst.bytes)))
    BY <1>2, <2>1 DEF Constant
  <2>3. konst.means = IntOf(konst.bytes)
    BY <1>9 DEF Meaning
  <2> QED BY <1>9, <2>2, <2>3 DEF LoadedConst
<1> QED BY <1>4, <1>5, <1>6, <1>7, <1>8, <1>9

\* The loop of tbl_eat_chunk over the constants.
LEMMA KonstOnCourse ==
  ASSUME LoaderIInv, NEW p \in Programs, Starts(data, FileOf[p]), OnCourse(p), eat_konst
  PROVE  OnCourse(p)'
<1>1. state = "konst" /\ flags = {} /\ state # "err"
  BY DEF eat_konst, OnCourse
<1>2. PICK k \in 0 .. Len(p.chunks) - 1 : \E j \in 0 .. Len(p.chunks[k + 1].constants) - 1 :
        /\ prgm = ChunksRead(p, k) /\ temp = ConstsRead(p.chunks[k + 1], j)
        /\ rc = Len(p.chunks[k + 1].constants) - j /\ Ahead(FileOf[p], pos, ConstsAhead(p, k, j))
  BY <1>1 DEF OnCourse, InConsts
<1>3. PICK chunk \in Chunks :
        /\ chunk = p.chunks[k + 1]
        /\ \A i \in 1 .. Len(chunk.constants) :
             Len(chunk.constants[i].bytes) = 4 /\ chunk.constants[i].means = Meaning(chunk.constants[i])
  BY ChunkOfProgram
<1>4. PICK n \in Nat : n = Len(chunk.constants)
  BY DEF Chunks
<1>5. PICK j \in 0 .. n - 1 :
        /\ prgm = ChunksRead(p, k) /\ temp = ConstsRead(chunk, j)
        /\ rc = n - j /\ Ahead(FileOf[p], pos, ConstsAhead(p, k, j))
  BY <1>2, <1>3, <1>4
<1>6. j + 1 \in 1 .. n /\ j + 1 \in 0 .. n /\ n >= 1
  BY <1>5
<1>7. PICK konst \in Constants :
        konst = chunk.constants[j + 1] /\ Len(konst.bytes) = 4 /\ konst.means = Meaning(konst)
  <2>1. chunk.constants[j + 1] \in Constants
    BY <1>4, <1>6 DEF Chunks
  <2> QED BY <1>3, <1>4, <1>6, <2>1
<1>8. PICK h \in Seq(Bytes) : h = WrittenConst(konst) /\ Len(h) = 5
  BY <1>7, ConstTyped
<1>9. h[1] = Tags[konst.tag] /\ \A i \in 1 .. 4 : h[i + 1] = konst.bytes[i]
  BY <1>7, <1>8, ConstTyped
<1>10. PICK r \in Seq(Bytes) : r = ConstsAhead(p, k, j + 1)
  BY <1>3, <1>4, <1>6, ConstsAheadOf
<1>11. Ahead(FileOf[p], pos, h \o r)
  BY <1>3, <1>4, <1>5, <1>7, <1>8, <1>10, ConstsAheadOf
<1>12. /\ Short(5) => data # FileOf[p]
       /\ ~ Short(5) => (\A i \in 1 .. 5 : Byte(i) = h[i]) /\ Ahead(FileOf[p], pos + 5, r)
  <2>1. Len(h) = 5 /\ Len(h) \in Nat \ {0}
    <3>1. 5 \in Nat \ {0}
      OBVIOUS
    <3> QED BY <1>8, <3>1, ItemSize, Zenon
  <2>2. /\ Short(Len(h)) => data # FileOf[p]
        /\ ~ Short(Len(h)) => (\A i \in 1 .. Len(h) : Byte(i) = h[i]) /\ Ahead(FileOf[p], pos + Len(h), r)
    BY <2>1, <1>8, <1>11, NextItem
  <2> QED BY <2>1, <2>2
<1>13. Short(1) => Short(5)
  <2>1. pos \in Nat /\ Len(data) \in Nat
    BY DEF LoaderIInv, LoaderInv, LoaderTypeOK, Reading
  <2> QED BY <2>1 DEF Short, Left
<1>14. CASE Short(1) /\ CutShort
  BY <1>12, <1>13, <1>14, CutOnCourse
<1>15. CASE Short(5) /\ Refuse({}, Len(data))
  <2>1. HasConstants(p)
    <3>1. k + 1 \in 1 .. Len(p.chunks) /\ Len(p.chunks[k + 1].constants) >= 1
      BY <1>3, <1>4, <1>6, ProgramTyped
    <3> QED BY <3>1 DEF HasConstants
  <2> QED BY <1>12, <1>15, <2>1, RefusedOnCourse
<1>16. CASE ~ Short(5) /\ Took(5)
  <2>1. Ahead(FileOf[p], pos', r) /\ flags' = {}
    BY <1>1, <1>12, <1>16, FlagsOnCourse
  <2>2. Constant = LoadedConst(chunk.constants[j + 1])
    <3>1. Byte(1) = h[1] /\ \A i \in 1 .. 4 : Byte(1 + i) = h[i + 1]
      <4>1. \A i \in 1 .. 5 : Byte(i) = h[i]
        BY <1>12, <1>16
      <4>2. 1 \in 1 .. 5 /\ \A i \in 1 .. 4 : i + 1 \in 1 .. 5 /\ 1 + i = i + 1
        OBVIOUS
      <4> QED BY <4>1, <4>2
    <3>2. Byte(1) = Tags[konst.tag] /\ \A i \in 1 .. 4 : Byte(1 + i) = konst.bytes[i]
      BY <1>9, <3>1
    <3>3. Constant = LoadedConst(konst)
      BY <1>7, <3>2, ConstantRead
    <3> QED BY <1>7, <3>3
  <2>3. PICK more : more = [temp EXCEPT !.constants = Append(@, Constant)] /\ more = ConstsRead(chunk, j + 1)
    <3>1. [temp EXCEPT !.constants = Append(temp.constants, Constant)] = ConstsRead(chunk, j + 1)
      BY <1>4, <1>5, <2>2, ConstsReadGrows
    <3> QED BY <3>1
  <2>4. CASE rc = 1
    <3>1. j + 1 = n
      BY <1>5, <2>4
    <3>2. prgm' = [prgm EXCEPT !.chunks = Append(prgm.chunks, more)] /\ state' = "chunk"
      BY <1>13, <1>16, <2>3, <2>4 DEF eat_konst
    <3>3. more = LoadedChunk(p.chunks[k + 1])
      BY <1>3, <1>4, <2>3, <3>1, ChunkAllRead
    <3>4. prgm' = ChunksRead(p, k + 1)
      BY <1>5, <3>2, <3>3, ChunksReadGrows
    <3>5. r = ChunksAhead(p, k + 1)
      BY <1>3, <1>4, <1>10, <3>1, ConstsAheadOf
    <3>6. k + 1 \in 0 .. Len(p.chunks)
      BY ProgramTyped
    <3>7. InChunks(p)'
      BY <2>1, <3>4, <3>5, <3>6 DEF InChunks
    <3>8. flags' = {} /\ state' = "chunk" /\ InChunks(p)'
      BY <2>1, <3>2, <3>7
    <3> QED BY <3>8, Arrived, Zenon
  <2>5. CASE rc # 1
    <3>1. temp' = ConstsRead(chunk, j + 1) /\ rc' = rc - 1 /\ UNCHANGED <<state, prgm>>
      <4>1. temp' = more /\ rc' = rc - 1 /\ UNCHANGED <<state, prgm>>
        BY <1>13, <1>16, <2>3, <2>5 DEF eat_konst
      <4> QED BY <2>3, <4>1
    <3>2. j + 1 \in 0 .. n - 1 /\ rc' = n - (j + 1)
      BY <1>5, <2>5, <3>1
    <3>3. InConsts(p)'
      BY <1>3, <1>4, <1>5, <1>10, <2>1, <3>1, <3>2 DEF InConsts
    <3>4. flags' = {} /\ state' = "konst" /\ InConsts(p)'
      BY <1>1, <2>1, <3>1, <3>3
    <3> QED BY <3>4, Arrived, Zenon
  <2> QED BY <2>4, <2>5
<1> QED BY <1>14, <1>15, <1>16 DEF eat_konst

\* A file is one item behind another.
LEMMA FileAhead ==
  ASSUME NEW p \in Programs
  PROVE  Ahead(FileOf[p], 0, Prefix \o (Number(p.entry_id, 4) \o StringsAhead(p, 0)))
<1>1. PICK a \in Seq(Bytes) : a = Prefix
  <2>1. Prefix \in Seq(Bytes)
    BY DEF Prefix, Bytes
  <2> QED BY <2>1, Zenon
<1>2. 0 \in Shorts /\ p.entry_id \in Shorts
  BY ProgramTyped, ShortFacts
<1>3. Number(p.entry_id, 4) \in Seq(Bytes) /\ Number(0, 4) \in Seq(Bytes) /\ Number(0, 8) \in Seq(Bytes)
  <2>1. \A n \in Shorts : Number(n, 4) \in Seq(Bytes) /\ Number(n, 8) \in Seq(Bytes)
    BY NumberTyped
  <2> QED BY <1>2, <2>1, Zenon
<1>4. PICK b \in Seq(Bytes) : b = Number(p.entry_id, 4)
  BY <1>3, Zenon
<1>5. PICK c \in Seq(Bytes) : c = JoinAll(StringParts(p))
  BY ProgramTyped
<1>6. PICK d \in Seq(Bytes) : d = Number(0, 4)
  BY <1>3, Zenon
<1>7. PICK e \in Seq(Bytes) : e = JoinAll(ChunkParts(p))
  BY ProgramTyped
<1>8. PICK f \in Seq(Bytes) : f = Number(0, 8)
  BY <1>3, Zenon
<1>9. FileOf[p] = ((((a \o b) \o c) \o d) \o e) \o f
  BY <1>1, <1>4, <1>5, <1>6, <1>7, <1>8, Zenon DEF FileOf, Written
<1>10. ChunksAhead(p, 0) = e \o f
  <2>1. Len(p.chunks) - 0 = Len(ChunkParts(p))
    BY ProgramTyped
  <2> QED BY <1>7, <1>8, <2>1, Zenon DEF ChunksAhead, JoinAll
<1>11. StringsAhead(p, 0) = c \o (d \o (e \o f))
  <2>1. Len(p.strings) - 0 = Len(StringParts(p))
    BY ProgramTyped
  <2> QED BY <1>5, <1>6, <1>10, <2>1, Zenon DEF StringsAhead, JoinAll
<1>12. FileOf[p] = a \o (b \o (c \o (d \o (e \o f))))
  <2>1. (((a \o b) \o c) \o d) \o e = a \o (b \o (c \o (d \o e)))
    <3>1. \A t, u, v, w \in Seq(Bytes) : (((a \o t) \o u) \o v) \o w = a \o (t \o (u \o (v \o w)))
      BY FiveAssociate, Zenon
    <3>2. \A v, w \in Seq(Bytes) : (((a \o b) \o c) \o v) \o w = a \o (b \o (c \o (v \o w)))
      BY <3>1, Zenon
    <3> QED BY <3>2, Zenon
  <2>2. PICK de \in Seq(Bytes) : de = d \o e
    BY BytesConcat, Zenon
  <2>3. PICK cde \in Seq(Bytes) : cde = c \o de
    BY BytesConcat, Zenon
  <2>4. PICK bcde \in Seq(Bytes) : bcde = b \o cde
    BY BytesConcat, Zenon
  <2>5. \A s \in Seq(Bytes) : \A t, u \in Seq(Bytes) : (s \o t) \o u = s \o (t \o u)
    BY BytesAssociate, Zenon
  <2>6. (a \o bcde) \o f = a \o (bcde \o f)
    <3>1. \A t, u \in Seq(Bytes) : (a \o t) \o u = a \o (t \o u)
      BY <2>5, Zenon
    <3>2. \A u \in Seq(Bytes) : (a \o bcde) \o u = a \o (bcde \o u)
      BY <3>1, Zenon
    <3> QED BY <3>2, Zenon
  <2>7. (b \o cde) \o f = b \o (cde \o f)
    <3>1. \A t, u \in Seq(Bytes) : (b \o t) \o u = b \o (t \o u)
      BY <2>5, Zenon
    <3>2. \A u \in Seq(Bytes) : (b \o cde) \o u = b \o (cde \o u)
      BY <3>1, Zenon
    <3> QED BY <3>2, Zenon
  <2>8. (c \o de) \o f = c \o (de \o f)
    <3>1. \A t, u \in Seq(Bytes) : (c \o t) \o u = c \o (t \o u)
      BY <2>5, Zenon
    <3>2. \A u \in Seq(Bytes) : (c \o de) \o u = c \o (de \o u)
      BY <3>1, Zenon
    <3> QED BY <3>2, Zenon
  <2>9. (d \o e) \o f = d \o (e \o f)
    <3>1. \A t, u \in Seq(Bytes) : (d \o t) \o u = d \o (t \o u)
      BY <2>5, Zenon
    <3>2. \A u \in Seq(Bytes) : (d \o e) \o u = d \o (e \o u)
      BY <3>1, Zenon
    <3> QED BY <3>2, Zenon
  <2> QED BY <1>9, <2>1, <2>2, <2>3, <2>4, <2>6, <2>7, <2>8, <2>9, Zenon
<1>13. PICK w \in Seq(Bytes) : w = FileOf[p]
  BY ProgramTyped DEF FileOf
<1>14. Ahead(w, 0, w)
  BY DEF Ahead
<1> QED BY <1>1, <1>4, <1>11, <1>12, <1>13, <1>14, Zenon

\* Every program whose file this is, or is a part of, is read as it was written.
AllOnCourse == \A p \in Programs : Starts(data, FileOf[p]) => OnCourse(p)

\* At first no byte was read,
LEMMA CourseStarts == LoaderInit => AllOnCourse
<1> SUFFICES ASSUME LoaderInit, NEW p \in Programs PROVE OnCourse(p)
  BY DEF AllOnCourse
<1>1. pos = 0 /\ state = "prefix" /\ flags = {}
  BY DEF LoaderInit
<1>2. Ahead(FileOf[p], pos, Prefix \o (Number(p.entry_id, 4) \o StringsAhead(p, 0)))
  BY <1>1, FileAhead
<1> QED BY <1>1, <1>2 DEF OnCourse

\* and each call reads the bytes that are next.
LEMMA CourseGoesOn == LoaderIInv /\ AllOnCourse /\ [tbl_dispatch]_loaderVars => AllOnCourse'
<1> SUFFICES ASSUME LoaderIInv, AllOnCourse, [tbl_dispatch]_loaderVars,
                    NEW p \in Programs, Starts(data, FileOf[p])'
             PROVE  OnCourse(p)'
  BY DEF AllOnCourse
<1>1. CASE tbl_dispatch
  <2>1. data' = data
    BY <1>1 DEF tbl_dispatch, eat_prefix, eat_meta, eat_str, eat_char, eat_chunk, eat_instruction,
                eat_konst_count, eat_konst, CutShort, Refuse, Took
  <2>2. Starts(data, FileOf[p]) /\ OnCourse(p)
    BY <2>1 DEF AllOnCourse
  <2> QED BY <1>1, <2>2, PrefixOnCourse, MetaOnCourse, StrOnCourse, CharOnCourse, ChunkOnCourse,
             InstructionOnCourse, KonstCountOnCourse, KonstOnCourse DEF tbl_dispatch
<1>2. CASE UNCHANGED loaderVars
  <2>1. UNCHANGED <<data, pos, state, flags, prgm, temp, rc>>
    BY <1>2 DEF loaderVars
  <2>2. OnCourse(p)
    BY <2>1 DEF AllOnCourse
  <2> QED BY <2>1, <2>2 DEF OnCourse, InStrings, InChars, InChunks, InCode, InConsts
<1> QED BY <1>1, <1>2

\* What the reader makes of a program is the program that was written, but for the
\* constants that it cannot keep.
LEMMA LoadedIsSame ==
  ASSUME NEW p \in Programs, prgm = AsLoaded(p)
  PROVE  SameProgram(prgm, p)
<1>1. p.chunks \in Seq(Chunks) /\ Len(p.chunks) \in Nat
  BY ProgramTyped
<1>2. PICK f : f = [n \in 1 .. Len(p.chunks) |-> LoadedChunk(p.chunks[n])]
  OBVIOUS
<1>3. prgm.chunks = f
  BY <1>1, <1>2 DEF AsLoaded
<1>4. prgm.entry_id = p.entry_id /\ prgm.strings = p.strings /\ Len(prgm.chunks) = Len(p.chunks)
  <2>1. Len(f) = Len(p.chunks)
    BY <1>1, <1>2
  <2> QED BY <1>3, <2>1 DEF AsLoaded
<1>5. ASSUME NEW n \in 1 .. Len(p.chunks)
      PROVE  SameChunk(prgm.chunks[n], p.chunks[n])
  <2>1. PICK original \in Chunks : original = p.chunks[n]
    BY <1>1
  <2>2. PICK g : g = [i \in DOMAIN original.constants |-> LoadedConst(original.constants[i])]
    OBVIOUS
  <2>3. original.constants \in Seq(Constants) /\ DOMAIN original.constants = 1 .. Len(original.constants)
    BY DEF Chunks
  <2>4. LoadedChunk(original).code = original.code /\ LoadedChunk(original).constants = g
    BY <2>2 DEF LoadedChunk
  <2>5. prgm.chunks[n] = LoadedChunk(original)
    BY <1>2, <1>3, <2>1
  <2>6. Len(g) = Len(original.constants)
    BY <2>2, <2>3
  <2>7. ASSUME NEW m \in 1 .. Len(original.constants)
        PROVE  SameConst(g[m], original.constants[m])
    <3>1. PICK konst \in Constants : konst = original.constants[m]
      BY <2>3
    <3>2. g[m] = LoadedConst(konst)
      BY <2>2, <2>3, <3>1
    <3>3. CASE konst.tag = "real"
      BY <3>1, <3>3 DEF SameConst, Lossy
    <3>4. CASE konst.tag = "strid" /\ konst.means \notin Shorts
      BY <3>1, <3>4 DEF SameConst, Lossy
    <3>5. CASE konst.tag = "strid" /\ konst.means \in Shorts
      <4>1. konst.means \in Int
        BY DEF Constants
      <4>2. StrId(konst.means) = konst.means
        BY <3>5, <4>1, StrIdShort
      <4> QED BY <3>1, <3>2, <3>5, <4>2 DEF SameConst, LoadedConst
    <3>6. CASE konst.tag \notin {"real", "strid"}
      BY <3>1, <3>2, <3>6 DEF SameConst, LoadedConst
    <3> QED BY <3>3, <3>4, <3>5, <3>6
  <2> QED BY <2>1, <2>4, <2>5, <2>6, <2>7 DEF SameChunk
<1> QED BY <1>4, <1>5 DEF SameProgram

\* A file that was written as it should be is accepted, and loaded as the
\* program that was written, but for the values of reals and of string ids above
\* 65535 (tbl_load_from).
THEOREM WrittenFilesLoad == LoaderSpec => []LoadsAsWritten
<1>1. AllOnCourse => LoadsAsWritten
  <2> SUFFICES ASSUME AllOnCourse, Ended, NEW p \in Programs, data = FileOf[p]
               PROVE  state = "end" /\ flags = {} /\ SameProgram(prgm, p)
    BY DEF LoadsAsWritten
  <2>1. Starts(data, FileOf[p])
    <3>1. FileOf[p] \in Seq(Bytes)
      BY ProgramTyped DEF FileOf
    <3> QED BY <3>1 DEF Starts
  <2>2. OnCourse(p)
    BY <2>1 DEF AllOnCourse
  <2>3. state = "end" /\ flags = {} /\ prgm = AsLoaded(p)
    BY <2>2 DEF OnCourse, Ended
  <2> QED BY <2>3, LoadedIsSame
<1>2. LoaderInit => LoaderIInv /\ AllOnCourse
  BY LoaderStarts, CourseStarts
<1>3. (LoaderIInv /\ AllOnCourse) /\ [tbl_dispatch]_loaderVars => (LoaderIInv /\ AllOnCourse)'
  BY LoaderGoesOn, CourseGoesOn
<1> QED BY <1>1, <1>2, <1>3, PTL DEF LoaderSpec

\* A file that was cut short is refused, wherever it was cut, and a flag says so
\* unless there is a constant that the cut may go through (tbl_load_from).
THEOREM CutFilesAreRefused == LoaderSpec => []RefusesCutFiles
<1>1. LoaderIInv /\ AllOnCourse => RefusesCutFiles
  <2> SUFFICES ASSUME LoaderIInv, AllOnCourse, Ended, NEW p \in Programs, IsStrictPrefix(data, FileOf[p])
               PROVE  /\ state = "err" /\ ~ tbasic_validate_prgm
                      /\ flags = {} => \E chunk \in ToSet(p.chunks) : chunk.constants # <<>>
    BY DEF RefusesCutFiles
  <2>1. PICK w \in Seq(Bytes) : w = FileOf[p]
    BY ProgramTyped DEF FileOf
  <2>2. data \in Seq(Bytes) /\ pos \in 0 .. Len(data)
    BY DEF LoaderIInv, LoaderInv, LoaderTypeOK, Reading
  <2>3. IsStrictPrefix(data, w)
    BY <2>1
  <2>4. Len(data) < Len(w) /\ \A i \in 1 .. Len(data) : data[i] = w[i]
    BY <2>2, <2>3 DEF IsStrictPrefix, IsPrefix
  <2>5. Starts(data, FileOf[p])
    BY <2>1, <2>2, <2>4 DEF Starts
  <2>6. OnCourse(p)
    BY <2>5 DEF AllOnCourse
  <2>7. state # "end"
    <3>1. state = "end" => pos = Len(w)
      BY <2>1, <2>6 DEF OnCourse
    <3> QED BY <2>2, <2>4, <3>1
  <2>8. state = "err" /\ ~ tbasic_validate_prgm
    BY <2>7 DEF Ended, tbasic_validate_prgm
  <2>9. ASSUME flags = {}
        PROVE  \E chunk \in ToSet(p.chunks) : chunk.constants # <<>>
    <3>1. HasConstants(p)
      BY <2>6, <2>8, <2>9 DEF OnCourse
    <3>2. PICK k \in 1 .. Len(p.chunks) : Len(p.chunks[k].constants) >= 1
      BY <3>1 DEF HasConstants
    <3>3. p.chunks[k] \in ToSet(p.chunks)
      BY ProgramTyped DEF ToSet
    <3>4. p.chunks[k].constants # <<>>
      BY <3>2
    <3> QED BY <3>3, <3>4
  <2> QED BY <2>8, <2>9
<1>2. LoaderInit => LoaderIInv /\ AllOnCourse
  BY LoaderStarts, CourseStarts
<1>3. (LoaderIInv /\ AllOnCourse) /\ [tbl_dispatch]_loaderVars => (LoaderIInv /\ AllOnCourse)'
  BY LoaderGoesOn, CourseGoesOn
<1> QED BY <1>1, <1>2, <1>3, PTL DEF LoaderSpec

(***************************************************************************)
(* The lexer, over every source.                                           *)
(***************************************************************************)
\* The least of some numbers.
LEMMA LeastOf ==
  ASSUME NEW S \in SUBSET Nat, S # {}
  PROVE  Min(S) \in S /\ \A n \in S : Min(S) <= n
<1>1. \E x \in S : \A y \in S : x <= y
  BY LeastNumber
<1> QED BY <1>1 DEF Min

\* The greatest of some numbers.
LEMMA GreatestOf ==
  ASSUME NEW k \in Nat, NEW S \in SUBSET (0 .. k), S # {}
  PROVE  Max(S) \in S /\ Max(S) \in Nat /\ \A n \in S : Max(S) >= n
<1>0. \A y \in S : y \in Nat /\ y <= k
  <2> TAKE y \in S
  <2>1. y \in 0 .. k
    OBVIOUS
  <2> QED BY <2>1
<1>1. PICK T : T = {k - x : x \in S}
  OBVIOUS
<1>2. T \in SUBSET Nat /\ T # {}
  <2>1. \A y \in S : k - y \in Nat
    BY <1>0
  <2> QED BY <1>1, <2>1
<1>3. PICK t \in T : \A y \in T : t <= y
  BY <1>2, LeastNumber
<1>4. PICK x \in S : t = k - x
  BY <1>1, <1>3
<1>5. \A y \in S : x >= y
  <2> TAKE y \in S
  <2>1. k - x <= k - y
    BY <1>1, <1>3, <1>4
  <2>2. x \in Nat /\ y \in Nat
    BY <1>0
  <2> QED BY <2>1, <2>2
<1>6. Max(S) \in S /\ \A n \in S : Max(S) >= n
  BY <1>5 DEF Max
<1> QED BY <1>0, <1>6

\* A number that none is above is the greatest.
LEMMA GreatestIs ==
  ASSUME NEW k \in Nat, NEW S \in SUBSET (0 .. k), NEW x \in S, \A y \in S : x >= y
  PROVE  Max(S) = x
<1>1. Max(S) \in S /\ Max(S) \in Nat /\ \A n \in S : Max(S) >= n
  BY GreatestOf
<1>2. x \in Nat
  <2>1. x \in 0 .. k
    OBVIOUS
  <2> QED BY <2>1
<1>3. Max(S) >= x /\ x >= Max(S)
  BY <1>1
<1> QED BY <1>1, <1>2, <1>3

\* The line and the column of a position.
Newlines(n) == {k \in 0 .. n - 1 : Char(k) = Newline}
LineAt(n) == 1 + Cardinality(Newlines(n))
ColAt(n) == n - (IF Newlines(n) = {} THEN -1 ELSE Max(Newlines(n)))

TokenTags == {"single", "spaces", "comment", "unknown", "string", "escaped_str", "integer", "real",
              "integer_hex", "integer_bin", "special", "identifier"}
Tokens == [begin : Nat, length : Int, line : Int, col : Int, tag : TokenTags]

\* What the conversion of a string relies on.
TextSound(token) ==
  Closed(token) =>
    \A n \in Positions(token) : Char(n) # Quote /\ (Char(n) = Backslash => lexer_lex_escape_seq(n))

\* Where the lexer is, and where each token.
LexerKnows ==
  /\ source \in Seq(Codes)
  /\ lexer \in [pos : 0 .. Len(source), line : Int, col : Int]
  /\ lexer.line = LineAt(lexer.pos) /\ lexer.col = ColAt(lexer.pos)

SoundTokens ==
  {token \in Tokens :
     /\ Located(token) /\ token.begin <= lexer.pos
     /\ token.tag # "unknown" => End(token) <= lexer.pos
     /\ token.tag \in {"string", "escaped_str"} => TextSound(token)}

LexIInv ==
  /\ LexerKnows /\ SourceCovered /\ ConversionsStayInside
  /\ tokens \in Seq(SoundTokens) /\ (tokens = <<>> => values = <<>>)

\* The line and the column of a position are numbers.
LEMMA NewlinesFinite ==
  ASSUME NEW n \in Nat
  PROVE  /\ Newlines(n) \in SUBSET (0 .. n) /\ IsFiniteSet(Newlines(n))
         /\ Cardinality(Newlines(n)) \in Nat /\ LineAt(n) \in Int /\ ColAt(n) \in Int
<1>1. Newlines(n) \in SUBSET (0 .. n)
  BY DEF Newlines
<1>2. IsFiniteSet(0 .. n)
  BY FS_Interval
<1>3. IsFiniteSet(Newlines(n))
  BY <1>1, <1>2, FS_Subset
<1>4. Cardinality(Newlines(n)) \in Nat
  BY <1>3, FS_CardinalityType
<1>5. Newlines(n) # {} => Max(Newlines(n)) \in Nat
  BY <1>1, GreatestOf
<1>6. ColAt(n) \in Int
  <2>1. CASE Newlines(n) = {}
    BY <2>1 DEF ColAt
  <2>2. CASE Newlines(n) # {}
    BY <1>5, <2>2 DEF ColAt
  <2> QED BY <2>1, <2>2
<1> QED BY <1>1, <1>3, <1>4, <1>6 DEF LineAt

\* Consuming keeps the line and the column up (lexer_consume).
LEMMA ConsumedAt ==
  ASSUME LexerKnows, NEW to \in lexer.pos .. Len(source)
  PROVE  /\ Consumed(to) \in [pos : 0 .. Len(source), line : Int, col : Int]
         /\ Consumed(to).pos = to
         /\ Consumed(to).line = LineAt(to) /\ Consumed(to).col = ColAt(to)
<1>1. PICK pos0 \in Nat : pos0 = lexer.pos
  BY DEF LexerKnows
<1>2. to \in Nat /\ pos0 <= to /\ to \in 0 .. Len(source)
  <2>1. Len(source) \in Nat
    BY DEF LexerKnows
  <2> QED BY <1>1, <2>1
<1>3. PICK new : new = {n \in lexer.pos .. to - 1 : Char(n) = Newline}
  OBVIOUS
<1>4. Newlines(to) = Newlines(pos0) \cup new /\ Newlines(pos0) \cap new = {}
  BY <1>1, <1>2, <1>3 DEF Newlines
<1>5. new \in SUBSET (0 .. to) /\ \A n \in new : n >= pos0
  BY <1>1, <1>2, <1>3
<1>6. IsFiniteSet(new) /\ Cardinality(new) \in Nat
  <2>1. IsFiniteSet(0 .. to)
    BY <1>2, FS_Interval
  <2>2. IsFiniteSet(new)
    BY <1>5, <2>1, FS_Subset
  <2> QED BY <2>2, FS_CardinalityType
<1>7. Cardinality(Newlines(to)) = Cardinality(Newlines(pos0)) + Cardinality(new)
  <2>1. IsFiniteSet(Newlines(pos0)) /\ Cardinality(Newlines(pos0)) \in Nat
    BY NewlinesFinite
  <2>2. Cardinality(Newlines(pos0) \cup new)
          = Cardinality(Newlines(pos0)) + Cardinality(new) - Cardinality(Newlines(pos0) \cap new)
    BY <1>6, <2>1, FS_Union
  <2>3. Cardinality(Newlines(pos0) \cap new) = 0
    BY <1>4, FS_EmptySet
  <2> QED BY <1>4, <1>6, <2>1, <2>2, <2>3
<1>8. PICK c : c = Consumed(to)
  OBVIOUS
<1>9. /\ c = [pos |-> to, line |-> lexer.line + Cardinality(new),
              col |-> IF new = {} THEN lexer.col + to - lexer.pos ELSE to - Max(new)]
  BY <1>3, <1>8 DEF Consumed
<1>10. c.pos = to
  BY <1>9
<1>11. c.line = LineAt(to)
  <2>1. Cardinality(Newlines(pos0)) \in Nat
    BY NewlinesFinite
  <2>2. lexer.line = 1 + Cardinality(Newlines(pos0))
    BY <1>1 DEF LexerKnows, LineAt
  <2> QED BY <1>6, <1>7, <1>9, <2>1, <2>2 DEF LineAt
<1>12. c.col = ColAt(to)
  <2>1. CASE new = {}
    <3>1. Newlines(to) = Newlines(pos0)
      BY <1>4, <2>1
    <3>2. PICK x : x = IF Newlines(pos0) = {} THEN -1 ELSE Max(Newlines(pos0))
      OBVIOUS
    <3>3. x \in Int
      <4>1. Newlines(pos0) \in SUBSET (0 .. pos0)
        BY NewlinesFinite
      <4>2. Newlines(pos0) # {} => Max(Newlines(pos0)) \in Nat
        BY <4>1, GreatestOf
      <4> QED BY <3>2, <4>2
    <3>4. lexer.col = pos0 - x
      BY <1>1, <3>2 DEF LexerKnows, ColAt
    <3>5. ColAt(to) = to - x
      BY <3>1, <3>2 DEF ColAt
    <3>6. c.col = lexer.col + to - pos0
      BY <1>1, <1>9, <2>1
    <3> QED BY <1>2, <3>3, <3>4, <3>5, <3>6
  <2>2. CASE new # {}
    <3>1. Max(new) \in new /\ Max(new) \in Nat /\ \A n \in new : Max(new) >= n
      BY <1>2, <1>5, <2>2, GreatestOf
    <3>2. \A n \in Newlines(to) : Max(new) >= n
      <4> TAKE n \in Newlines(to)
      <4>1. CASE n \in new
        BY <3>1, <4>1
      <4>2. CASE n \in Newlines(pos0)
        <5>1. n \in Nat /\ n < pos0
          BY <4>2 DEF Newlines
        <5>2. Max(new) >= pos0 /\ Max(new) \in Nat
          BY <1>5, <3>1
        <5> QED BY <5>1, <5>2
      <4> QED BY <1>4, <4>1, <4>2
    <3>3. Newlines(to) \in SUBSET (0 .. to) /\ Max(new) \in Newlines(to)
      BY <1>2, <1>4, <3>1, NewlinesFinite
    <3>4. Max(Newlines(to)) = Max(new)
      BY <1>2, <3>2, <3>3, GreatestIs
    <3> QED BY <1>9, <2>2, <3>3, <3>4 DEF ColAt
  <2> QED BY <2>1, <2>2
<1>13. c \in [pos : 0 .. Len(source), line : Int, col : Int]
  <2>1. c.line \in Int /\ c.col \in Int
    BY <1>2, <1>11, <1>12, NewlinesFinite
  <2> QED BY <1>2, <1>9, <2>1
<1> QED BY <1>8, <1>10, <1>11, <1>12, <1>13

\* A token is returned, whichever function found it.
LEMMA ReturnKeeps ==
  ASSUME LexIInv, lex_status = "open", ~ lexer_done,
         NEW b \in [pos : 0 .. Len(source), line : Int, col : Int],
         NEW length \in Int, NEW tag \in TokenTags, NEW to \in lexer.pos + 1 .. Len(source),
         b.line = LineAt(b.pos), b.col = ColAt(b.pos), b.pos \in lexer.pos .. to,
         tag # "unknown" => b.pos + length <= to,
         \A n \in lexer.pos .. to - 1 :
           \/ n \in b.pos .. b.pos + length - 1
           \/ Char(n) \in {Quote, Backquote, Hash}
           \/ n > 0 /\ Char(n - 1) = Hash /\ Char(n) \in DOMAIN Based
           \/ n = Len(source) - 1 /\ tag \in {"unknown", "string", "escaped_str"},
         tag \in {"string", "escaped_str"} =>
           TextSound([begin |-> b.pos, length |-> length, line |-> b.line, col |-> b.col, tag |-> tag]),
         Return(b, length, tag, to)
  PROVE  LexIInv'
<1>1. PICK token \in Tokens :
        token = [begin |-> b.pos, length |-> length, line |-> b.line, col |-> b.col, tag |-> tag]
  <2>1. b.pos \in Nat /\ b.line \in Int /\ b.col \in Int
    OBVIOUS
  <2> QED BY <2>1 DEF Tokens
<1>2. /\ token.begin = b.pos /\ token.length = length /\ token.line = b.line /\ token.col = b.col
      /\ token.tag = tag
  BY <1>1
<1>3. /\ tokens' = Append(tokens, token) /\ lexer' = Consumed(to)
      /\ source' = source /\ lex_status' = "open"
  BY <1>1 DEF Return
<1>4. PICK at \in Nat : at = lexer.pos /\ at < Len(source) /\ Len(source) \in Nat
  BY DEF LexIInv, LexerKnows, lexer_done
<1>5. to \in at + 1 .. Len(source) /\ b.pos \in at .. to /\ to \in Nat /\ b.pos \in Nat
  BY <1>4
<1>6. lexer' \in [pos : 0 .. Len(source), line : Int, col : Int]
      /\ lexer'.pos = to /\ lexer'.line = LineAt(to) /\ lexer'.col = ColAt(to)
  <2>1. to \in lexer.pos .. Len(source)
    BY <1>4, <1>5
  <2> QED BY <1>3, <2>1, ConsumedAt DEF LexIInv
<1>7. LexerKnows'
  <2>1. \A n : LineAt(n)' = LineAt(n) /\ ColAt(n)' = ColAt(n)
    BY <1>3 DEF LineAt, ColAt, Newlines, Char
  <2>2. LineAt(lexer.pos)' = LineAt(to) /\ ColAt(lexer.pos)' = ColAt(to)
    BY <1>3, <1>6 DEF LineAt, ColAt, Newlines, Char
  <2> QED BY <1>3, <1>6, <2>2 DEF LexIInv, LexerKnows
<1>8. PICK S : S = SoundTokens
  OBVIOUS
<1>9. PICK T : T = SoundTokens'
  OBVIOUS
<1>10. \A t : /\ Located(t)' <=> Located(t)
              /\ TextSound(t)' <=> TextSound(t)
  BY <1>3 DEF Located, TextSound, Closed, Positions, End, Char, lexer_lex_escape_seq
<1>11. token \in T
  <2>1. Located(token)
    BY <1>2 DEF Located, LineAt, ColAt, Newlines
  <2>2. token.begin <= to /\ (tag # "unknown" => End(token) <= to)
    BY <1>2, <1>5 DEF End
  <2>3. tag \in {"string", "escaped_str"} => TextSound(token)
    BY <1>1
  <2> QED BY <1>2, <1>6, <1>9, <1>10, <2>1, <2>2, <2>3 DEF SoundTokens, End
<1>12. ASSUME NEW t \in S
       PROVE  /\ t \in T /\ t \in Tokens /\ t.begin <= at /\ (t.tag # "unknown" => End(t) <= at)
              /\ t.begin \in Int /\ t.length \in Int /\ End(t) \in Int
  <2>1. /\ t \in Tokens /\ Located(t) /\ t.begin <= at /\ (t.tag # "unknown" => End(t) <= at)
        /\ (t.tag \in {"string", "escaped_str"} => TextSound(t))
    BY <1>4, <1>8 DEF SoundTokens
  <2>2. t.begin \in Int /\ t.length \in Int
    BY <2>1 DEF Tokens
  <2>3. End(t) \in Int
    BY <2>2 DEF End
  <2>4. t.begin <= to /\ (t.tag # "unknown" => End(t) <= to)
    BY <1>5, <2>1, <2>2, <2>3
  <2> QED BY <1>6, <1>9, <1>10, <2>1, <2>2, <2>3, <2>4 DEF SoundTokens, End
<1>13. PICK m \in Nat : m = Len(tokens) /\ tokens \in Seq(S)
  BY <1>8 DEF LexIInv
<1>14. PICK R : R = S \cup {token}
  OBVIOUS
<1>15. /\ tokens' \in Seq(R) /\ Len(tokens') = m + 1
       /\ \A i \in 1 .. m : tokens'[i] = tokens[i] /\ tokens[i] \in S
       /\ tokens'[m + 1] = token
  <2>1. tokens \in Seq(R) /\ token \in R
    BY <1>13, <1>14
  <2>2. /\ Append(tokens, token) \in Seq(R) /\ Len(Append(tokens, token)) = m + 1
        /\ \A i \in 1 .. m : Append(tokens, token)[i] = tokens[i]
        /\ Append(tokens, token)[m + 1] = token
    BY <1>13, <2>1, AppendProperties
  <2> QED BY <1>3, <1>13, <2>2
<1>16. tokens' \in Seq(T)
  <2>1. R \subseteq T
    BY <1>11, <1>12, <1>14
  <2> QED BY <1>15, <2>1
<1>17. ConversionsStayInside'
  BY <1>3 DEF ConversionsStayInside
<1>18. DOMAIN tokens = 1 .. m /\ DOMAIN tokens' = 1 .. m + 1
  BY <1>13, <1>15
<1>19. \A i \in DOMAIN tokens' : Located(tokens[i])'
  <2> TAKE i \in DOMAIN tokens'
  <2>1. PICK t \in T : t = tokens'[i]
    BY <1>16
  <2>2. Located(t)'
    BY <1>9, <2>1 DEF SoundTokens
  <2> QED BY <2>1, <2>2 DEF Located
<1>20. ASSUME NEW i \in DOMAIN tokens', NEW j \in DOMAIN tokens', i < j, tokens'[i].tag # "unknown"
       PROVE  End(tokens[i])' <= tokens'[j].begin
  <2>1. i \in 1 .. m /\ tokens'[i] = tokens[i] /\ tokens[i] \in S
    BY <1>15, <1>18, <1>20
  <2>2. PICK t \in S : t = tokens[i] /\ t = tokens'[i]
    BY <2>1
  <2>3. End(tokens[i])' = End(t)
    BY <2>2 DEF End
  <2>4. CASE j = m + 1
    <3>1. tokens'[j].begin = b.pos
      BY <1>2, <1>15, <2>4
    <3>2. End(t) <= at /\ End(t) \in Int
      BY <1>12, <1>20, <2>2
    <3> QED BY <1>5, <2>3, <3>1, <3>2
  <2>5. CASE j # m + 1
    <3>1. j \in 1 .. m /\ tokens'[j] = tokens[j]
      BY <1>15, <1>18, <2>5
    <3>2. End(tokens[i]) <= tokens[j].begin
      BY <1>18, <1>20, <2>1, <3>1 DEF LexIInv, SourceCovered
    <3>3. End(tokens[i]) = End(t)
      BY <2>2
    <3> QED BY <2>3, <3>1, <3>2, <3>3
  <2> QED BY <2>4, <2>5
<1>21. ASSUME NEW n \in 0 .. to - 1
       PROVE  LeftOut(n)' \/ \E i \in DOMAIN tokens' : n \in Positions(tokens[i])'
  <2>1. CASE n < at
    <3>1. LeftOut(n) \/ \E i \in DOMAIN tokens : n \in Positions(tokens[i])
      BY <1>4, <2>1 DEF LexIInv, SourceCovered
    <3>2. n # Len(source) - 1
      BY <1>4, <2>1
    <3>3. LeftOut(n) => LeftOut(n)'
      BY <1>3, <3>2 DEF LeftOut, Char
    <3>4. ASSUME NEW i \in DOMAIN tokens, n \in Positions(tokens[i])
          PROVE  i \in DOMAIN tokens' /\ n \in Positions(tokens[i])'
      <4>1. i \in 1 .. m /\ i \in 1 .. m + 1
        BY <1>18
      <4>2. tokens'[i] = tokens[i]
        BY <1>15, <4>1
      <4> QED BY <1>18, <3>4, <4>1, <4>2 DEF Positions
    <3> QED BY <3>1, <3>3, <3>4
  <2>2. CASE n >= at
    <3>1. n \in lexer.pos .. to - 1
      BY <1>4, <1>5, <2>2
    <3>2. CASE n \in b.pos .. b.pos + length - 1
      <4>1. m + 1 \in DOMAIN tokens' /\ tokens'[m + 1] = token
        BY <1>15, <1>18
      <4>2. n \in Positions(tokens[m + 1])'
        BY <1>2, <3>2, <4>1 DEF Positions
      <4> QED BY <4>1, <4>2
    <3>3. CASE n \notin b.pos .. b.pos + length - 1
      <4>1. \/ Char(n) \in {Quote, Backquote, Hash}
            \/ n > 0 /\ Char(n - 1) = Hash /\ Char(n) \in DOMAIN Based
            \/ n = Len(source) - 1 /\ tag \in {"unknown", "string", "escaped_str"}
        BY <3>1, <3>3
      <4>2. Last(tokens)' = token
        BY <1>15 DEF Last
      <4>3. Len(source)' = Len(source) /\ \A k : Char(k)' = Char(k)
        BY <1>3 DEF Char
      <4> QED BY <1>2, <4>1, <4>2, <4>3 DEF LeftOut
    <3> QED BY <3>2, <3>3
  <2> QED BY <1>4, <2>1, <2>2
<1>22. SourceCovered'
  BY <1>6, <1>19, <1>20, <1>21 DEF SourceCovered
<1>23. tokens' # <<>>
  BY <1>15
<1> QED BY <1>7, <1>9, <1>16, <1>17, <1>22, <1>23 DEF LexIInv

\* A run of a class stops at the first character that is not in it.
LEMMA RunStops ==
  ASSUME source \in Seq(Codes), NEW class, NUL \notin class, NEW from \in 0 .. Len(source)
  PROVE  /\ RunEnd(class, from) \in from .. Len(source)
         /\ Char(from) \in class => RunEnd(class, from) > from
         /\ \A n \in from .. RunEnd(class, from) - 1 : Char(n) \in class
<1> DEFINE S == {n \in from .. Len(source) : Char(n) \notin class}
<1>1. Len(source) \in Nat /\ from \in Nat
  OBVIOUS
<1>2. Char(Len(source)) = NUL
  BY <1>1 DEF Char
<1>3. S \in SUBSET Nat /\ Len(source) \in S
  BY <1>1, <1>2
<1>4. PICK end : end = Min(S)
  OBVIOUS
<1>5. end \in S /\ \A n \in S : end <= n
  <2> HIDE DEF S
  <2> QED BY <1>3, <1>4, LeastOf
<1>6. RunEnd(class, from) = end
  BY <1>4 DEF RunEnd
<1>7. end \in from .. Len(source) /\ Char(end) \notin class
  BY <1>5
<1>8. \A n \in from .. end - 1 : Char(n) \in class
  <2> SUFFICES ASSUME NEW n \in from .. end - 1, Char(n) \notin class PROVE FALSE
    OBVIOUS
  <2>1. n \in from .. Len(source) /\ n < end
    BY <1>1, <1>7
  <2>2. n \in S
    BY <2>1
  <2> QED BY <1>1, <1>5, <1>7, <2>1, <2>2
<1>9. Char(from) \in class => end # from
  BY <1>7
<1> QED BY <1>1, <1>6, <1>7, <1>8, <1>9

\* What is delimited ends at the next delimiter, or with the source.
LEMMA DelimiterEnds ==
  ASSUME source \in Seq(Codes), lexer.pos \in 0 .. Len(source) - 1, NEW delim
  PROVE  /\ DelimitedEnd(delim) \in lexer.pos + 1 .. Len(source)
         /\ DelimitedEnd(delim) < Len(source) => Char(DelimitedEnd(delim)) = delim
         /\ \A n \in lexer.pos + 1 .. DelimitedEnd(delim) - 1 : Char(n) # delim
<1> DEFINE S == {n \in lexer.pos + 1 .. Len(source) : n = Len(source) \/ Char(n) = delim}
<1>1. Len(source) \in Nat /\ lexer.pos \in Nat
  OBVIOUS
<1>3. S \in SUBSET Nat /\ Len(source) \in S
  BY <1>1
<1>4. PICK end : end = Min(S)
  OBVIOUS
<1>5. end \in S /\ \A n \in S : end <= n
  <2> HIDE DEF S
  <2> QED BY <1>3, <1>4, LeastOf
<1>6. DelimitedEnd(delim) = end
  BY <1>4 DEF DelimitedEnd
<1>7. end \in lexer.pos + 1 .. Len(source) /\ (end = Len(source) \/ Char(end) = delim)
  BY <1>5
<1>8. \A n \in lexer.pos + 1 .. end - 1 : Char(n) # delim
  <2> SUFFICES ASSUME NEW n \in lexer.pos + 1 .. end - 1, Char(n) = delim PROVE FALSE
    OBVIOUS
  <2>1. n \in lexer.pos + 1 .. Len(source) /\ n < end
    BY <1>1, <1>7
  <2>2. n \in S
    BY <2>1
  <2> QED BY <1>1, <1>5, <1>7, <2>1, <2>2
<1> QED BY <1>1, <1>6, <1>7, <1>8

\* Most tokens have all the characters that were consumed.
LEMMA ReturnUpToKeeps ==
  ASSUME LexIInv, lex_status = "open", ~ lexer_done, NEW end \in lexer.pos + 1 .. Len(source),
         NEW tag \in TokenTags \ {"string", "escaped_str"}, ReturnUpTo(end, tag)
  PROVE  LexIInv'
<1>1. PICK at \in Nat : at = lexer.pos /\ at < Len(source) /\ Len(source) \in Nat
  BY DEF LexIInv, LexerKnows, lexer_done
<1>2. lexer \in [pos : 0 .. Len(source), line : Int, col : Int]
      /\ lexer.line = LineAt(lexer.pos) /\ lexer.col = ColAt(lexer.pos)
  BY DEF LexIInv, LexerKnows
<1>3. PICK length \in Int : length = end - at
  BY <1>1
<1>4. end \in Nat /\ at + length = end /\ lexer.pos \in lexer.pos .. end
  BY <1>1, <1>3
<1>5. Return(lexer, length, tag, end)
  BY <1>1, <1>3 DEF ReturnUpTo
<1>6. \A n \in lexer.pos .. end - 1 : n \in lexer.pos .. lexer.pos + length - 1
  BY <1>1, <1>4
<1>7. lexer.pos + length <= end
  BY <1>1, <1>4
<1> QED BY <1>2, <1>4, <1>5, <1>6, <1>7, ReturnKeeps

\* What is delimited: the token, and the delimiters around it.
LEMMA DelimitedKeeps ==
  ASSUME LexIInv, lex_status = "open", ~ lexer_done, CurrChar \in {Quote, Backquote},
         NEW tag \in {"comment", "unknown", "string", "escaped_str"},
         tag = "comment" => DelimitedEnd(CurrChar) < Len(source),
         tag \in {"string", "escaped_str"} =>
           /\ CurrChar = Quote
           /\ \A n \in lexer.pos + 1 .. DelimitedEnd(Quote) - 1 :
                Char(n) = Backslash => lexer_lex_escape_seq(n),
         ReturnDelimited(tag)
  PROVE  LexIInv'
<1>1. PICK at \in Nat : at = lexer.pos /\ at < Len(source) /\ Len(source) \in Nat
  BY DEF LexIInv, LexerKnows, lexer_done
<1>2. PICK end : end = DelimitedEnd(CurrChar)
  OBVIOUS
<1>3. /\ end \in at + 1 .. Len(source) /\ (end < Len(source) => Char(end) = CurrChar)
      /\ \A n \in at + 1 .. end - 1 : Char(n) # CurrChar
  <2>1. source \in Seq(Codes) /\ lexer.pos \in 0 .. Len(source) - 1
    BY <1>1 DEF LexIInv, LexerKnows
  <2> QED BY <1>1, <1>2, <2>1, DelimiterEnds
<1>4. end \in Nat
  BY <1>1, <1>3
<1>5. PICK to \in Nat : to = IF end < Len(source) THEN end + 1 ELSE end
  BY <1>4
<1>6. PICK length \in Int : length = to - at - 2
  BY <1>1
<1>7. PICK b : b = Consumed(at + 1)
  OBVIOUS
<1>8. /\ b \in [pos : 0 .. Len(source), line : Int, col : Int]
      /\ b.pos = at + 1 /\ b.line = LineAt(b.pos) /\ b.col = ColAt(b.pos)
  <2>1. at + 1 \in lexer.pos .. Len(source)
    BY <1>1
  <2> QED BY <1>7, <2>1, ConsumedAt DEF LexIInv
<1>9. Return(b, length, tag, to)
  BY <1>1, <1>2, <1>5, <1>6, <1>7 DEF ReturnDelimited
<1>10. to \in lexer.pos + 1 .. Len(source) /\ b.pos \in lexer.pos .. to
       /\ b.pos + length <= to /\ b.pos + length <= end /\ tag \in TokenTags
  <2>1. tag \in TokenTags
    BY DEF TokenTags
  <2>2. end >= at + 1 /\ end <= Len(source)
    BY <1>1, <1>3
  <2>3. to \in Nat /\ to <= Len(source) /\ at + 1 <= to /\ to <= end + 1
    BY <1>1, <1>4, <1>5, <2>2
  <2>4. at + 1 + length <= to /\ at + 1 + length <= end
    BY <1>1, <1>4, <1>6, <2>3
  <2>5. to \in at + 1 .. Len(source) /\ at + 1 \in at .. to
    BY <1>1, <2>3
  <2> QED BY <1>1, <1>8, <2>1, <2>4, <2>5
<1>11. ASSUME NEW n \in lexer.pos .. to - 1
       PROVE  \/ n \in b.pos .. b.pos + length - 1
              \/ Char(n) \in {Quote, Backquote, Hash}
              \/ n > 0 /\ Char(n - 1) = Hash /\ Char(n) \in DOMAIN Based
              \/ n = Len(source) - 1 /\ tag \in {"unknown", "string", "escaped_str"}
  <2>1. CASE n = at
    BY <1>1, <2>1 DEF CurrChar
  <2>2. CASE n = to - 1
    <3>1. CASE end < Len(source)
      BY <1>3, <1>4, <1>5, <2>2, <3>1
    <3>2. CASE ~ (end < Len(source))
      <4>1. end = Len(source) /\ n = Len(source) - 1
        BY <1>1, <1>3, <1>5, <2>2, <3>2
      <4>2. tag # "comment"
        BY <1>2, <3>2
      <4> QED BY <4>1, <4>2
    <3> QED BY <3>1, <3>2
  <2>3. CASE n # at /\ n # to - 1
    <3>1. n \in at .. to - 1
      BY <1>1
    <3>2. n \in Int /\ n >= at + 1 /\ n <= to - 2
      <4>1. n \in Int /\ n >= at /\ n <= to - 1 /\ at \in Int /\ to \in Int
        BY <3>1
      <4> QED BY <2>3, <4>1
    <3>3. at + 1 + length - 1 = to - 2
      BY <1>6
    <3>4. n \in at + 1 .. at + 1 + length - 1
      BY <3>2, <3>3
    <3> QED BY <1>8, <3>4
  <2> QED BY <2>1, <2>2, <2>3
<1>12. ASSUME tag \in {"string", "escaped_str"}
       PROVE  TextSound([begin |-> b.pos, length |-> length, line |-> b.line, col |-> b.col, tag |-> tag])
  <2>1. PICK token :
          token = [begin |-> b.pos, length |-> length, line |-> b.line, col |-> b.col, tag |-> tag]
    OBVIOUS
  <2>2. token.begin = at + 1 /\ token.length = length
    BY <1>8, <2>1
  <2>3. ASSUME NEW n \in Positions(token)
        PROVE  Char(n) # Quote /\ (Char(n) = Backslash => lexer_lex_escape_seq(n))
    <3>1. n \in at + 1 .. end - 1
      BY <1>1, <1>4, <1>8, <1>10, <2>2, <2>3 DEF Positions
    <3>2. CurrChar = Quote
      BY <1>12
    <3>3. Char(n) # Quote
      BY <1>3, <3>1, <3>2
    <3>4. n \in lexer.pos + 1 .. DelimitedEnd(Quote) - 1
      BY <1>1, <1>2, <3>1, <3>2
    <3>5. Char(n) = Backslash => lexer_lex_escape_seq(n)
      BY <1>12, <3>4
    <3> QED BY <3>3, <3>5
  <2> QED BY <2>1, <2>3 DEF TextSound
<1>13. tag # "unknown" => b.pos + length <= to
  BY <1>10
<1> QED BY <1>8, <1>9, <1>10, <1>11, <1>12, <1>13, ReturnKeeps

\* A token that is one run of a class of characters.
LEMMA RunReturned ==
  ASSUME LexIInv, lex_status = "open", ~ lexer_done, NEW class, NUL \notin class, CurrChar \in class
  PROVE  RunEnd(class, lexer.pos) \in lexer.pos + 1 .. Len(source)
<1>1. PICK at \in Nat : at = lexer.pos /\ at < Len(source) /\ Len(source) \in Nat /\ source \in Seq(Codes)
  BY DEF LexIInv, LexerKnows, lexer_done
<1>2. at \in 0 .. Len(source) /\ Char(at) \in class
  BY <1>1 DEF CurrChar
<1>3. PICK end : end = RunEnd(class, at)
  OBVIOUS
<1>4. end \in at .. Len(source) /\ end > at
  BY <1>1, <1>2, <1>3, RunStops
<1> QED BY <1>1, <1>3, <1>4

\* A number ends before a second point (lexer_lex_numeric).
LEMMA NumberEnds ==
  ASSUME LexIInv, lex_status = "open", ~ lexer_done, lexer_lex_numeric
  PROVE  LexIInv'
<1> DEFINE points(n) == {k \in lexer.pos .. n - 1 : Char(k) = Point}
           S == {n \in lexer.pos + 1 .. Len(source) :
                   Char(n) \notin Numeric \/ (Char(n) = Point /\ points(n) # {})}
<1>1. PICK at \in Nat : at = lexer.pos /\ at < Len(source) /\ Len(source) \in Nat
  BY DEF LexIInv, LexerKnows, lexer_done
<1>2. Len(source) \in S
  <2>1. Char(Len(source)) \notin Numeric
    BY <1>1 DEF Char, Numeric, DecDigits, Point, NUL
  <2> QED BY <1>1, <2>1
<1>3. PICK end : end = Min(S)
  OBVIOUS
<1>4. end \in lexer.pos + 1 .. Len(source)
  <2>1. S \in SUBSET Nat
    BY <1>1
  <2>2. Min(S) \in S
    <3> HIDE DEF S
    <3> QED BY <1>2, <2>1, LeastOf
  <2> QED BY <1>3, <2>2
<1>5. PICK tag \in {"integer", "real"} : ReturnUpTo(end, tag)
  BY <1>3 DEF lexer_lex_numeric
<1>6. tag \in TokenTags \ {"string", "escaped_str"}
  BY DEF TokenTags
<1> QED BY <1>4, <1>5, <1>6, ReturnUpToKeeps

\* A string ends at the next quote (lexer_lex_escaped_str).
LEMMA StringEnds ==
  ASSUME LexIInv, lex_status = "open", ~ lexer_done, lexer_lex_escaped_str
  PROVE  LexIInv'
<1> DEFINE backslashes == {n \in lexer.pos + 1 .. DelimitedEnd(Quote) - 1 : Char(n) = Backslash}
<1>1. PICK tag : /\ tag = IF \E n \in backslashes : ~ lexer_lex_escape_seq(n) THEN "unknown"
                         ELSE IF backslashes = {} THEN "string" ELSE "escaped_str"
                 /\ ReturnDelimited(tag)
  BY DEF lexer_lex_escaped_str
<1>2. CurrChar = Quote
  BY DEF lexer_lex_escaped_str
<1>3. tag \in {"comment", "unknown", "string", "escaped_str"} /\ tag # "comment"
  BY <1>1
<1>4. ASSUME tag \in {"string", "escaped_str"}
      PROVE  \A n \in lexer.pos + 1 .. DelimitedEnd(Quote) - 1 :
               Char(n) = Backslash => lexer_lex_escape_seq(n)
  <2>1. ~ \E n \in backslashes : ~ lexer_lex_escape_seq(n)
    BY <1>1, <1>4
  <2> QED BY <2>1
<1> QED BY <1>1, <1>2, <1>3, <1>4, DelimitedKeeps

\* A number with a prefix begins behind it (lexer_lex_based_int).
LEMMA BasedEnds ==
  ASSUME LexIInv, lex_status = "open", ~ lexer_done, lexer_lex_based_int
  PROVE  LexIInv'
<1>1. PICK at \in Nat : at = lexer.pos /\ at < Len(source) /\ Len(source) \in Nat /\ source \in Seq(Codes)
  BY DEF LexIInv, LexerKnows, lexer_done
<1>2. lexer \in [pos : 0 .. Len(source), line : Int, col : Int]
      /\ lexer.line = LineAt(lexer.pos) /\ lexer.col = ColAt(lexer.pos)
  BY DEF LexIInv, LexerKnows
<1>3. Char(at) = Hash
  BY <1>1 DEF lexer_lex_based_int, CurrChar
<1>4. PICK base : base = Char(at + 1)
  OBVIOUS
<1>5. CASE base \notin DOMAIN Based
  <2>1. PICK length \in Int : length = 2
    OBVIOUS
  <2>2. PICK tag \in TokenTags : tag = "unknown"
    BY DEF TokenTags
  <2>3. PICK to \in lexer.pos + 1 .. Len(source) : to = at + 1
    BY <1>1
  <2>4. Return(lexer, length, tag, to)
    BY <1>1, <1>4, <1>5, <2>1, <2>2, <2>3 DEF lexer_lex_based_int
  <2>5. \A n \in lexer.pos .. to - 1 : n \in lexer.pos .. lexer.pos + length - 1
    BY <1>1, <2>1, <2>3
  <2>6. lexer.pos \in lexer.pos .. to
    BY <1>1, <2>3
  <2> QED BY <1>2, <2>2, <2>4, <2>5, <2>6, ReturnKeeps
<1>6. CASE base \in DOMAIN Based
  <2>1. PICK begin \in Nat : begin = at + 2
    BY <1>1
  <2>2. DOMAIN Based = {88, 120, 66, 98}
    BY DEF Based
  <2>3. begin <= Len(source)
    <3>1. base # 0
      BY <1>6, <2>2
    <3>2. at + 1 < Len(source)
      BY <1>4, <3>1 DEF Char, NUL
    <3> QED BY <1>1, <2>1, <3>2
  <2>4. PICK tag : tag = Based[base]
    OBVIOUS
  <2>5. tag \in {"integer_hex", "integer_bin"}
    BY <1>6, <2>2, <2>4 DEF Based
  <2>6. PICK class : class = DigitsOf[tag]
    OBVIOUS
  <2>7. NUL \notin class
    BY <2>5, <2>6 DEF DigitsOf, HexDigits, DecDigits, BinDigits, NUL
  <2>8. PICK end : end = RunEnd(class, begin)
    OBVIOUS
  <2>9. end \in begin .. Len(source)
    <3>1. begin \in 0 .. Len(source)
      BY <1>1, <2>3
    <3> QED BY <1>1, <2>7, <2>8, <3>1, RunStops
  <2>10. PICK b : b = Consumed(begin)
    OBVIOUS
  <2>11. /\ b \in [pos : 0 .. Len(source), line : Int, col : Int]
         /\ b.pos = begin /\ b.line = LineAt(b.pos) /\ b.col = ColAt(b.pos)
    <3>1. begin \in lexer.pos .. Len(source)
      BY <1>1, <2>1, <2>3
    <3> QED BY <2>10, <3>1, ConsumedAt DEF LexIInv
  <2>12. PICK length \in Int : length = end - begin
    BY <1>1, <2>9
  <2>13. Return(b, length, tag, end)
    <3>1. Return(Consumed(begin), end - begin, Based[base], end)
      BY <1>1, <1>4, <1>6, <2>1, <2>4, <2>6, <2>8 DEF lexer_lex_based_int
    <3> QED BY <2>4, <2>10, <2>12, <3>1
  <2>14. end \in Nat /\ end >= begin /\ end <= Len(source) /\ begin + length = end
    BY <1>1, <2>9, <2>12
  <2>15. end \in lexer.pos + 1 .. Len(source) /\ b.pos \in lexer.pos .. end /\ b.pos + length <= end
    BY <1>1, <2>1, <2>11, <2>14
  <2>16. ASSUME NEW n \in lexer.pos .. end - 1
         PROVE  \/ n \in b.pos .. b.pos + length - 1
                \/ Char(n) \in {Quote, Backquote, Hash}
                \/ n > 0 /\ Char(n - 1) = Hash /\ Char(n) \in DOMAIN Based
                \/ n = Len(source) - 1 /\ tag \in {"unknown", "string", "escaped_str"}
    <3>1. n \in Int /\ n >= at /\ n <= end - 1
      BY <1>1, <2>14
    <3>2. CASE n = at
      BY <1>3, <3>2
    <3>3. CASE n = at + 1
      <4>1. n > 0 /\ n - 1 = at
        BY <1>1, <3>3
      <4> QED BY <1>3, <1>4, <1>6, <3>3, <4>1
    <3>4. CASE n # at /\ n # at + 1
      <4>1. n \in begin .. begin + length - 1
        BY <1>1, <2>1, <2>14, <3>1, <3>4
      <4> QED BY <2>11, <4>1
    <3> QED BY <3>2, <3>3, <3>4
  <2>17. tag \in TokenTags /\ tag \notin {"string", "escaped_str"}
    BY <2>5 DEF TokenTags
  <2> QED BY <2>11, <2>13, <2>15, <2>16, <2>17, ReturnKeeps
<1> QED BY <1>5, <1>6

\* A call of lexer_next: one case for each function that it may choose.
LEMMA TokenKeeps ==
  ASSUME LexIInv, lex_status = "open", ~ lexer_done, lexer_next
  PROVE  LexIInv'
<1>1. PICK at \in Nat : at = lexer.pos /\ at < Len(source) /\ Len(source) \in Nat
  BY DEF LexIInv, LexerKnows, lexer_done
<1>2. lexer.pos + 1 \in lexer.pos + 1 .. Len(source)
  BY <1>1
<1>3. /\ NUL \notin Spaces /\ NUL \notin OpSymbols /\ NUL \notin WordSymbols
      /\ {"single", "spaces", "unknown", "special", "identifier"} \subseteq TokenTags \ {"string", "escaped_str"}
  <2>1. NUL \notin Spaces
    BY DEF Spaces, Newline, Space, NUL
  <2>2. NUL \notin OpSymbols
    BY DEF OpSymbols, Minus, NUL
  <2>3. NUL \notin WordSymbols
    BY DEF WordSymbols, NUL
  <2> QED BY <2>1, <2>2, <2>3 DEF TokenTags
<1>4. CASE lexer_lex_single
  BY <1>2, <1>3, <1>4, ReturnUpToKeeps DEF lexer_lex_single
<1>5. CASE lexer_lex_space
  <2>1. RunEnd(Spaces, lexer.pos) \in lexer.pos + 1 .. Len(source)
    BY <1>3, <1>5, RunReturned DEF lexer_lex_space
  <2> QED BY <1>3, <1>5, <2>1, ReturnUpToKeeps DEF lexer_lex_space
<1>6. CASE lexer_lex_between
  <2>1. PICK tag : /\ tag = IF DelimitedEnd(Backquote) < Len(source) THEN "comment" ELSE "unknown"
                   /\ ReturnDelimited(tag) /\ CurrChar = Backquote
    BY <1>6 DEF lexer_lex_between
  <2>2. /\ tag \in {"comment", "unknown"}
        /\ (tag = "comment" => DelimitedEnd(CurrChar) < Len(source))
    BY <2>1
  <2>3. tag \in {"comment", "unknown", "string", "escaped_str"} /\ tag \notin {"string", "escaped_str"}
    BY <2>2
  <2> QED BY <2>1, <2>2, <2>3, DelimitedKeeps
<1>7. CASE lexer_lex_escaped_str
  BY <1>7, StringEnds
<1>8. CASE lexer_lex_numeric
  BY <1>8, NumberEnds
<1>9. CASE lexer_lex_based_int
  BY <1>9, BasedEnds
<1>10. CASE lexer_lex_operator
  <2>1. PICK end : end = RunEnd(OpSymbols, lexer.pos) /\ end \in lexer.pos + 1 .. Len(source)
    BY <1>3, <1>10, RunReturned DEF lexer_lex_operator
  <2>2. PICK tag \in {"special", "unknown"} : ReturnUpTo(end, tag)
    BY <1>10, <2>1 DEF lexer_lex_operator
  <2> QED BY <1>3, <2>1, <2>2, ReturnUpToKeeps
<1>11. CASE lexer_lex_word
  <2>1. PICK end : end = RunEnd(WordSymbols, lexer.pos) /\ end \in lexer.pos + 1 .. Len(source)
    BY <1>3, <1>11, RunReturned DEF lexer_lex_word
  <2>2. PICK tag \in {"special", "identifier"} : ReturnUpTo(end, tag)
    BY <1>11, <2>1 DEF lexer_lex_word
  <2> QED BY <1>3, <2>1, <2>2, ReturnUpToKeeps
<1>12. CASE lex_unknown
  BY <1>2, <1>3, <1>12, ReturnUpToKeeps DEF lex_unknown
<1> QED BY <1>4, <1>5, <1>6, <1>7, <1>8, <1>9, <1>10, <1>11, <1>12 DEF lexer_next

(***************************************************************************)
(* The loop of compiler_record_escaped_string, over a closed string.       *)
(***************************************************************************)
\* Its turns, one by one.
LEMMA ItemsFollow ==
  ASSUME NEW token \in Tokens, token.length >= 0
  PROVE  /\ ItemAt(token)[0] = token.begin
         /\ \A turn \in 1 .. token.length :
              ItemAt(token)[turn] = IF ItemAt(token)[turn - 1] < End(token)
                                    THEN ItemEnd(ItemAt(token)[turn - 1]) ELSE ItemAt(token)[turn - 1]
         /\ \A turn \in 0 .. token.length : ItemAt(token)[turn] \in Int
<1>1. PICK k \in Nat : k = token.length
  BY DEF Tokens
<1>2. PICK begin \in Nat : begin = token.begin
  BY DEF Tokens
<1>3. PICK stop \in Int : stop = End(token)
  BY <1>1, <1>2 DEF End
<1> DEFINE next == [n \in 1 .. k |-> [last \in Int |-> IF last < stop THEN ItemEnd(last) ELSE last]]
<1>4. next \in [1 .. k -> [Int -> Int]]
  <2>1. \A last \in Int : ItemEnd(last) \in Int
    BY DEF ItemEnd, EscapeEnd
  <2> QED BY <2>1
<1>5. \A n \in 1 .. k : \A last \in Int : next[n][last] = IF last < stop THEN ItemEnd(last) ELSE last
  OBVIOUS
<1> HIDE DEF next
<1>6. PICK f \in [0 .. k -> Int] : Follows(f, k, begin, next)
  <2>1. begin \in Int
    OBVIOUS
  <2> QED BY <1>4, <2>1, RecursiveFunction
<1>7. /\ f[0] = begin
      /\ \A n \in 1 .. k : f[n] = IF f[n - 1] < stop THEN ItemEnd(f[n - 1]) ELSE f[n - 1]
  <2>1. f[0] = begin
    BY <1>6 DEF Follows
  <2>2. ASSUME NEW n \in 1 .. k
        PROVE  f[n] = IF f[n - 1] < stop THEN ItemEnd(f[n - 1]) ELSE f[n - 1]
    <3>1. n - 1 \in 0 .. k
      OBVIOUS
    <3>2. f[n - 1] \in Int /\ f[n] = next[n][f[n - 1]]
      BY <1>6, <3>1 DEF Follows
    <3> QED BY <1>5, <3>2
  <2> QED BY <2>1, <2>2
<1> DEFINE Walk(r) == r = [turn \in 0 .. k |-> IF turn = 0 THEN begin
                                                ELSE LET last == r[turn - 1]
                                                     IN  IF last < stop THEN ItemEnd(last) ELSE last]
<1>8. Walk(f)
  <2>1. ASSUME NEW n \in 0 .. k
        PROVE  f[n] = IF n = 0 THEN begin
                      ELSE IF f[n - 1] < stop THEN ItemEnd(f[n - 1]) ELSE f[n - 1]
    BY <1>7
  <2> QED BY <1>6, <2>1
<1>9. PICK r : r = ItemAt(token)
  OBVIOUS
<1>10. r = CHOOSE g : Walk(g)
  BY <1>1, <1>2, <1>3, <1>9 DEF ItemAt
<1>11. Walk(r)
  <2> HIDE DEF Walk
  <2> QED BY <1>8, <1>10
<1>12. r[0] = begin /\ \A n \in 1 .. k : r[n] = IF r[n - 1] < stop THEN ItemEnd(r[n - 1]) ELSE r[n - 1]
  <2>1. 0 \in 0 .. k
    OBVIOUS
  <2>2. \A n \in 1 .. k : n \in 0 .. k /\ n # 0
    OBVIOUS
  <2> QED BY <1>11, <2>1, <2>2
<1>13. \A n \in 0 .. k : r[n] \in Int
  <2> DEFINE G == {n \in 0 .. k : r[n] \in Int}
  <2>1. 0 \in G
    BY <1>12
  <2>2. ASSUME NEW n \in 1 .. k, n - 1 \in G
        PROVE  n \in G
    <3>1. r[n - 1] \in Int
      BY <2>2
    <3>2. ItemEnd(r[n - 1]) \in Int
      BY <3>1 DEF ItemEnd, EscapeEnd
    <3>3. r[n] \in Int
      BY <1>12, <3>1, <3>2
    <3> QED BY <3>3
  <2>3. 0 .. k \subseteq G
    <3> HIDE DEF G
    <3> QED BY <2>1, <2>2, UpTo
  <2> QED BY <2>3
<1> QED BY <1>1, <1>2, <1>3, <1>9, <1>12, <1>13

\* It stops at the quote, whatever escape sequences there are.
LEMMA StopsAtTheQuote ==
  ASSUME NEW token \in Tokens, Closed(token), TextSound(token)
  PROVE  Escaped(token)
<1>1. PICK k \in Nat : k = token.length
  BY DEF Tokens, Closed
<1>2. PICK begin \in Nat : begin = token.begin
  BY DEF Tokens
<1>3. PICK stop \in Nat : stop = End(token) /\ stop = begin + k /\ Char(stop) = Quote
  BY <1>1, <1>2 DEF End, Closed
<1>4. \A n \in begin .. stop - 1 : Char(n) = Backslash => lexer_lex_escape_seq(n)
  BY <1>1, <1>2, <1>3 DEF TextSound, Positions
<1>5. PICK at : at = ItemAt(token)
  OBVIOUS
<1>6. /\ at[0] = begin /\ (\A turn \in 0 .. k : at[turn] \in Int)
      /\ \A turn \in 1 .. k : at[turn] = IF at[turn - 1] < stop THEN ItemEnd(at[turn - 1]) ELSE at[turn - 1]
  <2>1. token.length >= 0
    BY <1>1
  <2> QED BY <1>1, <1>2, <1>3, <1>5, <2>1, ItemsFollow
<1>7. ASSUME NEW n \in begin .. stop - 1
      PROVE  ItemEnd(n) > n /\ ItemEnd(n) <= stop
  <2>1. n \in Nat /\ n < stop
    BY <1>2, <1>3
  <2>2. CASE Char(n) # Backslash
    BY <1>3, <2>1, <2>2 DEF ItemEnd
  <2>3. CASE Char(n) = Backslash
    <3>0. DOMAIN ShortEscapes = {118, 114, 116, 110}
      BY DEF ShortEscapes
    <3>1. CASE Char(n + 1) \in DOMAIN ShortEscapes
      <4>1. Char(n + 1) # Quote
        BY <3>0, <3>1 DEF Quote
      <4>2. n + 1 # stop
        BY <1>3, <4>1
      <4>3. ItemEnd(n) = n + 2
        BY <2>3, <3>1 DEF ItemEnd, EscapeEnd
      <4> QED BY <1>3, <2>1, <4>2, <4>3
    <3>2. CASE Char(n + 1) \notin DOMAIN ShortEscapes
      <4>1. Char(n + 1) = 120 /\ Char(n + 2) \in DecDigits /\ Char(n + 3) \in DecDigits
        BY <1>4, <2>3, <3>2 DEF lexer_lex_escape_seq
      <4>2. Char(n + 1) # Quote /\ Char(n + 2) # Quote /\ Char(n + 3) # Quote
        BY <4>1 DEF DecDigits, Quote
      <4>3. n + 1 # stop /\ n + 2 # stop /\ n + 3 # stop
        BY <1>3, <4>2
      <4>4. ItemEnd(n) = n + 4
        BY <2>3, <3>2 DEF ItemEnd, EscapeEnd
      <4> QED BY <1>3, <2>1, <4>3, <4>4
    <3> QED BY <3>1, <3>2
  <2> QED BY <2>2, <2>3
<1> DEFINE G == {turn \in 0 .. k : at[turn] <= stop /\ (begin + turn <= at[turn] \/ at[turn] = stop)}
<1>8. 0 .. k \subseteq G
  <2>1. 0 \in G
    BY <1>3, <1>6
  <2>2. ASSUME NEW turn \in 1 .. k, turn - 1 \in G
        PROVE  turn \in G
    <3>1. PICK last \in Int : last = at[turn - 1]
      BY <1>6, <2>2
    <3>2. last <= stop /\ (begin + (turn - 1) <= last \/ last = stop)
      BY <2>2, <3>1
    <3>3. PICK here \in Int : here = at[turn] /\ here = IF last < stop THEN ItemEnd(last) ELSE last
      BY <1>6, <3>1
    <3>4. CASE last < stop
      <4>1. last \in begin .. stop - 1
        BY <1>3, <3>2, <3>4
      <4>2. ItemEnd(last) > last /\ ItemEnd(last) <= stop
        BY <1>7, <4>1
      <4>3. here > last /\ here <= stop /\ begin + (turn - 1) <= last
        BY <1>3, <3>2, <3>3, <3>4, <4>2
      <4>4. begin + turn <= here
        BY <4>3
      <4>5. turn \in 0 .. k
        OBVIOUS
      <4> QED BY <3>3, <4>3, <4>4, <4>5
    <3>5. CASE ~ (last < stop)
      <4>1. at[turn] = stop /\ stop <= stop
        <5>1. last = stop
          BY <1>3, <3>2, <3>5
        <5> QED BY <1>3, <3>3, <3>5, <5>1
      <4>2. turn \in 0 .. k
        OBVIOUS
      <4> QED BY <4>1, <4>2
    <3> QED BY <3>4, <3>5
  <2>3. 0 \in G /\ \A turn \in 1 .. k : turn - 1 \in G => turn \in G
    BY <2>1, <2>2
  <2> HIDE DEF G
  <2> QED BY <2>3, UpTo
<1>9. \A turn \in 0 .. k : at[turn] <= stop
  BY <1>3, <1>8
<1>10. at[k] = stop
  <2>1. k \in G
    BY <1>8
  <2>2. at[k] \in Int
    BY <1>6
  <2> QED BY <1>3, <2>1, <2>2
<1> DEFINE S == {turn \in 0 .. k : at[turn] >= stop}
<1>11. S \in SUBSET Nat /\ k \in S
  BY <1>3, <1>10
<1>12. Min(S) \in S
  <2> HIDE DEF S
  <2> QED BY <1>11, LeastOf
<1>13. Turns(token) = Min(S)
  BY <1>1, <1>3, <1>5 DEF Turns
<1>14. at[Turns(token)] = stop
  <2>1. PICK turn \in S : turn = Min(S)
    BY <1>12
  <2>2. turn \in 0 .. k /\ at[turn] >= stop /\ at[turn] <= stop /\ at[turn] \in Int
    BY <1>6, <1>9, <2>1
  <2> QED BY <1>3, <1>13, <2>1, <2>2
<1> QED BY <1>1, <1>3, <1>5, <1>14 DEF Escaped

\* A literal is converted, and what the lexer found stays.
LEMMA LiteralKeeps ==
  ASSUME LexIInv, lex_status = "open", LiteralWaits, compiler_do_literal
  PROVE  LexIInv'
<1>1. source' = source /\ lexer' = lexer /\ tokens' = tokens
  BY DEF compiler_do_literal
<1>2. tokens # <<>>
  <2> SUFFICES ASSUME tokens = <<>> PROVE FALSE
    OBVIOUS
  <2>1. values = <<>>
    BY DEF LexIInv
  <2>2. LiteralsIn = {}
    BY DEF LiteralsIn
  <2>3. Cardinality(LiteralsIn) = 0
    BY <2>2, FS_EmptySet
  <2> QED BY <2>1, <2>3 DEF LiteralWaits
<1>3. PICK token : token = Last(tokens)
  OBVIOUS
<1>4. token \in SoundTokens
  BY <1>2, <1>3 DEF LexIInv, Last
<1>5. /\ token \in Tokens
      /\ (token.tag \in {"string", "escaped_str"} => TextSound(token))
  BY <1>4 DEF SoundTokens
<1>6. LexerKnows'
  BY <1>1 DEF LexIInv, LexerKnows, LineAt, ColAt, Newlines, Char
<1>7. SourceCovered'
  BY <1>1 DEF LexIInv, SourceCovered, Located, End, Positions, LeftOut, Char
<1>8. PICK T : T = SoundTokens'
  OBVIOUS
<1>9. T = SoundTokens
  BY <1>1, <1>8 DEF SoundTokens, Located, End, TextSound, Closed, Positions, Char, lexer_lex_escape_seq
<1>10. tokens' \in Seq(T) /\ tokens' # <<>>
  BY <1>1, <1>2, <1>9 DEF LexIInv
<1>11. ConversionsStayInside'
  <2>1. Closed(token)' <=> Closed(token)
    BY <1>1 DEF Closed, End, Char
  <2>2. Last(tokens)' = token
    BY <1>1, <1>3 DEF Last
  <2>3. ASSUME lex_status' = "lost", Closed(token)
        PROVE  FALSE
    <3>1. token.tag \in {"string", "escaped_str"} /\ compiler_record_escaped_string(token)
      BY <1>3, <2>3 DEF compiler_do_literal, StringTags
    <3>2. ~ Escaped(token)
      BY <2>3, <3>1 DEF compiler_record_escaped_string
    <3>3. TextSound(token)
      BY <1>5, <3>1
    <3> QED BY <1>5, <2>3, <3>2, <3>3, StopsAtTheQuote
  <2>4. Closed(Last(tokens))' <=> Closed(token)'
    BY <2>2 DEF Closed, End
  <2> QED BY <2>1, <2>3, <2>4 DEF ConversionsStayInside
<1> QED BY <1>6, <1>7, <1>8, <1>10, <1>11 DEF LexIInv

\* What is written is a source.
LEMMA SpelledIsText ==
  ASSUME NEW literals \in Seq(Literals)
  PROVE  Spelled(literals) \in Seq(Codes)
<1>1. PICK k \in Nat : k = Len(literals)
  OBVIOUS
<1> DEFINE Turn(n, t) == t \o literals[n].spelling \o <<Space>>
           next == [n \in 1 .. k |-> [t \in Seq(Codes) |-> Turn(n, t)]]
<1>2. ASSUME NEW n \in 1 .. k, NEW t \in Seq(Codes)
      PROVE  Turn(n, t) \in Seq(Codes)
  <2>1. literals[n] \in Literals
    BY <1>1
  <2>2. literals[n].spelling \in Seq(Codes)
    BY <2>1, SourcesAssumption
  <2>3. <<Space>> \in Seq(Codes)
    BY DEF Codes, Space
  <2>4. t \o literals[n].spelling \in Seq(Codes)
    BY <2>2
  <2> QED BY <2>3, <2>4
<1>3. <<>> \in Seq(Codes)
  OBVIOUS
<1>4. next \in [1 .. k -> [Seq(Codes) -> Seq(Codes)]]
  <2> HIDE DEF Turn
  <2> QED BY <1>2
<1>5. \A n \in 1 .. k : \A t \in Seq(Codes) : next[n][t] = Turn(n, t)
  OBVIOUS
<1> HIDE DEF next, Turn
<1>6. PICK f \in [0 .. k -> Seq(Codes)] : Follows(f, k, <<>>, next)
  BY <1>1, <1>3, <1>4, RecursiveFunction
<1>7. f[0] = <<>> /\ \A n \in 1 .. k : f[n] = Turn(n, f[n - 1])
  <2>1. f[0] = <<>>
    BY <1>6 DEF Follows
  <2>2. ASSUME NEW n \in 1 .. k
        PROVE  f[n] = Turn(n, f[n - 1])
    <3>1. n - 1 \in 0 .. k
      OBVIOUS
    <3>2. f[n - 1] \in Seq(Codes) /\ f[n] = next[n][f[n - 1]]
      BY <1>6, <3>1 DEF Follows
    <3> QED BY <1>5, <3>2
  <2> QED BY <2>1, <2>2
<1> DEFINE Joins(r) == r = [n \in 0 .. k |-> IF n = 0 THEN <<>> ELSE Turn(n, r[n - 1])]
<1>8. Joins(f)
  <2>1. ASSUME NEW n \in 0 .. k
        PROVE  f[n] = IF n = 0 THEN <<>> ELSE Turn(n, f[n - 1])
    BY <1>7
  <2> QED BY <1>6, <2>1
<1>9. PICK r : r = CHOOSE g : Joins(g)
  OBVIOUS
<1>10. Spelled(literals) = r[k]
  BY <1>1, <1>9 DEF Spelled, Turn
<1>11. Joins(r)
  <2> HIDE DEF Joins
  <2> QED BY <1>8, <1>9
<1>12. r[0] = <<>> /\ \A n \in 1 .. k : r[n] = Turn(n, r[n - 1])
  <2>1. 0 \in 0 .. k
    OBVIOUS
  <2>2. \A n \in 1 .. k : n \in 0 .. k /\ n # 0
    OBVIOUS
  <2> QED BY <1>11, <2>1, <2>2
<1> DEFINE G == {n \in 0 .. k : r[n] \in Seq(Codes)}
<1>13. 0 .. k \subseteq G
  <2>1. 0 \in G
    <3>1. r[0] \in Seq(Codes)
      BY <1>3, <1>12
    <3>2. 0 \in 0 .. k
      OBVIOUS
    <3> QED BY <3>1, <3>2
  <2>2. ASSUME NEW n \in 1 .. k, n - 1 \in G
        PROVE  n \in G
    <3>1. r[n - 1] \in Seq(Codes)
      BY <2>2
    <3>2. r[n] \in Seq(Codes)
      BY <1>2, <1>12, <3>1
    <3> QED BY <3>2
  <2>3. 0 \in G /\ \A n \in 1 .. k : n - 1 \in G => n \in G
    BY <2>1, <2>2
  <2> HIDE DEF G
  <2> QED BY <2>3, UpTo
<1>14. k \in G
  BY <1>13
<1> QED BY <1>10, <1>14

\* The invariant holds at first,
LEMMA LexInitKeeps ==
  LexInit => LexIInv
<1> SUFFICES ASSUME LexInit PROVE LexIInv
  OBVIOUS
<1>1. source \in Seq(Codes)
  <2>1. CASE source \in Scraps
    BY <2>1, SourcesAssumption
  <2>2. CASE written \in BoundedSeq(Literals, MaxLiterals) /\ source = Spelled(written)
    <3>1. PICK m \in 0 .. MaxLiterals : written \in [1 .. m -> Literals]
      BY <2>2 DEF BoundedSeq, SeqOf
    <3>2. m \in Nat
      BY SourcesAssumption
    <3>3. written \in Seq(Literals)
      BY <3>1, <3>2
    <3> QED BY <2>2, <3>3, SpelledIsText
  <2> QED BY <2>1, <2>2 DEF LexInit
<1>2. lexer = [pos |-> 0, line |-> 1, col |-> 1] /\ tokens = <<>> /\ values = <<>> /\ lex_status = "open"
  BY DEF LexInit
<1>3. Newlines(0) = {}
  BY DEF Newlines
<1>4. LineAt(0) = 1 /\ ColAt(0) = 1
  <2>1. Cardinality(Newlines(0)) = 0
    BY <1>3, FS_EmptySet
  <2> QED BY <1>3, <2>1 DEF LineAt, ColAt
<1>5. LexerKnows
  <2>1. Len(source) \in Nat
    BY <1>1
  <2>2. 0 \in 0 .. Len(source)
    BY <2>1
  <2> QED BY <1>1, <1>2, <1>4, <2>2 DEF LexerKnows
<1>6. SourceCovered
  BY <1>2 DEF SourceCovered
<1>7. ConversionsStayInside
  BY <1>2 DEF ConversionsStayInside
<1>8. tokens \in Seq(SoundTokens)
  BY <1>2
<1> QED BY <1>2, <1>5, <1>6, <1>7, <1>8 DEF LexIInv

\* and each step keeps it.
LEMMA LexStepKeeps ==
  LexIInv /\ [LexNext]_lexVars => LexIInv'
<1> SUFFICES ASSUME LexIInv, [LexNext]_lexVars PROVE LexIInv'
  OBVIOUS
<1>1. CASE LexNext
  <2>1. CASE LiteralWaits /\ compiler_do_literal
    BY <1>1, <2>1, LiteralKeeps DEF LexNext
  <2>2. CASE ~ LiteralWaits /\ ~ lexer_done /\ lexer_next
    BY <1>1, <2>2, TokenKeeps DEF LexNext
  <2> QED BY <1>1, <2>1, <2>2 DEF LexNext
<1>2. CASE UNCHANGED lexVars
  <2>1. /\ source' = source /\ lexer' = lexer /\ tokens' = tokens /\ values' = values
        /\ lex_status' = lex_status
    BY <1>2 DEF lexVars
  <2>2. LexerKnows'
    BY <2>1 DEF LexIInv, LexerKnows, LineAt, ColAt, Newlines, Char
  <2>3. SourceCovered'
    BY <2>1 DEF LexIInv, SourceCovered, Located, End, Positions, LeftOut, Char
  <2>4. PICK T : T = SoundTokens'
    OBVIOUS
  <2>5. T = SoundTokens
    BY <2>1, <2>4 DEF SoundTokens, Located, End, TextSound, Closed, Positions, Char, lexer_lex_escape_seq
  <2>6. tokens' \in Seq(T) /\ (tokens' = <<>> => values' = <<>>)
    BY <2>1, <2>5 DEF LexIInv
  <2>7. ConversionsStayInside'
    BY <2>1 DEF LexIInv, ConversionsStayInside, Closed, End, Char
  <2> QED BY <2>2, <2>3, <2>4, <2>6, <2>7 DEF LexIInv
<1> QED BY <1>1, <1>2

\* Whatever the source, and wherever the lexer is: each token knows its line and column,
\* no token begins before an earlier one that is not unknown has ended, and what was
\* consumed is in a token or has a reason not to be (lexer_next, lexer_consume).
THEOREM SourceIsCovered == LexSpec => []SourceCovered
<1>1. LexIInv => SourceCovered
  BY DEF LexIInv
<1> QED BY <1>1, LexInitKeeps, LexStepKeeps, PTL DEF LexSpec

\* The conversion of a string that is closed stops at its quote, for the lexer has
\* refused each escape sequence that would lead past it: compiler_record_escaped_string
\* may compare for equality, whatever the string.
THEOREM ConversionsStopAtTheQuote == LexSpec => []ConversionsStayInside
<1>1. LexIInv => ConversionsStayInside
  BY DEF LexIInv
<1> QED BY <1>1, LexInitKeeps, LexStepKeeps, PTL DEF LexSpec
=============================================================================
