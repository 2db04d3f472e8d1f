------------------------------- MODULE MCInput -------------------------------
(***************************************************************************)
(* What the program reads: files of bytecode, and sources.                 *)
(*                                                                         *)
(* Files are those of small programs with strings, chunks and constants of *)
(* every kind.  Sources are scraps over a few characters at a time, and    *)
(* literals of every kind one behind the other.                            *)
(***************************************************************************)
EXTENDS Loader, Lexer

(***************************************************************************)
(* Files.                                                                  *)
(***************************************************************************)
\* A constant, the bytes of its payload, and what the program means by it.
Const(tag, bytes, means) == [tag |-> tag, bytes |-> bytes, means |-> means]

True == Const("bool", <<1, 0, 0, 0>>, 1)
MinusTwo == Const("int", <<254, 255, 255, 255>>, -2)
OneAndAHalf == Const("real", <<0, 0, 192, 63>>, 1069547520)
MinusTwoAndAHalf == Const("real", <<0, 0, 32, 192>>, -1071644672)
Nothing == Const("nil", <<0, 0, 0, 0>>, 0)
FirstString == Const("strid", <<0, 0, 0, 0>>, 0)
LastShortId == Const("strid", <<255, 255, 0, 0>>, 65535)
TooLongId == Const("strid", <<1, 0, 1, 0>>, 65537)

Inst(op, flag, wide) == [op |-> op, flag |-> flag, wide |-> wide]
Ret == Inst(64, 1, 0)
PutK == Inst(7, 0, 258)

Chunk(code, constants) == [code |-> code, constants |-> constants]
Program(entry, strings, chunks) == [entry_id |-> entry, strings |-> strings, chunks |-> chunks]

MCPrograms ==
  { Program(0, <<>>, <<>>),
    Program(0, <<>>, <<Chunk(<<Ret>>, <<>>)>>),
    Program(0, <<<<72, 105>>, <<33>>>>, <<Chunk(<<PutK, Ret>>, <<FirstString, OneAndAHalf>>)>>),
    Program(1, <<<<65>>>>, <<Chunk(<<Ret>>, <<>>), Chunk(<<PutK, PutK, Ret>>, <<MinusTwo, True, Nothing>>)>>),
    Program(1, <<>>, <<Chunk(<<PutK, Ret>>, <<MinusTwoAndAHalf>>), Chunk(<<Ret>>, <<>>)>>),
    Program(0, <<>>, <<Chunk(<<Ret>>, <<TooLongId, LastShortId>>)>>) }

(***************************************************************************)
(* Sources.  An int has 8 bits here, a decimal one up to 2 characters.     *)
(***************************************************************************)
Upto(chars, length) == UNION {[1 .. n -> chars] : n \in 0 .. length}

\* Strings, comments and what is around them; numbers; integers of a base;
\* words, operators and lines.
MCScraps ==
  UNION {Upto({Quote, Backslash, 120, 110, 49}, 5), Upto({Quote, Backslash, Backquote, Newline}, 4),
         Upto({Minus, Point, 49, 50, 97}, 4), Upto({Hash, 120, 98, 49, 65}, 4),
         Upto({60, 61, Minus, 49, 97, Newline}, 4), Upto({40, 64, Space, Newline, Backquote}, 4)}

\* "<<", "<", "-" and "aa".
MCSpecials == {<<60, 60>>, <<60>>, <<Minus>>, <<97, 97>>}

Literal(spelling, domain, meaning) ==
  [spelling |-> spelling, means |-> [domain |-> domain, data |-> meaning]]

Digit(n) == IF n < 10 THEN 48 + n ELSE 55 + n
Signs == {<<>>, <<Minus>>}
SignOf(sign) == IF sign = <<>> THEN 1 ELSE -1

Integers10 ==
  {Literal(sign \o <<Digit(n)>>, "int", SignOf(sign) * n) : sign \in Signs, n \in {0, 7}}
    \cup {Literal(<<Digit(n \div 10), Digit(n % 10)>>, "int", n) : n \in {5, 10, 99}}

Integers16 ==
  {Literal(<<Hash, 120, Digit(n \div 16), Digit(n % 16)>>, "int", IF n < 128 THEN n ELSE n - 256) :
     n \in {10, 16, 127, 128, 255}}

Integers2 == {Literal(<<Hash, 98, Digit(n \div 2), Digit(n % 2)>>, "int", n) : n \in 0 .. 3}

\* A digit or two before the point.
Reals ==
  {Literal(sign \o <<Digit(n), Point, Digit(t)>>, "real", SignOf(sign) * (1000 * n + 100 * t)) :
     sign \in Signs, n \in {0, 2}, t \in {0, 5}}
    \cup {Literal(<<49, 50, Point>>, "real", 12000), Literal(<<49, 50, Point, 48, 51>>, "real", 12030)}

\* What a string is made of: A, 4, x and n; \x41, \x22, \n and \v.
Items ==
  {[spelling |-> <<c>>, code |-> c] : c \in {65, 52, 120, 110}}
    \cup {[spelling |-> <<Backslash, 120, 52, 49>>, code |-> 65],
          [spelling |-> <<Backslash, 120, 50, 50>>, code |-> Quote],
          [spelling |-> <<Backslash, 110>>, code |-> Newline],
          [spelling |-> <<Backslash, 118>>, code |-> 11]}

StringOf(items) ==
  Literal(<<Quote>> \o FoldLeft(LAMBDA text, item : text \o item.spelling, <<>>, items) \o <<Quote>>,
          "string", [i \in DOMAIN items |-> items[i].code])

Strings == {StringOf(items) : items \in Upto(Items, 2)}

MCLiterals == UNION {Integers10, Integers16, Integers2, Reals, Strings}
-----------------------------------------------------------------------------
\* A file is read and then a source; one of them is empty.
MCInit ==
  \/ source = <<>> /\ written = <<>> /\ LexInit /\ LoaderInit
  \/ data = <<>> /\ LoaderInit /\ LexInit

MCNext ==
  \/ tbl_dispatch /\ UNCHANGED lexVars
  \/ Ended /\ LexNext /\ UNCHANGED loaderVars

MCSpec ==
  /\ MCInit
  /\ [][MCNext]_<<loaderVars, lexVars>>
  /\ WF_loaderVars(tbl_dispatch)
=============================================================================
