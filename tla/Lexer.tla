-------------------------------- MODULE Lexer --------------------------------
(***************************************************************************)
(* src/src/lex.c, and the values of literals: compiler_do_literal with the *)
(* conversions it calls (compiler.c, mystr.c).  A step is a call of        *)
(* lexer_next, or the conversion of the literal that it returned; at the   *)
(* end of the source, where each call returns tk_eof again, nothing moves. *)
(*                                                                         *)
(* A source is a sequence of character codes.  The tags are those of       *)
(* token.h, but keywords and operators are all "special", and marks of     *)
(* punctuation "single".  A float is exact, in units of 10^-Decimals;      *)
(* lines and columns have no width.                                        *)
(***************************************************************************)
EXTENDS Integers, SequencesExt

CONSTANTS
  Scraps,       \* sources of any characters
  Literals,     \* literals, each with its spelling and what it means
  MaxLiterals,  \* the number of them in a source
  Specials,     \* the lexemes of keywords and operators
  IntWidth,     \* bits of an int
  IntLexeme     \* characters of the longest decimal integer

Codes == 0 .. 255

ASSUME IntAssumption == 10 ^ IntLexeme <= 2 ^ (IntWidth - 1)

ASSUME SourcesAssumption ==
  /\ MaxLiterals \in Nat
  /\ \A scrap \in Scraps : scrap \in Seq(Codes)
  /\ \A literal \in Literals : literal.spelling \in Seq(Codes)

Decimals == 3

NUL == 0
Newline == 10
Space == 32
Quote == 34
Hash == 35
Minus == 45
Point == 46
Backslash == 92
Backquote == 96

Spaces == {9, Newline, Space}
Singles == {40, 41, 44, 59, 91, 93, 123, 125}                         \* ()  ,  ;  []  {}
OpSymbols == {33, 38, 42, 43, Minus, 47, 58, 60, 61, 62, 63, 94, 124, 126}  \* !&*+-/:<=>?^|~
DecDigits == 48 .. 57
BinDigits == {48, 49}
HexDigits == DecDigits \cup 65 .. 70
Numeric == DecDigits \cup {Point}
WordSymbols == 65 .. 90 \cup 97 .. 122 \cup {95}

\* The digits behind #x, #X, #b and #B.
Based == [c \in {88, 120, 66, 98} |-> IF c \in {88, 120} THEN "integer_hex" ELSE "integer_bin"]
DigitsOf == [integer_hex |-> HexDigits, integer_bin |-> BinDigits]
-----------------------------------------------------------------------------
VARIABLES
  source,
  lexer,       \* its pos, line and col
  tokens,      \* what lexer_next returned
  values,      \* what the literals among them were compiled to
  names,       \* the strings of the program, by id
  written,     \* history: the literals that the source was written from
  lex_status   \* "lost" once a conversion has run past its literal

lexVars == <<source, lexer, tokens, values, names, written, lex_status>>

\* What is written has a space behind each literal.
Spelled(literals) ==
  LET text[n \in 0 .. Len(literals)] ==
        IF n = 0 THEN <<>> ELSE text[n - 1] \o literals[n].spelling \o <<Space>>
  IN  text[Len(literals)]

LexInit ==
  /\ \/ written = <<>> /\ source \in Scraps
     \/ written \in BoundedSeq(Literals, MaxLiterals) /\ source = Spelled(written)
  /\ lexer = [pos |-> 0, line |-> 1, col |-> 1]
  /\ tokens = <<>> /\ values = <<>> /\ names = <<>>
  /\ lex_status = "open"

\* The character at a position, and the terminator behind the last one.
Char(n) == IF n < Len(source) THEN source[n + 1] ELSE NUL

CurrChar == Char(lexer.pos)
lexer_done == lexer.pos >= Len(source)

\* Mutant: the column goes on over the end of a line.
Consumed_NoReset(to) ==
  [pos |-> to, col |-> lexer.col + to - lexer.pos,
   line |-> lexer.line + Cardinality({n \in lexer.pos .. to - 1 : Char(n) = Newline})]

\* The lexer after lexer_consume of each character before `to`.
Consumed(to) ==
  LET newlines == {n \in lexer.pos .. to - 1 : Char(n) = Newline}
  IN  [pos |-> to,
       line |-> lexer.line + Cardinality(newlines),
       col |-> IF newlines = {} THEN lexer.col + to - lexer.pos ELSE to - Max(newlines)]

\* A token of so many characters that begins where the lexer was at `begin`.
Return(begin, length, tag, to) ==
  /\ tokens' = Append(tokens, [begin |-> begin.pos, length |-> length,
                               line |-> begin.line, col |-> begin.col, tag |-> tag])
  /\ lexer' = Consumed(to)
  /\ UNCHANGED <<source, values, names, written, lex_status>>

ReturnUpTo(end, tag) == Return(lexer, end - lexer.pos, tag, end)

\* Where the characters of a class end.
RunEnd(class, from) == Min({n \in from .. Len(source) : Char(n) \notin class})

Text(begin, end) == SubSeq(source, begin + 1, end)
-----------------------------------------------------------------------------
(***************************************************************************)
(* The functions that lexer_next chooses from by the next characters.      *)
(***************************************************************************)
lexer_lex_single == CurrChar \in Singles /\ ReturnUpTo(lexer.pos + 1, "single")

lexer_lex_space == CurrChar \in Spaces /\ ReturnUpTo(RunEnd(Spaces, lexer.pos), "spaces")

\* What is between a delimiter and the next one, or the end of the source; there
\* the length is one short, as if a delimiter had been consumed.
DelimitedEnd(delim) ==
  Min({n \in lexer.pos + 1 .. Len(source) : n = Len(source) \/ Char(n) = delim})

ReturnDelimited(tag) ==
  LET end == DelimitedEnd(CurrChar)
      to == IF end < Len(source) THEN end + 1 ELSE end
  IN  Return(Consumed(lexer.pos + 1), to - lexer.pos - 2, tag, to)

lexer_lex_between ==
  /\ CurrChar = Backquote
  /\ ReturnDelimited(IF DelimitedEnd(Backquote) < Len(source) THEN "comment" ELSE "unknown")

ShortEscapes == [c \in {118, 114, 116, 110} |->
                   CASE c = 118 -> 11 [] c = 114 -> 13 [] c = 116 -> 9 [] c = 110 -> Newline]

\* Mutant: one digit is enough.
lexer_lex_escape_seq_OneDigit(n) ==
  \/ Char(n + 1) \in DOMAIN ShortEscapes
  \/ Char(n + 1) = 120 /\ Char(n + 2) \in DecDigits

\* Both digits are decimal, although compiler.c reads them as hexadecimal.
lexer_lex_escape_seq(n) ==
  \/ Char(n + 1) \in DOMAIN ShortEscapes
  \/ Char(n + 1) = 120 /\ Char(n + 2) \in DecDigits /\ Char(n + 3) \in DecDigits

\* A string is closed by the next quote: no escape sequence consumes one.
\* Without a quote it ends with the source, and is a string all the same.
lexer_lex_escaped_str ==
  /\ CurrChar = Quote
  /\ LET backslashes == {n \in lexer.pos + 1 .. DelimitedEnd(Quote) - 1 : Char(n) = Backslash} IN
     ReturnDelimited(IF \E n \in backslashes : ~ lexer_lex_escape_seq(n) THEN "unknown"
                     ELSE IF backslashes = {} THEN "string" ELSE "escaped_str")

\* '-' belongs to a number that follows at once.
StartsNumber == CurrChar \in Numeric \/ (CurrChar = Minus /\ Char(lexer.pos + 1) \in Numeric)

lexer_lex_numeric ==
  /\ StartsNumber
  /\ LET points(n) == {k \in lexer.pos .. n - 1 : Char(k) = Point}
         end == Min({n \in lexer.pos + 1 .. Len(source) :
                       Char(n) \notin Numeric \/ (Char(n) = Point /\ points(n) # {})})
     IN  ReturnUpTo(end, IF points(end) = {} THEN "integer" ELSE "real")

\* The prefix is no part of the lexeme.  '#' before anything else is an unknown
\* token of two characters, of which one is consumed.
lexer_lex_based_int ==
  /\ CurrChar = Hash
  /\ LET base == Char(lexer.pos + 1)
         begin == lexer.pos + 2
     IN  IF base \notin DOMAIN Based
         THEN Return(lexer, 2, "unknown", lexer.pos + 1)
         ELSE LET end == RunEnd(DigitsOf[Based[base]], begin)
              IN  Return(Consumed(begin), end - begin, Based[base], end)

lexer_lex_operator ==
  /\ CurrChar \in OpSymbols /\ ~ StartsNumber
  /\ LET end == RunEnd(OpSymbols, lexer.pos)
     IN  ReturnUpTo(end, IF Text(lexer.pos, end) \in Specials THEN "special" ELSE "unknown")

lexer_lex_word ==
  /\ CurrChar \in WordSymbols
  /\ LET end == RunEnd(WordSymbols, lexer.pos)
     IN  ReturnUpTo(end, IF Text(lexer.pos, end) \in Specials THEN "special" ELSE "identifier")

lex_unknown ==
  /\ CurrChar \notin UNION {Singles, Spaces, OpSymbols, Numeric, WordSymbols, {Backquote, Quote, Hash}}
  /\ ReturnUpTo(lexer.pos + 1, "unknown")

lexer_next ==
  \/ lexer_lex_single \/ lexer_lex_space \/ lexer_lex_between \/ lexer_lex_escaped_str
  \/ lexer_lex_numeric \/ lexer_lex_based_int \/ lexer_lex_operator \/ lexer_lex_word
  \/ lex_unknown
-----------------------------------------------------------------------------
(***************************************************************************)
(* The values of literals.  Both operands are a token, `end` the position  *)
(* behind it.                                                              *)
(***************************************************************************)
Positions(token) == token.begin .. token.begin + token.length - 1
End(token) == token.begin + token.length
IsSigned(token) == IF Char(token.begin) = Minus THEN 1 ELSE 0

Wrapped(n) == ((n + 2 ^ (IntWidth - 1)) % 2 ^ IntWidth) - 2 ^ (IntWidth - 1)

Signed(token, n) == IF IsSigned(token) = 1 THEN -n ELSE n

\* A longer lexeme is 0.
charspan_atoi(token) ==
  IF token.length > IntLexeme THEN 0
  ELSE Signed(token, MapThenSumSet(LAMBDA n : (Char(n) - 48) * 10 ^ (End(token) - 1 - n),
                                   {n \in Positions(token) : Char(n) # Minus}))

decode_hex(c) == IF c \in DecDigits THEN c - 48 ELSE IF c \in HexDigits THEN c - 55 ELSE 0

\* parse_base_hex and parse_base_bin.
parse_base(token, base) ==
  Wrapped(MapThenSumSet(LAMBDA n : decode_hex(Char(n)) * base ^ (End(token) - 1 - n), Positions(token)))

\* The weight of the first digit is sought from the second character on, so that a
\* number that begins with its point has one that is too large.
charspan_atof(token) ==
  LET first == token.begin + IsSigned(token)
      stop == Min({n \in first .. End(token) : n = End(token) \/ Char(n + 1) = Point})
      digits == {n \in first .. End(token) - 1 : Char(n) # Point}
      weight(n) == stop - first - Cardinality({k \in digits : k < n})
  IN  Signed(token, MapThenSumSet(LAMBDA n : (Char(n) - 48) * 10 ^ (weight(n) + Decimals), digits))

\* What is at a position of a string, and where the next such thing is.
EscapeEnd(n) == IF Char(n + 1) \in DOMAIN ShortEscapes THEN n + 2 ELSE n + 4
ItemEnd(n) == IF Char(n) = Backslash THEN EscapeEnd(n) ELSE n + 1

\* Mutant: the digits that the lexer takes for decimal are read as such.
ItemCode_Decimal(n) ==
  IF Char(n) # Backslash THEN Char(n)
  ELSE IF Char(n + 1) \in DOMAIN ShortEscapes THEN ShortEscapes[Char(n + 1)]
  ELSE 10 * decode_hex(Char(n + 2)) + decode_hex(Char(n + 3))

ItemCode(n) ==
  IF Char(n) # Backslash THEN Char(n)
  ELSE IF Char(n + 1) \in DOMAIN ShortEscapes THEN ShortEscapes[Char(n + 1)]
  ELSE 16 * decode_hex(Char(n + 2)) + decode_hex(Char(n + 3))

\* Where the loop of compiler_record_escaped_string is after each turn; at the end of
\* the text, or past it, it is done.
ItemAt(token) ==
  LET at[turn \in 0 .. token.length] ==
        IF turn = 0 THEN token.begin
        ELSE LET last == at[turn - 1] IN IF last < End(token) THEN ItemEnd(last) ELSE last
  IN  at

Turns(token) == Min({turn \in 0 .. token.length : ItemAt(token)[turn] >= End(token)})

\* A text that begins behind its end is not left where it should be.
Escaped(token) == token.length >= 0 /\ ItemAt(token)[Turns(token)] = End(token)

\* A string is sought by its spelling among the names, which are what strings
\* were converted to.  The loop compares with the end for equality only: past it,
\* it goes on through memory.
compiler_record_escaped_string(token) ==
  LET known == {id \in DOMAIN names : token.length >= 0 /\ names[id] = Text(token.begin, End(token))}
      id == IF known = {} THEN Len(names) + 1 ELSE Min(known)
  IN  IF known = {} /\ ~ Escaped(token)
      THEN lex_status' = "lost" /\ UNCHANGED <<values, names>>
      ELSE /\ names' = IF known = {}
                       THEN Append(names, [i \in 1 .. Turns(token) |-> ItemCode(ItemAt(token)[i - 1])])
                       ELSE names
           /\ values' = Append(values, [domain |-> "string", data |-> id])
           /\ UNCHANGED lex_status

StringTags == {"string", "escaped_str"}
LiteralTags == {"integer", "integer_hex", "integer_bin", "real"} \cup StringTags

LiteralsIn == {i \in DOMAIN tokens : tokens[i].tag \in LiteralTags}
LiteralWaits == Len(values) < Cardinality(LiteralsIn)

NumberOf(token) ==
  CASE token.tag = "integer" -> [domain |-> "int", data |-> charspan_atoi(token)]
    [] token.tag = "integer_hex" -> [domain |-> "int", data |-> parse_base(token, 16)]
    [] token.tag = "integer_bin" -> [domain |-> "int", data |-> parse_base(token, 2)]
    [] token.tag = "real" -> [domain |-> "real", data |-> charspan_atof(token)]

\* The literals so far, in the order of `values`.
LiteralTokens == SelectSeq(tokens, LAMBDA token : token.tag \in LiteralTags)

Lexeme(token) == Text(token.begin, End(token))

SameNumeral(token, other) ==
  token.tag \notin StringTags /\ other.tag \notin StringTags /\ Lexeme(token) = Lexeme(other)

\* Mutant: the lexemes are compared without their lengths.
compiler_record_constant_Prefix(token) ==
  LET known == {n \in DOMAIN values :
                  /\ LiteralTokens[n].tag \notin StringTags
                  /\ IsPrefix(Lexeme(token), Lexeme(LiteralTokens[n]))}
  IN  IF known = {} THEN NumberOf(token) ELSE values[Min(known)]

\* A numeral is sought by its lexeme, which lacks the prefix of its base, among those
\* that the scope has; a source of literals is one scope.
compiler_record_constant(token) ==
  LET known == {n \in DOMAIN values : SameNumeral(LiteralTokens[n], token)}
  IN  IF known = {} THEN NumberOf(token) ELSE values[Min(known)]

compiler_do_literal ==
  /\ LET token == Last(tokens) IN
     IF token.tag \in StringTags
     THEN compiler_record_escaped_string(token)
     ELSE /\ values' = Append(values, compiler_record_constant(token))
          /\ UNCHANGED <<names, lex_status>>
  /\ UNCHANGED <<source, lexer, tokens, written>>

LexNext ==
  /\ lex_status = "open"
  /\ \/ LiteralWaits /\ compiler_do_literal
     \/ ~ LiteralWaits /\ ~ lexer_done /\ lexer_next

LexSpec == LexInit /\ [][LexNext]_lexVars
-----------------------------------------------------------------------------
(***************************************************************************)
(* Properties.                                                             *)
(***************************************************************************)
\* Each token knows the line and column of its first character.
Located(token) ==
  LET newlines == {n \in 0 .. token.begin - 1 : Char(n) = Newline}
  IN  /\ token.line = 1 + Cardinality(newlines)
      /\ token.col = token.begin - (IF newlines = {} THEN -1 ELSE Max(newlines))

\* What was consumed and is in no token: delimiters, prefixes of integers, and the
\* last character of a string or comment that is not closed.
LeftOut(n) ==
  \/ Char(n) \in {Quote, Backquote, Hash}
  \/ n > 0 /\ Char(n - 1) = Hash /\ Char(n) \in DOMAIN Based
  \/ n = Len(source) - 1 /\ Last(tokens).tag \in {"unknown", "string", "escaped_str"}

\* Nothing of the source is read twice or lost, whatever it looks like, and a message
\* about a token names the right place (lexer_next; an unknown token, which ends
\* compiling, may overlap the next one).
SourceCovered ==
  /\ \A i \in DOMAIN tokens : Located(tokens[i])
  /\ \A i, j \in DOMAIN tokens :
       i < j /\ tokens[i].tag # "unknown" => End(tokens[i]) <= tokens[j].begin
  /\ \A n \in 0 .. lexer.pos - 1 :
       LeftOut(n) \/ \E i \in DOMAIN tokens : n \in Positions(tokens[i])

Closed(token) == token.length >= 0 /\ Char(End(token)) = Quote

\* compiler_record_escaped_string checks nothing, for the lexer has done it: of a
\* string that is closed it reads each character once and stops at the quote.  Of one
\* that the source ends in, it may not (lex.c:158 leaves out its last character).
ConversionsStayInside == lex_status = "lost" => ~ Closed(Last(tokens))

Meant(value) == [value EXCEPT !.data = IF value.domain = "string" THEN names[@] ELSE @]

\* #x10 behind 10 or #b10 is one lexeme with two meanings.
TakenFor(n, k) ==
  k < n /\ SameNumeral(LiteralTokens[k], LiteralTokens[n]) /\ Meant(values[n]) = written[k].means

\* Literals mean what they spell, except that a numeral is taken for one before it
\* that has the same lexeme (compiler.c:310).  Strings do also when their spelling, or
\* their text in another spelling, occurred before: what is found among the names by
\* a spelling has that text, for no name has a backslash (compiler_do_literal).
LiteralsAsWritten ==
  written # <<>> /\ lexer_done /\ ~ LiteralWaits =>
    /\ lex_status = "open" /\ Len(values) = Len(written)
    /\ \A n \in DOMAIN written :
         Meant(values[n]) = written[n].means \/ \E k \in DOMAIN written : TakenFor(n, k)
=============================================================================
