------------------------------ MODULE MCScopes ------------------------------
(***************************************************************************)
(* Sources over two names, with literals that are spelled alike.  All      *)
(* statements together are too many sources: each is of one family.        *)
(***************************************************************************)
EXTENDS Scopes

CONSTANTS x, y, Families

VARIABLE family

MCNames == {x, y}

\* 10 and #x10: the lexer drops the prefix.  "\x41" and "A".
Ten == [lexeme |-> "10", value |-> 10]
MCNumerals == {Ten, [lexeme |-> "10", value |-> 16]}
MCTexts == {[lexeme |-> "escaped A", text |-> "A"], [lexeme |-> "A", text |-> "A"]}

\* The C functions a family enters, how many names a header has, and the
\* number of statements, functions and lambdas.
AllFamilies ==
  { [name |-> "headers", header |-> 2, parts |-> 4,
     frames |-> {"do_expr_stmt", "do_binding", "do_lambda"}],
    [name |-> "nesting", header |-> 1, parts |-> 5,
     frames |-> {"do_vars", "do_expr_stmt", "do_lambda", "do_func"}],
    [name |-> "loops", header |-> 0, parts |-> 5,
     frames |-> {"do_vars", "do_expr_stmt", "do_while", "do_for", "do_lambda"}],
    [name |-> "literals", header |-> 0, parts |-> 4,
     frames |-> {"do_expr_stmt", "do_lambda", "do_func"}] }

InFamily ==
  /\ \A k \in DOMAIN frames :
       frames[k].fn \in family.frames \cup {"do_source"}
  /\ family.name # "literals" => strings = <<>> /\ (Last(Code).op = "put_k" => Last(Code).for = Ten)
  /\ \A c \in DOMAIN chunks : Len(chunks[c].params \o chunks[c].captures) <= family.header
  /\ parts <= family.parts

\* Names are read by statements of their own, and no other expression is one.
Reading == family.header > 0 /\ In("do_expr_stmt", "value") /\ TopFrame.dest = "none"
ReadsApart == IF Reading THEN ~ integer_literal ELSE ~ name_operand

MCInit == Init /\ family \in Families
MCNext == Next /\ UNCHANGED family /\ InFamily' /\ ReadsApart
MCSpec == MCInit /\ [][MCNext]_<<vars, family>>

Swaps == Permutations(MCNames)
=============================================================================
