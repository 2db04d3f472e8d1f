------------------------------- MODULE Scopes -------------------------------
(***************************************************************************)
(* What the compiler keeps about names (src/src/compile_utils.c and the    *)
(* compiler_record_*, _resolve_name, _do_* functions of                    *)
(* src/src/compiler.c) while it reads a source: symbol tables, slots of    *)
(* locals, captures of lambdas, constants, strings, and the jumps of loops *)
(* that wait for their targets.                                            *)
(*                                                                         *)
(* The source is written while it is compiled: each action chooses what    *)
(* comes next.  Expressions are single operands, names that are too many   *)
(* for a header are cut off, and there are no syntax errors.  Constructs   *)
(* that touch neither names nor loops are left out.                        *)
(***************************************************************************)
EXTENDS Integers, FiniteSets, SequencesExt

CONSTANTS
  Names,               \* identifiers
  Numerals,            \* integer literals: [lexeme, value]
  Texts,               \* string literals: [lexeme, text]
  DEFAULT_SYMBOL_COUNT,
  HeaderNames,         \* bounds the parameters and captures of a function
  MaxParts,            \* bounds the statements, functions and lambdas
  MaxScopes            \* bounds the nesting; below ANYVEC_DEFAULT_SIZE no
                       \* pointer to a scope or to a loop is left dangling

ASSUME CountAssumption == DEFAULT_SYMBOL_COUNT \in Nat \ {0, 1}

\* A spelling that is the text of a string is its own text too: it has no backslash,
\* for the lexer lets none get into a text (lex.c:117, Lexer).
ASSUME SpellingAssumption ==
  \A literal, other \in Texts : literal.lexeme = other.text => literal.text = literal.lexeme

VARIABLES
  chunks,     \* the code, with constants, parameters and captures
  chunk_idx,  \* the chunk that code is emitted to; chunks[1] is main
  globals,    \* the infos of functions and strings
  strings,    \* pg.strings
  locals,     \* the stack of symbol tables, one for each open function
  loops,      \* the stack of active loops
  saved_info, \* the name before `:=`
  frames,     \* the C stack: the compiler_do_* calls in progress
  status,     \* "parsing" | "done" | "dead" (a reported error) | "crashed"
  parts       \* history: statements, functions and lambdas begun

programVars == <<chunks, chunk_idx, strings>>
scopeVars == <<globals, locals, loops, saved_info>>
parseVars == <<frames, status, parts>>
vars == <<programVars, scopeVars, parseVars>>
-----------------------------------------------------------------------------
(***************************************************************************)
(* Symbol tables.                                                          *)
(***************************************************************************)
NoInfo == [name |-> "none", id |-> -1, domain |-> "none"]
make_symbol_info(name, id, domain) == [name |-> name, id |-> id, domain |-> domain]

make_symbol_table ==
  [infos |-> <<>>, capacity |-> DEFAULT_SYMBOL_COUNT, local_argc |-> 0, next_local_id |-> 0]

\* The first entry of a name in a domain.
SymbolTable_find(infos, name, domain) ==
  LET found == {i \in DOMAIN infos : infos[i].name = name /\ infos[i].domain = domain}
  IN IF found = {} THEN NoInfo ELSE infos[Min(found)]

Knows(infos, name, domain) == SymbolTable_find(infos, name, domain) # NoInfo

SymbolTable_push(scope, info) ==
  [scope EXCEPT !.infos = Append(@, info),
                !.capacity = IF Len(scope.infos) >= @ THEN (@ * 3) \div 2 ELSE @]

compiler_record_local(scope, name) ==
  IF Knows(scope.infos, name, "local") THEN scope
  ELSE SymbolTable_push([scope EXCEPT !.next_local_id = @ + 1],
                        make_symbol_info(name, scope.next_local_id + 1, "local"))

SlotOf(scope, name) == SymbolTable_find(scope.infos, name, "local").id

\* Mutant: numbered by the entries of the table.
compiler_record_capture_Entries(scope, name, curr_captures_n) ==
  SymbolTable_push(scope, make_symbol_info(name, Len(scope.infos), "upval"))

\* A lambda's captures are numbered in the order of its USES clause.
compiler_record_capture(scope, name, curr_captures_n) ==
  SymbolTable_push(scope, make_symbol_info(name, curr_captures_n, "upval"))

\* The names of a list, one after the other.
WithLocals(scope, names) ==
  LET after[n \in 0 .. Len(names)] ==
        IF n = 0 THEN scope ELSE compiler_record_local(after[n - 1], names[n])
  IN after[Len(names)]

WithCaptures(scope, captures) ==
  LET after[n \in 0 .. Len(captures)] ==
        IF n = 0 THEN scope ELSE compiler_record_capture(after[n - 1], captures[n], n - 1)
  IN after[Len(captures)]

ScopeOf(params) == [WithLocals(make_symbol_table, params) EXCEPT !.local_argc = Len(params)]
ScopeWith(params, captures) == WithCaptures(ScopeOf(params), captures)

CurrScope == Last(locals)

compiler_resolve_name(name) ==
  IF Knows(globals, name, "func") THEN SymbolTable_find(globals, name, "func")
  ELSE IF Knows(CurrScope.infos, name, "local") THEN SymbolTable_find(CurrScope.infos, name, "local")
  ELSE SymbolTable_find(CurrScope.infos, name, "upval")

\* The current scope is replaced by one with more entries.
UpdateScope(scope) == locals' = [locals EXCEPT ![Len(locals)] = scope]
-----------------------------------------------------------------------------
(***************************************************************************)
(* Code.  `for` and `info` are history: what in the source an instruction  *)
(* is for, and whether what the compiler knows of it is still "good", or   *)
(* read through a pointer into a table that has "moved", or "overwritten"  *)
(* in saved_info by that of another name.                                  *)
(***************************************************************************)
Inst(op, flag, wide, for) == [op |-> op, flag |-> flag, wide |-> wide, for |-> for, info |-> "good"]
Plain(op, flag, wide) == Inst(op, flag, wide, "none")

NewChunk(params, captures) ==
  [code |-> <<Plain("reserve", 0, 0)>>, constants |-> <<>>, params |-> params, captures |-> captures]

Code == chunks[chunk_idx].code
Here == Len(Code)   \* the position of the next instruction

Emit(insts) == chunks' = [chunks EXCEPT ![chunk_idx].code = @ \o insts]

\* The end of a function: RET and the size for RESERVE.
Closed(code, scope) ==
  Append([code EXCEPT ![1].wide = scope.next_local_id - scope.local_argc], Plain("ret", "last", 0))
-----------------------------------------------------------------------------
(***************************************************************************)
(* The parser.  The top frame is at an expression ("value"), behind it     *)
(* ("then"), at the first ("block") or a later statement of its body       *)
(* ("body"), or at the update of a FOR.                                    *)
(***************************************************************************)
Frame(fn, at) == [fn |-> fn, at |-> at]
TopFrame == Last(frames)
At(place) == status = "parsing" /\ TopFrame.at = place
In(fn, place) == At(place) /\ TopFrame.fn = fn
ReturnFrame == frames' = Front(frames)
GoTo(place) == frames' = [frames EXCEPT ![Len(frames)].at = place]

NewPart == parts < MaxParts /\ parts' = parts + 1

AtStatement == At("block") \/ At("body")

\* Where the function on top is once its next statement is compiled.
Past == [frames EXCEPT ![Len(frames)].at = IF @ = "update" THEN "updated" ELSE "body"]

\* A statement begins with the frame of its function.
Begin(frame) == NewPart /\ frames' = Append(Past, frame)

\* END: a body without statements is a NOP.
AtEnd(fn) == AtStatement /\ TopFrame.fn = fn
BodyCode == IF At("block") THEN Append(Code, Plain("nop", 0, 0)) ELSE Code

Fail(outcome) == status' = outcome /\ UNCHANGED <<programVars, scopeVars, frames>>

Init ==
  /\ chunks = <<NewChunk(<<>>, <<>>)>> /\ chunk_idx = 1
  /\ globals = <<>> /\ strings = <<>>
  /\ locals = <<make_symbol_table>> /\ loops = <<>> /\ saved_info = NoInfo
  /\ frames = <<Frame("do_source", "body")>> /\ status = "parsing" /\ parts = 0
-----------------------------------------------------------------------------
(***************************************************************************)
(* Operands: integers, strings, names and lambdas.                         *)
(***************************************************************************)
\* Mutant: the id is taken after the value was added.
compiler_record_constant_Late(scope, constants, literal) ==
  IF Knows(scope.infos, literal.lexeme, "constant") THEN scope
  ELSE SymbolTable_push(scope, make_symbol_info(literal.lexeme, Len(constants) + 1, "constant"))

compiler_record_constant(scope, constants, literal) ==
  IF Knows(scope.infos, literal.lexeme, "constant") THEN scope
  ELSE SymbolTable_push(scope, make_symbol_info(literal.lexeme, Len(constants), "constant"))

integer_literal ==
  /\ At("value")
  /\ \E literal \in Numerals :
       LET constants == chunks[chunk_idx].constants
           scope == compiler_record_constant(CurrScope, constants, literal)
           info == SymbolTable_find(scope.infos, literal.lexeme, "constant")
       IN /\ UpdateScope(scope)
          /\ chunks' = [chunks EXCEPT
               ![chunk_idx].constants = IF scope = CurrScope THEN @ ELSE Append(@, literal.value),
               ![chunk_idx].code = Append(@, Inst("put_k", 0, info.id, literal))]
  /\ GoTo("then")
  /\ UNCHANGED <<chunk_idx, strings, globals, loops, saved_info, status, parts>>

\* A string is looked up as it is spelled and filed as what it spells.
compiler_record_escaped_string(infos, literal) ==
  IF Knows(infos, literal.lexeme, "string") THEN SymbolTable_find(infos, literal.lexeme, "string")
  ELSE make_symbol_info(literal.text, Len(strings), "string")

string_literal ==
  /\ At("value")
  /\ \E literal \in Texts :
       LET info == compiler_record_escaped_string(globals, literal)
           known == Knows(globals, literal.lexeme, "string")
       IN /\ strings' = IF known THEN strings ELSE Append(strings, literal.text)
          /\ globals' = IF known THEN globals ELSE Append(globals, info)
          /\ Emit(<<Inst("load_string_k", 0, info.id, literal)>>)
  /\ GoTo("then")
  /\ UNCHANGED <<chunk_idx, locals, loops, saved_info, status, parts>>

LoadOf == [local |-> "load_local", func |-> "load_imm_gid", upval |-> "get_upv"]

name_operand ==
  /\ At("value")
  /\ \E name \in Names :
       LET info == compiler_resolve_name(name)
       IN IF info = NoInfo THEN Fail("dead") /\ UNCHANGED parts
          ELSE /\ Emit(<<Inst(LoadOf[info.domain], 0, info.id, name)>>)
               /\ GoTo("then")
               /\ UNCHANGED <<chunk_idx, strings, scopeVars, status, parts>>

NameLists == UNION {[1 .. n -> Names] : n \in 0 .. HeaderNames}

\* Captures are locals of the function around, and no parameters.
MayCapture(params, captures) ==
  \A k \in DOMAIN captures :
    /\ ~ Contains(params, captures[k])
    /\ Knows(CurrScope.infos, captures[k], "local")

compiler_do_lambda ==
  /\ At("value") /\ Len(locals) < MaxScopes /\ NewPart
  /\ \E params, captures \in NameLists :
       /\ Len(params) + Len(captures) <= HeaderNames
       /\ IF ~ MayCapture(params, captures) THEN Fail("dead")
          ELSE /\ locals' = Append(locals, ScopeWith(params, captures))
               /\ chunks' = Append(chunks, NewChunk(params, captures))
               /\ chunk_idx' = Len(chunks) + 1
               /\ frames' = Append([frames EXCEPT ![Len(frames)].at = "then"],
                    [fn |-> "do_lambda", at |-> "block", old_chunk_idx |-> chunk_idx,
                     used_local_ids |-> [k \in DOMAIN captures |-> SlotOf(CurrScope, captures[k])]])
               /\ UNCHANGED <<globals, strings, loops, saved_info, status>>

\* The closure is made where the lambda stands.
Capture(used, captures) ==
  [k \in DOMAIN used |-> Inst("load_local", 0, used[k], captures[k])]

end_lambda ==
  /\ AtEnd("do_lambda")
  /\ LET captures == chunks[chunk_idx].captures
         used == TopFrame.used_local_ids
         making == IF used = <<>> THEN <<>>
                   ELSE Append(Capture(used, captures), Plain("mk_closure", 0, Len(used)))
     IN chunks' = [chunks EXCEPT
          ![chunk_idx].code = Closed(BodyCode, CurrScope),
          ![TopFrame.old_chunk_idx].code = @ \o <<Plain("load_imm_gid", 0, chunk_idx)>> \o making]
  /\ chunk_idx' = TopFrame.old_chunk_idx
  /\ locals' = Front(locals)
  /\ ReturnFrame
  /\ UNCHANGED <<strings, globals, loops, saved_info, status, parts>>
-----------------------------------------------------------------------------
(***************************************************************************)
(* Declarations and assignments.  A pointer into infos is good while the   *)
(* table has not grown; what is read through it afterwards may be anything.*)
(***************************************************************************)
Moved == CurrScope.capacity # TopFrame.capacity
IdThrough(pointer_id) == IF Moved THEN {pointer_id, 0} ELSE {pointer_id}

StoreThrough(pointer_id, name) ==
  \E id \in IdThrough(pointer_id) :
    Emit(<<[Inst("store_local", 0, id, name) EXCEPT !.info = IF Moved THEN "moved" ELSE @]>>)

compiler_do_vars ==
  /\ AtStatement
  /\ \E name \in Names :
       LET scope == compiler_record_local(CurrScope, name)
       IN /\ UpdateScope(scope)
          /\ Begin([fn |-> "do_vars", at |-> "value", name |-> name, id |-> SlotOf(scope, name),
                    capacity |-> scope.capacity])
  /\ UNCHANGED <<programVars, globals, loops, saved_info, status>>

end_vars ==
  /\ In("do_vars", "then")
  /\ StoreThrough(TopFrame.id, TopFrame.name)
  /\ ReturnFrame
  /\ UNCHANGED <<chunk_idx, strings, scopeVars, status, parts>>

\* The left side of an assignment.
compiler_do_assignment ==
  /\ AtStatement \/ At("update")
  /\ \E name \in Names :
       LET info == compiler_resolve_name(name)
       IN IF info = NoInfo THEN Fail("dead") /\ NewPart
          ELSE /\ saved_info' = IF info.domain = "func" THEN saved_info ELSE info
               /\ Begin([fn |-> "do_expr_stmt", at |-> "value", dest |-> info.domain, info |-> info])
               /\ UNCHANGED <<programVars, globals, locals, loops, status>>

compiler_do_expr_stmt ==
  /\ AtStatement \/ At("update")
  /\ Begin([fn |-> "do_expr_stmt", at |-> "value", dest |-> "none", info |-> NoInfo])
  /\ UNCHANGED <<programVars, scopeVars, status>>

StoreOf == [local |-> "store_local", upval |-> "set_upv"]

end_expr_stmt ==
  /\ In("do_expr_stmt", "then")
  /\ IF TopFrame.dest = "func" THEN Fail("dead")
     ELSE /\ IF TopFrame.dest = "none" THEN UNCHANGED chunks
             ELSE Emit(<<[Inst(StoreOf[TopFrame.dest], 0, saved_info.id, TopFrame.info.name)
                            EXCEPT !.info = IF saved_info = TopFrame.info THEN @ ELSE "overwritten"]>>)
          /\ ReturnFrame
          /\ UNCHANGED <<chunk_idx, strings, scopeVars, status>>
  /\ UNCHANGED parts

compiler_do_binding ==
  /\ AtStatement
  /\ Begin(Frame("do_binding", "value"))
  /\ UNCHANGED <<programVars, scopeVars, status>>

end_binding ==
  /\ In("do_binding", "then")
  /\ \E names \in NameLists :
       LET scope == WithLocals(CurrScope, names)
       IN /\ UpdateScope(scope)
          /\ Emit(Append([k \in DOMAIN names |->
                            Inst("bind_lstmp", k - 1, SlotOf(scope, names[k]), names[k])],
                         Plain("pop", 1, 0)))
  /\ ReturnFrame
  /\ UNCHANGED <<chunk_idx, strings, globals, loops, saved_info, status, parts>>
-----------------------------------------------------------------------------
(***************************************************************************)
(* Loops.  A loop is known by where its code begins.  The jumps of BREAK   *)
(* and CONTINUE wait in the innermost active loop.                         *)
(***************************************************************************)
NoJumps == [loop_breaks |-> {}, loop_continues |-> {}]
compiler_enter_loop == loops' = Append(loops, NoJumps)
compiler_leave_loop == loops' = Front(loops)

Jump(op, role, loop) == Inst(op, 0, 0, [role |-> role, loop |-> loop])

\* Mutant: the jump of a CONTINUE stays a forward jump.
Patched_Forward(code, loop, exit, again) ==
  [i \in DOMAIN code |->
    LET pos == i - 1
    IN IF pos \in loop.loop_continues THEN [code[i] EXCEPT !.wide = pos - again]
       ELSE IF pos \in loop.loop_breaks THEN [code[i] EXCEPT !.wide = exit - pos]
       ELSE code[i]]

\* The jumps of the loop, in whatever chunk is being compiled at its end.
Patched(code, loop, exit, again) ==
  [i \in DOMAIN code |->
    LET pos == i - 1
    IN IF pos \in loop.loop_continues THEN [code[i] EXCEPT !.wide = pos - again, !.flag = 1]
       ELSE IF pos \in loop.loop_breaks THEN [code[i] EXCEPT !.wide = exit - pos]
       ELSE code[i]]

compiler_do_while ==
  /\ AtStatement
  /\ Begin([fn |-> "do_while", at |-> "value", check |-> Here, out |-> 0,
            loop |-> [chunk |-> chunk_idx, begin |-> Here]])
  /\ compiler_enter_loop
  /\ UNCHANGED <<programVars, globals, locals, saved_info, status>>

while_condition ==
  /\ In("do_while", "then")
  /\ Emit(<<Jump("jmp_false", "out", TopFrame.loop)>>)
  /\ frames' = [frames EXCEPT ![Len(frames)].at = "block", ![Len(frames)].out = Here]
  /\ UNCHANGED <<chunk_idx, strings, scopeVars, status, parts>>

end_while ==
  /\ AtEnd("do_while")
  /\ LET end == Len(BodyCode)
         exit == end + 1
         back == [Jump("jmp", "again", TopFrame.loop) EXCEPT !.flag = 1, !.wide = end - TopFrame.check]
         code == [Append(BodyCode, back) EXCEPT ![TopFrame.out + 1].wide = exit - TopFrame.out]
     IN chunks' = [chunks EXCEPT ![chunk_idx].code = Patched(code, Last(loops), exit, TopFrame.check)]
  /\ compiler_leave_loop
  /\ ReturnFrame
  /\ UNCHANGED <<chunk_idx, strings, globals, locals, saved_info, status, parts>>

\* The counter is looked up first and its entry is used behind its initial
\* value: a counter that is not declared has none.
compiler_do_for ==
  /\ AtStatement
  /\ \E name \in Names :
       Begin([fn |-> "do_for", at |-> "value", part |-> "counter", info |-> compiler_resolve_name(name),
              capacity |-> CurrScope.capacity, begin |-> 0, out |-> 0,
              loop |-> [chunk |-> chunk_idx, begin |-> Here]])
  /\ compiler_enter_loop
  /\ UNCHANGED <<programVars, globals, locals, saved_info, status>>

for_counter ==
  /\ In("do_for", "then") /\ TopFrame.part = "counter"
  /\ CASE TopFrame.info = NoInfo -> Fail("crashed")
       [] TopFrame.info.domain \in {"func", "upval"} -> Fail("dead")
       [] OTHER ->
            /\ StoreThrough(TopFrame.info.id, TopFrame.info.name)
            /\ frames' = [frames EXCEPT ![Len(frames)].at = "value", ![Len(frames)].part = "condition",
                                        ![Len(frames)].begin = Here + 1]
            /\ UNCHANGED <<chunk_idx, strings, scopeVars, status>>
  /\ UNCHANGED parts

\* The condition, the jump over the update, and the NOP before the update.
for_condition ==
  /\ In("do_for", "then") /\ TopFrame.part = "condition"
  /\ Emit(<<Jump("jmp_false", "out", TopFrame.loop), Jump("jmp", "skip", TopFrame.loop), Plain("nop", 0, 0)>>)
  /\ frames' = [frames EXCEPT ![Len(frames)].at = "update", ![Len(frames)].out = Here]
  /\ UNCHANGED <<chunk_idx, strings, scopeVars, status, parts>>

for_updated ==
  /\ In("do_for", "updated")
  /\ LET skip == TopFrame.out + 1
         back == [Jump("jmp", "repeat", TopFrame.loop) EXCEPT !.flag = 1, !.wide = Here - TopFrame.begin]
     IN chunks' = [chunks EXCEPT ![chunk_idx].code =
          Append([@ EXCEPT ![skip + 1].wide = Here + 1 - skip], back)]
  /\ GoTo("block")
  /\ UNCHANGED <<chunk_idx, strings, scopeVars, status, parts>>

end_for ==
  /\ AtEnd("do_for")
  /\ LET update == TopFrame.out + 2
         end == Len(BodyCode)
         exit == end + 1
         back == [Jump("jmp", "again", TopFrame.loop) EXCEPT !.flag = 1, !.wide = end - update]
         code == [BodyCode \o <<back, Plain("nop", 0, 0)>>
                    EXCEPT ![TopFrame.out + 1].wide = exit - TopFrame.out]
     IN chunks' = [chunks EXCEPT ![chunk_idx].code = Patched(code, Last(loops), exit, update)]
  /\ compiler_leave_loop
  /\ ReturnFrame
  /\ UNCHANGED <<chunk_idx, strings, globals, locals, saved_info, status, parts>>

LoopAround == frames[Max({k \in DOMAIN frames : frames[k].fn \in {"do_while", "do_for"}})].loop

LeaveFor(role, tracked) ==
  /\ AtStatement /\ TopFrame.fn # "do_source" /\ NewPart
  /\ IF loops = <<>> THEN Fail("dead")
     ELSE /\ loops' = [loops EXCEPT ![Len(loops)] = tracked]
          /\ Emit(<<Jump("jmp", role, LoopAround)>>)
          /\ frames' = Past
          /\ UNCHANGED <<chunk_idx, strings, globals, locals, saved_info, status>>

compiler_do_break ==
  LeaveFor("break", [Last(loops) EXCEPT !.loop_breaks = @ \cup {Here}])

compiler_do_continue ==
  LeaveFor("continue", [Last(loops) EXCEPT !.loop_continues = @ \cup {Here}])
-----------------------------------------------------------------------------
(***************************************************************************)
(* Functions, which are declared at the top level only, and the end.       *)
(***************************************************************************)
compiler_record_function(name, chunk_id) ==
  globals' = IF Knows(globals, name, "func") THEN globals
             ELSE Append(globals, make_symbol_info(name, chunk_id, "func"))

compiler_do_func ==
  /\ In("do_source", "body")
  /\ \E name \in Names, params \in NameLists :
       /\ compiler_record_function(name, Len(chunks) + 1)
       /\ chunks' = Append(chunks, NewChunk(params, <<>>))
       /\ locals' = Append(locals, ScopeOf(params))
  /\ chunk_idx' = Len(chunks) + 1
  /\ Begin([fn |-> "do_func", at |-> "block", old_chunk_idx |-> 1])
  /\ UNCHANGED <<strings, loops, saved_info, status>>

end_func ==
  /\ AtEnd("do_func")
  /\ chunks' = [chunks EXCEPT ![chunk_idx].code = Closed(BodyCode, CurrScope)]
  /\ chunk_idx' = TopFrame.old_chunk_idx
  /\ locals' = Front(locals)
  /\ ReturnFrame
  /\ UNCHANGED <<strings, globals, loops, saved_info, status, parts>>

compiler_do_source ==
  /\ In("do_source", "body")
  /\ chunks' = [chunks EXCEPT ![chunk_idx].code = Closed(BodyCode, CurrScope)]
  /\ locals' = Front(locals)
  /\ status' = "done"
  /\ UNCHANGED <<chunk_idx, strings, globals, loops, saved_info, frames, parts>>

Operand == integer_literal \/ string_literal \/ name_operand \/ compiler_do_lambda \/ end_lambda

Declaration == compiler_do_vars \/ end_vars \/ compiler_do_binding \/ end_binding

ExprStmt == compiler_do_assignment \/ compiler_do_expr_stmt \/ end_expr_stmt

Loop ==
  \/ compiler_do_while \/ while_condition \/ end_while
  \/ compiler_do_for \/ for_counter \/ for_condition \/ for_updated \/ end_for
  \/ compiler_do_break \/ compiler_do_continue

Next == Operand \/ Declaration \/ ExprStmt \/ Loop \/ compiler_do_func \/ end_func \/ compiler_do_source

Spec == Init /\ [][Next]_vars
-----------------------------------------------------------------------------
(***************************************************************************)
(* Properties.                                                             *)
(***************************************************************************)
CodeOf(c) == chunks[c].code
Finished(c) == Last(CodeOf(c)).op = "ret"
IsJump(inst) == inst.op \in {"jmp", "jmp_false"}
OfSlot(inst) == inst.op \in {"load_local", "store_local", "bind_lstmp"}
OfUpval(inst) == inst.op \in {"get_upv", "set_upv"}
Good(inst) == inst.info = "good"

\* A C array, given as a sequence, has the item at an index.
Holds(array, index, item) == index + 1 \in DOMAIN array /\ array[index + 1] = item

\* A BREAK or CONTINUE in a lambda whose loop is in the function around it:
\* the compiler accepts it (compiler.c:1506) and the loop then patches an
\* instruction of its own chunk.
StrayJump ==
  \E c \in DOMAIN chunks : \E i \in DOMAIN CodeOf(c) :
    IsJump(CodeOf(c)[i]) /\ CodeOf(c)[i].for.loop.chunk # c

\* Two parameters of one name share a slot, and RESERVE counts one too few.
NamedApart(c) == IsInjective(chunks[c].params)

\* In a function, two instructions reach the same slot exactly when they are
\* for the same variable, and it is the slot of the argument for a parameter.
SlotsApart(c) ==
  LET code == CodeOf(c)
      reached == {i \in DOMAIN code : OfSlot(code[i]) /\ Good(code[i])}
  IN \A i \in reached :
       /\ \A j \in reached : code[i].wide = code[j].wide <=> code[i].for = code[j].for
       /\ \A k \in DOMAIN chunks[c].params : chunks[c].params[k] = code[i].for => code[i].wide = k

\* RESERVE makes room for each slot the function reaches.
SlotsReserved(c) ==
  LET code == CodeOf(c)
  IN Finished(c) => \A i \in DOMAIN code : OfSlot(code[i]) /\ Good(code[i]) =>
       code[i].wide \in 1 .. Len(chunks[c].params) + code[1].wide

\* A captured name is found where the closure was given its value.
CapturesMatch(c) ==
  LET code == CodeOf(c)
  IN \A i \in DOMAIN code :
       /\ OfUpval(code[i]) /\ Good(code[i]) => Holds(chunks[c].captures, code[i].wide, code[i].for)
       /\ code[i].op = "mk_closure" =>
            LET lambda == code[i - code[i].wide - 1]
            IN /\ lambda.op = "load_imm_gid"
               /\ [k \in 1 .. code[i].wide |-> code[i - code[i].wide + k - 1].for]
                    = chunks[lambda.wide].captures

\* In every function names, slots and captures belong together, for nested
\* functions, redeclared and shadowing names, and names read before a nested
\* function was compiled and used after it (compiler.c:289, 433, 1922).
VariablesKeepApart ==
  ~ StrayJump => \A c \in DOMAIN chunks :
    NamedApart(c) => SlotsApart(c) /\ SlotsReserved(c) /\ CapturesMatch(c)

\* Each literal's instruction loads what the literal stands for, unless
\* another literal of the function has its spelling and another value, such as
\* #x10 and 10 (compiler.c:310, 333, 359).
LiteralsKeepValues ==
  ~ StrayJump => \A c \in DOMAIN chunks :
    LET code == CodeOf(c)
        numerals == {i \in DOMAIN code : code[i].op = "put_k"}
    IN \A i \in DOMAIN code :
         /\ code[i].op = "load_string_k" => Holds(strings, code[i].wide, code[i].for.text)
         /\ i \in numerals =>
              \/ Holds(chunks[c].constants, code[i].wide, code[i].for.value)
              \/ \E j \in numerals : /\ code[j].for.lexeme = code[i].for.lexeme
                                     /\ code[j].for.value # code[i].for.value

Target(code, i) == IF code[i].flag = 1 THEN i - code[i].wide ELSE i + code[i].wide

\* Once a loop is closed each of its BREAKs goes where its false condition
\* goes and each CONTINUE where its last jump goes, however loops and
\* functions are nested in each other (compiler.c:467, 1361, 1484).
LoopJumpsMeet ==
  ~ StrayJump => \A c \in DOMAIN chunks :
    LET code == CodeOf(c)
        Role(role, loop) == {i \in DOMAIN code :
                               IsJump(code[i]) /\ code[i].for = [role |-> role, loop |-> loop]}
    IN \A i \in DOMAIN code :
         LET loop == code[i].for.loop
         IN IsJump(code[i]) /\ code[i].for.role = "again" =>
              /\ \A j \in Role("break", loop), out \in Role("out", loop) :
                   Target(code, j) = Target(code, out)
              /\ \A j \in Role("continue", loop) : Target(code, j) = Target(code, i)

\* compiler.c:1640 says of x := e: "emit a simple update of that local slot".
\* Then the store is to the slot of the name on the left side, whatever the
\* right side holds: assignments in a lambda too.
AssignmentsReachTheirSlot ==
  \A c \in DOMAIN chunks :
    LET code == CodeOf(c)
    IN \A i, j \in DOMAIN code :
         /\ code[i].op = "store_local" /\ code[i].info = "overwritten"
         /\ OfSlot(code[j]) /\ Good(code[j])
         /\ code[i].for = code[j].for
         => code[i].wide = code[j].wide
=============================================================================
