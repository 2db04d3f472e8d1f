------------------------------ MODULE CodeGen ------------------------------
(***************************************************************************)
(* The code that src/src/compiler.c emits for the constructs that steer    *)
(* the VM.  The compiler walks the source once and emits as it goes; a     *)
(* jump is emitted with operand 0 and patched when its target is known.    *)
(* Here a construct is an operator from the code of its parts to its own   *)
(* code.  Jumps are relative: the operand is the distance from the jump.   *)
(***************************************************************************)
EXTENDS Integers, SequencesExt

RET_MARK_LAST == 15   \* TBASIC_RET_MARK_LAST

\* compiler_emit_op, _unflagged and _flagged.
Op(op, flag, wide) == [op |-> op, flag |-> flag, wide |-> wide]
Plain(op) == Op(op, 0, 0)

Jmp(distance) == Op("jmp", 0, distance)
JmpBack(distance) == Op("jmp", 1, distance)

(***************************************************************************)
(* Expressions: a name is resolved to the id of a local, a capture, or the *)
(* chunk of a function.                                                    *)
(***************************************************************************)
Boolean(value) == <<Op("put_bool", IF value THEN 1 ELSE 0, 0)>>
Constant(id) == <<Op("put_k", 0, id)>>
None == <<Plain("put_none")>>
Local(id) == <<Op("load_local", 0, id)>>
Upval(id) == <<Op("get_upv", 0, id)>>
Text(id) == <<Op("load_string_k", 0, id)>>
FunctionId(chunk) == <<Op("load_imm_gid", 0, chunk)>>

do_call(callee, args) == callee \o FlattenSeq(args) \o <<Op("call", 0, Len(args))>>

\* The arithmetic, bitwise and comparing operators.
do_binary(op, left, right) == left \o right \o <<Plain(op)>>

do_nullish(expr) == expr \o <<Plain("chk_none")>>
do_bit_not(expr) == expr \o <<Plain("bit_not")>>

\* Mutant: the jump lands behind the POP.
do_null_coal_PastPop(left, right) ==
  left \o <<Plain("chk_none"), Op("jmp_false", 0, Len(right) + 4), Op("pop", 1, 0)>>
       \o right \o <<Jmp(2), Op("pop", 1, 0)>>

\* A left side that is no nil is left with the FALSE of CHK_NONE upon it.
do_null_coal(left, right) ==
  left \o <<Plain("chk_none"), Op("jmp_false", 0, Len(right) + 3), Op("pop", 1, 0)>>
       \o right \o <<Jmp(2), Op("pop", 1, 0)>>

\* Mutant: nothing follows the right side.
do_and_NoNop(left, right) ==
  left \o <<Op("jmp_false", 0, Len(right) + 2), Op("pop", 1, 0)>> \o right

\* JMP_FALSE has popped a true left side already when POP is reached.
do_and(left, right) ==
  left \o <<Op("jmp_false", 0, Len(right) + 2), Op("pop", 1, 0)>>
       \o right \o <<Plain("nop")>>

do_or(left, right) ==
  left \o <<Op("jmp_if", 0, Len(right) + 2), Op("pop", 1, 0)>>
       \o right \o <<Plain("nop")>>

\* With no captures a lambda is the id of its chunk.
do_lambda(chunk, captured) ==
  FunctionId(chunk) \o FlattenSeq([n \in DOMAIN captured |-> Local(captured[n])])
    \o (IF captured = <<>> THEN <<>> ELSE <<Op("mk_closure", 0, Len(captured))>>)

(***************************************************************************)
(* Statements.  The value of an expression statement stays on the stack.   *)
(***************************************************************************)
do_block(stmts) == IF stmts = <<>> THEN <<Plain("nop")>> ELSE FlattenSeq(stmts)

do_vars(id, init) == init \o <<Op("store_local", 0, id)>>
do_expr_stmt(expr) == expr
assign_local(id, expr) == expr \o <<Op("store_local", 0, id)>>
assign_upval(id, expr) == expr \o <<Op("set_upv", 0, id)>>

do_ifs(cond, stmts) ==
  LET body == do_block(stmts)
  IN  cond \o <<Op("jmp_false", 0, Len(body) + 1)>> \o body \o <<Plain("nop")>>

do_ifs_else(cond, stmts, else) ==
  LET body == do_block(stmts)
  IN  cond \o <<Op("jmp_false", 0, Len(body) + 2)>> \o body
           \o <<Jmp(Len(else) + 1)>> \o else \o <<Plain("nop")>>

do_while(cond, stmts) ==
  LET body == do_block(stmts)
      distance == Len(cond) + 1 + Len(body)
  IN  cond \o <<Op("jmp_false", 0, Len(body) + 2)>> \o body \o <<JmpBack(distance)>>

do_ret(expr) == expr \o <<Plain("ret")>>
do_throw(expr) == expr \o <<Op("raise_err", 0, 1)>>

\* The operand of the jump over the handler; a TRY has no other end.
do_try_catch(stmts, handler) ==
  LET body == do_block(stmts)
      caught == do_block(handler)
  IN  <<Plain("try")>> \o body
        \o <<Jmp(Len(caught) + 2), Plain("catch_err")>> \o caught

do_assert(test, message) == test \o message \o <<Op("abort_if", 0, 1)>>

(***************************************************************************)
(* Chunks: compiler_do_func (and lambdas), compiler_do_source, and the     *)
(* trampoline of a native.  Local ids start at 1; the slots of parameters  *)
(* are the caller's, RESERVE makes the others.                             *)
(***************************************************************************)
do_func(params, locals, stmts) ==
  <<Op("reserve", 0, locals - params)>> \o do_block(stmts)
    \o <<Op("ret", RET_MARK_LAST, 0)>>

do_source(locals, stmts) ==
  <<Op("reserve", 0, locals)>> \o FlattenSeq(stmts) \o <<Op("ret", RET_MARK_LAST, 0)>>

map_native(native) == <<Op("native_call", 0, native), Plain("ret")>>
=============================================================================
