--------------------------- MODULE OptimizedCode ---------------------------
(***************************************************************************)
(* The main chunk of a program without calls, optimized and then run; and, *)
(* for comparison, run again as the compiler emitted it.  (driver.c        *)
(* optimizes each chunk before the VM is made.)  A step of a machine is    *)
(* one handler of src/src/vm.c.                                            *)
(***************************************************************************)
EXTENDS Optimizer, Arithmetic

CONSTANTS
  ConstantPools,  \* the constants a chunk may come with: functions from ids
  StackCapacity   \* values in the stack (16384)

VARIABLES
  cvp,  \* the chunk's constants
  vm    \* vm[who]: the machine that runs the optimized code or the source

vars == <<optVars, cvp, vm>>

Machines == {"optimized", "source"}
Slots == 0 .. StackCapacity - 1

CodeOf(who) == IF who = "source" THEN source ELSE code
Instr(who) == CodeOf(who)[vm[who].ip]
Slot(who, slot) == vm[who].stack[slot]
Top(who) == Slot(who, vm[who].sp)
Below(who) == Slot(who, vm[who].sp - 1)
Ended(who) == vm[who].status # "pending"

\* bp is 0: nothing is called.
Load(who, operand) ==
  IF operand.op = "put_k" THEN cvp[operand.id] ELSE Slot(who, operand.id)

Init ==
  /\ OptInit
  /\ cvp \in ConstantPools
  /\ vm = [who \in Machines |->
             [ip |-> 1, sp |-> 0, status |-> "pending",
              stack |-> [slot \in Slots |-> make_value_none]]]
-----------------------------------------------------------------------------
Handle(who, op) ==
  /\ Optimized
  /\ who = "source" => Ended("optimized")
  /\ ~ Ended(who)
  /\ Instr(who).op = op

\* The handler goes on at ip, with sp as its stack pointer.
Go(who, ip, sp) ==
  /\ vm' = [vm EXCEPT ![who].ip = ip, ![who].sp = sp]
  /\ UNCHANGED <<optVars, cvp>>

\* ... and has stored a value.
GoStoring(who, ip, sp, slot, value) ==
  /\ vm' = [vm EXCEPT ![who].ip = ip, ![who].sp = sp, ![who].stack[slot] = value]
  /\ UNCHANGED <<optVars, cvp>>

Next1(who) == vm[who].ip + 1

Put(who, value) ==
  GoStoring(who, Next1(who), vm[who].sp + 1, vm[who].sp + 1, value)

fn_nop(who) == Handle(who, "nop") /\ Go(who, Next1(who), vm[who].sp)
fn_put_none(who) == Handle(who, "put_none") /\ Put(who, make_value_none)
fn_put_bool(who) ==
  Handle(who, "put_bool") /\ Put(who, make_value_bool(Instr(who).flag % 2))
fn_put_k(who) == Handle(who, "put_k") /\ Put(who, cvp[Instr(who).wide])
fn_load_string_k(who) ==
  Handle(who, "load_string_k") /\ Put(who, make_value_str(Instr(who).wide))
fn_load_local(who) == Handle(who, "load_local") /\ Put(who, Slot(who, Instr(who).wide))
fn_chk_none(who) == Handle(who, "chk_none") /\ Put(who, Truth(Top(who).tag = "nil"))

fn_reserve(who) ==
  Handle(who, "reserve") /\ Go(who, Next1(who), vm[who].sp + Instr(who).wide)
fn_pop(who) ==
  Handle(who, "pop") /\ Go(who, Next1(who), vm[who].sp - Instr(who).flag)

fn_store_local(who) ==
  /\ Handle(who, "store_local")
  /\ GoStoring(who, Next1(who), vm[who].sp - 1, Instr(who).wide, Top(who))

fn_bit_not(who) ==
  /\ Handle(who, "bit_not")
  /\ GoStoring(who, Next1(who), vm[who].sp, vm[who].sp, bit_not(Top(who)))
-----------------------------------------------------------------------------
\* fn_ret in the main chunk.
fn_ret(who) ==
  /\ Handle(who, "ret")
  /\ vm' = [vm EXCEPT ![who].status = "ok", ![who].sp = 0, ![who].stack[0] = Top(who)]
  /\ UNCHANGED <<optVars, cvp>>

Trap(who) ==
  /\ vm' = [vm EXCEPT ![who].status = "trapped"]
  /\ UNCHANGED <<optVars, cvp>>

fn_jmp(who) ==
  LET instr == Instr(who) IN
  /\ Handle(who, "jmp")
  /\ Go(who, IF instr.flag # 0 THEN vm[who].ip - instr.wide ELSE vm[who].ip + instr.wide,
        vm[who].sp)

NotZero(value) ==
  CASE value.tag = "bool" -> value.byte # 0
    [] value.tag = "int" -> value.i # 0
    [] value.tag = "real" -> value.f[1] # 0 \/ IsNan(value.f)
    [] OTHER -> FALSE

fn_jmp_false(who) ==
  /\ Handle(who, "jmp_false")
  /\ \/ NotZero(Top(who)) /\ Go(who, Next1(who), vm[who].sp - 1)
     \/ ~ NotZero(Top(who)) /\ Go(who, vm[who].ip + Instr(who).wide, vm[who].sp)

\* A value that is neither nil nor a scalar is popped.
fn_jmp_if(who) ==
  /\ Handle(who, "jmp_if")
  /\ \/ NotZero(Top(who)) /\ Go(who, vm[who].ip + Instr(who).wide, vm[who].sp)
     \/ /\ ~ NotZero(Top(who))
        /\ Go(who, Next1(who), IF Top(who).tag = "strid" THEN vm[who].sp - 1
                                                          ELSE vm[who].sp)
-----------------------------------------------------------------------------
(***************************************************************************)
(* The handlers with two operands take them off the stack; those of the    *)
(* superinstructions find them by their ids.                               *)
(***************************************************************************)
Binary(who, op, result(_, _)) ==
  /\ Handle(who, op)
  /\ GoStoring(who, Next1(who), vm[who].sp - 1, vm[who].sp - 1,
               result(Below(who), Top(who)))

fn_mul(who) == Binary(who, "mul", mul)
fn_add(who) == Binary(who, "add", add)
fn_sub(who) == Binary(who, "sub", sub)
fn_eq(who) == Binary(who, "eq", eq)
fn_ne(who) == Binary(who, "ne", ne)
fn_lt(who) == Binary(who, "lt", lt)
fn_gt(who) == Binary(who, "gt", gt)
fn_bit_and(who) == Binary(who, "bit_and", bit_and)
fn_bit_or(who) == Binary(who, "bit_or", bit_or)
fn_bit_xor(who) == Binary(who, "bit_xor", bit_xor)
fn_bit_shl(who) == Binary(who, "bit_shl", bit_shl)
fn_bit_shr(who) == Binary(who, "bit_shr", bit_shr)

fn_div(who) ==
  \/ Binary(who, "div", div) /\ ~ Overflows(Below(who), Top(who))
  \/ Handle(who, "div") /\ Overflows(Below(who), Top(who)) /\ Trap(who)

\* fn_mul_kl and the other three, fn_mul_kk and fn_mul_ll likewise.
Super(who, arith, result(_, _)) ==
  \E op \in Kl \cup Kk \cup Ll :
    /\ Handle(who, op) /\ Arith(op) = arith
    /\ Put(who, result(Load(who, Lhs(Instr(who))), Load(who, Rhs(Instr(who)))))

super_mul(who) == Super(who, "mul", mul)
super_add(who) == Super(who, "add", add)
super_sub(who) == Super(who, "sub", sub)

SuperOverflows(who) ==
  /\ Instr(who).op \in Kl \cup Kk \cup Ll
  /\ Overflows(Load(who, Lhs(Instr(who))), Load(who, Rhs(Instr(who))))

super_div(who) ==
  \/ Super(who, "div", div) /\ ~ SuperOverflows(who)
  \/ /\ \E op \in {"div_kl", "div_kk", "div_ll"} : Handle(who, op)
     /\ SuperOverflows(who) /\ Trap(who)
-----------------------------------------------------------------------------
PutStep(who) ==
  \/ fn_nop(who) \/ fn_put_none(who) \/ fn_put_bool(who) \/ fn_put_k(who)
  \/ fn_load_string_k(who) \/ fn_load_local(who) \/ fn_chk_none(who)

StackStep(who) ==
  \/ fn_reserve(who) \/ fn_pop(who) \/ fn_store_local(who) \/ fn_bit_not(who)
  \/ fn_ret(who) \/ fn_jmp(who) \/ fn_jmp_false(who) \/ fn_jmp_if(who)

BinaryStep(who) ==
  \/ fn_mul(who) \/ fn_div(who) \/ fn_add(who) \/ fn_sub(who)
  \/ fn_eq(who) \/ fn_ne(who) \/ fn_lt(who) \/ fn_gt(who)
  \/ fn_bit_and(who) \/ fn_bit_or(who) \/ fn_bit_xor(who)
  \/ fn_bit_shl(who) \/ fn_bit_shr(who)

SuperStep(who) ==
  super_mul(who) \/ super_div(who) \/ super_add(who) \/ super_sub(who)

optimizer_apply == OptNext /\ UNCHANGED <<cvp, vm>>

Next ==
  \/ optimizer_apply
  \/ \E who \in Machines :
       PutStep(who) \/ StackStep(who) \/ BinaryStep(who) \/ SuperStep(who)

Spec == Init /\ [][Next]_vars
-----------------------------------------------------------------------------
Result(who) == <<vm[who].status, vm[who].stack[0]>>

SameResult ==
  Ended("optimized") /\ Ended("source") => Result("optimized") = Result("source")

\* docs/README.md:75 has the optimization pass with superinstructions as done:
\* the optimized code computes what the compiler's code computes, if each id
\* fits into the operand it is put into.
OptimizationKeepsResults ==
  (\A pos \in DOMAIN source : Replaced(pos) => OperandsFit(pos)) => SameResult

\* The optimized code computes what the compiler's code computes, a trap of
\* the processor included, unless a constant comes before a local in a
\* subtraction or division, or an id does not fit into the flag.
ExactCodeKeepsResults ==
  (\A pos \in DOMAIN source :
     Replaced(pos) => OperandsFit(pos) /\ ~ ConstantFirst(pos)) => SameResult

\* No jump lands inside a replaced pattern, where its first operand would be
\* missing.  The pass does not look; the compiler lets NOPs and POPs follow
\* the expressions that end with the target of a jump (compiler.c:1135, :1163
\* and :838).
JumpsMissPatterns ==
  \A from, pos \in DOMAIN source :
    source[from].op \in {"jmp", "jmp_false", "jmp_if"} /\ Replaced(pos) =>
      from + source[from].wide \notin {pos + 1, pos + 2}

\* AND pops a true left side twice, OR a string on its left; CHK_NONE leaves
\* the value it looks at, and only `??` pops it.
Unbalanced ==
  \/ \E pos \in DOMAIN source :
       source[pos].op = "jmp_false" /\ source[pos - 1].op # "chk_none"
  \/ \E pos \in DOMAIN source :
       source[pos].op = "chk_none" /\ source[pos + 1].op # "jmp_false"
  \/ {"load_string_k", "jmp_if"} \subseteq {source[pos].op : pos \in DOMAIN source}

\* Whatever way the jumps of `??` and `||` take, an expression leaves one value
\* on the stack (compiler.c:1127): at the last RET one lies above the locals.
\* Excepted are AND, disjunctions of strings and the prefix `?`.
OneValuePerExpression ==
  \A who \in Machines :
    ~ Ended(who) /\ Instr(who).op = "ret" /\ ~ Unbalanced =>
      vm[who].sp = source[1].wide + 1
=============================================================================
