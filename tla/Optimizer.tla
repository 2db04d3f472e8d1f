----------------------------- MODULE Optimizer -----------------------------
(***************************************************************************)
(* The peephole pass (src/src/optimizer.c) over the code of one chunk: an  *)
(* automaton reads one instruction after the other, and where it has read  *)
(* two operands and an arithmetic instruction, these become one            *)
(* superinstruction and two NOPs.  The pass neither moves code nor knows   *)
(* of jumps.                                                               *)
(***************************************************************************)
EXTENDS Integers, Sequences

CONSTANTS
  Opcodes,     \* the opcodes
  Sources,     \* the codes to optimize
  FlagModulus  \* values of Instruction.flag, a uint8_t (256)

Instructions == [op : Opcodes, flag : Nat, wide : Nat]

\* The opcodes of superinstructions: on a constant and a local, on two
\* constants, on two locals.
Kl == {"mul_kl", "div_kl", "add_kl", "sub_kl"}
Kk == {"mul_kk", "div_kk", "add_kk", "sub_kk"}
Ll == {"mul_ll", "div_ll", "add_ll", "sub_ll"}

ASSUME OptimizerAssumption ==
  /\ {"nop"} \cup Kl \cup Kk \cup Ll \subseteq Opcodes
  /\ Sources \subseteq Seq(Instructions)
  /\ FlagModulus \in Nat \ {0}

VARIABLES
  source,   \* history: the code as it was
  code,
  opt_sp,   \* the state of the automaton (Optimizer.sp)
  opt_ip    \* the instruction to read next (Optimizer.ip)

optVars == <<source, code, opt_sp, opt_ip>>
-----------------------------------------------------------------------------
(***************************************************************************)
(* The automaton, with the names of the states in optimizer.h.             *)
(***************************************************************************)
tb_optimizer_states ==
  [sStart |-> [put_k |-> "sK", load_local |-> "sL"],
   sK     |-> [load_local |-> "sKL", put_k |-> "sKK"],
   sL     |-> [load_local |-> "sLL", put_k |-> "sKL"],
   sKL    |-> [mul |-> "sKLM", div |-> "sKLD", add |-> "sKLA", sub |-> "sKLS"],
   sKK    |-> [mul |-> "sKKM", div |-> "sKKD", add |-> "sKKA", sub |-> "sKKS"],
   sLL    |-> [mul |-> "sLLM", div |-> "sLLD", add |-> "sLLA", sub |-> "sLLS"]]

\* The superinstructions of the states that replace, and the operands that
\* the replacer asks for.
SuperOp ==
  [sKLM |-> "mul_kl", sKLD |-> "div_kl", sKLA |-> "add_kl", sKLS |-> "sub_kl",
   sKKM |-> "mul_kk", sKKD |-> "div_kk", sKKA |-> "add_kk", sKKS |-> "sub_kk",
   sLLM |-> "mul_ll", sLLD |-> "div_ll", sLLA |-> "add_ll", sLLS |-> "sub_ll"]

FirstOp(state) ==
  IF state \in {"sLLM", "sLLD", "sLLA", "sLLS"} THEN "load_local" ELSE "put_k"
SecondOp(state) ==
  IF state \in {"sKKM", "sKKD", "sKKA", "sKKS"} THEN "put_k" ELSE "load_local"

\* Mutant: an instruction without an edge leaves the automaton where it is.
optimizer_transit_Stay(state, op) ==
  LET edges == tb_optimizer_states[state]
  IN  IF op \in DOMAIN edges THEN edges[op] ELSE state

\* An instruction without an edge leads back to the start, and is not read
\* again there.
optimizer_transit(state, op) ==
  LET edges == tb_optimizer_states[state]
  IN  IF op \in DOMAIN edges THEN edges[op] ELSE "sStart"

Nop == [op |-> "nop", flag |-> 0, wide |-> 0]

Superinstruction(state, first_n, second_n) ==
  [op |-> SuperOp[state], flag |-> first_n % FlagModulus, wide |-> second_n]

\* Mutant: the operands stay in the order in which they are read.
Fused_KeepOrder(state, prev_1, prev_0) ==
  Superinstruction(state, prev_1.wide, prev_0.wide)

\* In the other order, a local and then a constant, the operands are swapped.
Fused(state, prev_1, prev_0) ==
  IF prev_1.op = FirstOp(state) /\ prev_0.op = SecondOp(state)
  THEN Superinstruction(state, prev_1.wide, prev_0.wide)
  ELSE Superinstruction(state, prev_0.wide, prev_1.wide)

\* Mutant: the arithmetic instruction stays.
replace_binary_inst_KeepLast(state) ==
  code' = [code EXCEPT ![opt_ip - 2] = Fused(state, code[opt_ip - 2], code[opt_ip - 1]),
                       ![opt_ip - 1] = Nop]

replace_binary_inst(state) ==
  code' = [code EXCEPT ![opt_ip - 2] = Fused(state, code[opt_ip - 2], code[opt_ip - 1]),
                       ![opt_ip - 1] = Nop,
                       ![opt_ip] = Nop]
-----------------------------------------------------------------------------
OptInit ==
  /\ source \in Sources
  /\ code = source
  /\ opt_sp = "sStart" /\ opt_ip = 1

Optimized == opt_ip > Len(code)

\* optimizer_apply, one iteration of its loop: the automaton moves on, ...
optimizer_read ==
  LET state == optimizer_transit(opt_sp, code[opt_ip].op) IN
  /\ ~ Optimized
  /\ state \notin DOMAIN SuperOp
  /\ opt_sp' = state
  /\ opt_ip' = opt_ip + 1
  /\ UNCHANGED <<source, code>>

\* Mutant: the automaton does not return to its start.
optimizer_replace_NoReset ==
  LET state == optimizer_transit(opt_sp, code[opt_ip].op) IN
  /\ ~ Optimized
  /\ state \in DOMAIN SuperOp
  /\ replace_binary_inst(state)
  /\ opt_sp' = state
  /\ opt_ip' = opt_ip + 1
  /\ UNCHANGED source

\* ... or has found a pattern.
optimizer_replace ==
  LET state == optimizer_transit(opt_sp, code[opt_ip].op) IN
  /\ ~ Optimized
  /\ state \in DOMAIN SuperOp
  /\ replace_binary_inst(state)
  /\ opt_sp' = "sStart"
  /\ opt_ip' = opt_ip + 1
  /\ UNCHANGED source

OptNext == optimizer_read \/ optimizer_replace
OptSpec == OptInit /\ [][OptNext]_optVars
-----------------------------------------------------------------------------
(***************************************************************************)
(* What the VM takes a superinstruction for: the arithmetic it does and    *)
(* its two operands, as the instructions that would load them.             *)
(***************************************************************************)
Operand(op, id) == [op |-> op, id |-> id]

\* The local is the left operand, whatever the source said.
Lhs(instr) ==
  IF instr.op \in Kl THEN Operand("load_local", instr.wide)
  ELSE Operand(IF instr.op \in Kk THEN "put_k" ELSE "load_local", instr.flag)

Rhs(instr) ==
  IF instr.op \in Kl THEN Operand("put_k", instr.flag)
  ELSE Operand(IF instr.op \in Kk THEN "put_k" ELSE "load_local", instr.wide)

Arith(op) ==
  CASE op \in {"mul_kl", "mul_kk", "mul_ll"} -> "mul"
    [] op \in {"div_kl", "div_kk", "div_ll"} -> "div"
    [] op \in {"add_kl", "add_kk", "add_ll"} -> "add"
    [] op \in {"sub_kl", "sub_kk", "sub_ll"} -> "sub"
-----------------------------------------------------------------------------
\* The pass keeps the length of the code and stays inside it; the automaton
\* rests in one of the states that replace nothing.
OptTypeOK ==
  /\ source \in Seq(Instructions) /\ code \in Seq(Instructions)
  /\ Len(code) = Len(source)
  /\ opt_ip \in 1 .. Len(code) + 1
  /\ opt_sp \in DOMAIN tb_optimizer_states

LoadOps == {"put_k", "load_local"}
ArithOps == {"mul", "div", "add", "sub"}

\* A pattern begins at pos: two operands, then the arithmetic that takes them.
Pattern(pos) ==
  /\ pos >= 1 /\ pos + 2 <= Len(source)
  /\ source[pos].op \in LoadOps /\ source[pos + 1].op \in LoadOps
  /\ source[pos + 2].op \in ArithOps

\* The pattern at pos is replaced: all three instructions of it, and by a
\* superinstruction.
Replaced(pos) ==
  /\ Pattern(pos)
  /\ code[pos].op \in Kl \cup Kk \cup Ll
  /\ code[pos + 1] = Nop /\ code[pos + 2] = Nop

\* Whatever the code was, at any time of the pass an instruction that differs
\* from what the compiler emitted belongs to a pattern that is replaced as a
\* whole (replace_binary_inst writes through pointers 1 and 2 instructions
\* back, on the word of the automaton's state alone).
OnlyPatternsChange ==
  \A pos \in DOMAIN code : code[pos] # source[pos] =>
    Replaced(pos) \/ Replaced(pos - 1) \/ Replaced(pos - 2)

\* The constant comes first, and its place matters.
ConstantFirst(pos) ==
  /\ source[pos].op = "put_k" /\ source[pos + 1].op = "load_local"
  /\ source[pos + 2].op \in {"sub", "div"}

OperandsFit(pos) ==
  source[pos].wide < FlagModulus /\ source[pos + 1].wide < FlagModulus

\* A superinstruction means the arithmetic instruction arith on the operands
\* that first and second load, which may change places where that is harmless.
SameMeaning(super, first, second, arith) ==
  LET operands == <<Lhs(super), Rhs(super)>>
      left == Operand(first.op, first.wide)
      right == Operand(second.op, second.wide)
  IN  /\ Arith(super.op) = arith
      /\ \/ operands = <<left, right>>
         \/ arith \in {"mul", "add"} /\ operands = <<right, left>>

\* A superinstruction does the arithmetic that it replaces, on the same two
\* operands; those of a multiplication or an addition may have changed
\* places.  Excepted are a constant before a local in a subtraction or
\* division (the *_kl handlers of vm.c take the local for the left operand)
\* and ids beyond the eight bits of the flag.
ReplacedKeepMeaning ==
  \A pos \in DOMAIN code :
    Replaced(pos) /\ ~ ConstantFirst(pos) /\ OperandsFit(pos) =>
      SameMeaning(code[pos], source[pos], source[pos + 1], source[pos + 2].op)
=============================================================================
