-------------------------- MODULE OptimizerProofs --------------------------
(***************************************************************************)
(* What the peephole pass does to any code: see the end of the module for  *)
(* the theorems.                                                           *)
(***************************************************************************)
EXTENDS Optimizer, TLAPS

ResultStates == {"sKLM", "sKLD", "sKLA", "sKLS", "sKKM", "sKKD", "sKKA", "sKKS",
                 "sLLM", "sLLD", "sLLA", "sLLS"}

(***************************************************************************)
(* The inductive invariant: the automaton's state tells which operands it  *)
(* has just read, these and all that is to come are as they were, and what *)
(* differs is a replaced pattern.                                          *)
(***************************************************************************)
RestUntouched == \A pos \in DOMAIN code : pos >= opt_ip => code[pos] = source[pos]

\* The instruction read n steps ago was op, and is still there.
JustRead(n, op) ==
  opt_ip > n /\ code[opt_ip - n] = source[opt_ip - n] /\ source[opt_ip - n].op = op

StateTells ==
  /\ opt_sp = "sK" => JustRead(1, "put_k")
  /\ opt_sp = "sL" => JustRead(1, "load_local")
  /\ opt_sp = "sKL" => \/ JustRead(2, "put_k") /\ JustRead(1, "load_local")
                       \/ JustRead(2, "load_local") /\ JustRead(1, "put_k")
  /\ opt_sp = "sKK" => JustRead(2, "put_k") /\ JustRead(1, "put_k")
  /\ opt_sp = "sLL" => JustRead(2, "load_local") /\ JustRead(1, "load_local")

OptInv ==
  OptTypeOK /\ RestUntouched /\ StateTells /\ OnlyPatternsChange /\ ReplacedKeepMeaning

-----------------------------------------------------------------------------
\* Where the automaton can go.
Transit(state, op, next) ==
  \/ next = "sStart"
  \/ state = "sStart" /\ op = "put_k" /\ next = "sK"
  \/ state = "sStart" /\ op = "load_local" /\ next = "sL"
  \/ state = "sK" /\ op = "load_local" /\ next = "sKL"
  \/ state = "sK" /\ op = "put_k" /\ next = "sKK"
  \/ state = "sL" /\ op = "load_local" /\ next = "sLL"
  \/ state = "sL" /\ op = "put_k" /\ next = "sKL"
  \/ /\ state = "sKL"
     /\ \/ op = "mul" /\ next = "sKLM"
        \/ op = "div" /\ next = "sKLD"
        \/ op = "add" /\ next = "sKLA"
        \/ op = "sub" /\ next = "sKLS"
  \/ /\ state = "sKK"
     /\ \/ op = "mul" /\ next = "sKKM"
        \/ op = "div" /\ next = "sKKD"
        \/ op = "add" /\ next = "sKKA"
        \/ op = "sub" /\ next = "sKKS"
  \/ /\ state = "sLL"
     /\ \/ op = "mul" /\ next = "sLLM"
        \/ op = "div" /\ next = "sLLD"
        \/ op = "add" /\ next = "sLLA"
        \/ op = "sub" /\ next = "sLLS"

LEMMA TransitCases ==
  ASSUME NEW state \in DOMAIN tb_optimizer_states, NEW op,
         NEW next, next = optimizer_transit(state, op)
  PROVE  Transit(state, op, next)
<1>1. state \in {"sStart", "sK", "sL", "sKL", "sKK", "sLL"}
  BY DEF tb_optimizer_states
<1>2. CASE state = "sStart"
  BY <1>2 DEF optimizer_transit, tb_optimizer_states, Transit
<1>3. CASE state = "sK"
  BY <1>3 DEF optimizer_transit, tb_optimizer_states, Transit
<1>4. CASE state = "sL"
  BY <1>4 DEF optimizer_transit, tb_optimizer_states, Transit
<1>5. CASE state = "sKL"
  BY <1>5 DEF optimizer_transit, tb_optimizer_states, Transit
<1>6. CASE state = "sKK"
  BY <1>6 DEF optimizer_transit, tb_optimizer_states, Transit
<1>7. CASE state = "sLL"
  BY <1>7 DEF optimizer_transit, tb_optimizer_states, Transit
<1> QED
  BY <1>1, <1>2, <1>3, <1>4, <1>5, <1>6, <1>7

LEMMA InitHolds == OptInit => OptInv
<1> SUFFICES ASSUME OptInit PROVE OptInv
  OBVIOUS
<1>1. source \in Seq(Instructions) /\ Len(source) \in Nat
  BY OptimizerAssumption DEF OptInit
<1>2. "sStart" \in DOMAIN tb_optimizer_states
  BY DEF tb_optimizer_states
<1>3. OptTypeOK
  BY <1>1, <1>2 DEF OptInit, OptTypeOK
<1>4. RestUntouched /\ StateTells /\ OnlyPatternsChange
  BY DEF OptInit, RestUntouched, StateTells, OnlyPatternsChange
\* The compiler emits no superinstructions: nothing is replaced yet.
<1>5. ReplacedKeepMeaning
  BY <1>1 DEF OptInit, ReplacedKeepMeaning, Replaced, Pattern, Nop, ArithOps
<1> QED
  BY <1>3, <1>4, <1>5 DEF OptInv

\* An iteration that replaces nothing.
LEMMA ReadKeepsInv == OptInv /\ optimizer_read => OptInv'
<1> SUFFICES ASSUME OptInv, optimizer_read PROVE OptInv'
  OBVIOUS
<1>0. /\ code \in Seq(Instructions) /\ Len(code) \in Nat
      /\ opt_ip \in 1 .. Len(code) /\ DOMAIN code = 1 .. Len(code)
  BY DEF OptInv, OptTypeOK, optimizer_read, Optimized
<1>1. code[opt_ip] \in Instructions /\ code[opt_ip] = source[opt_ip]
  BY <1>0 DEF OptInv, RestUntouched
<1> PICK op \in Opcodes : op = code[opt_ip].op
  BY <1>1 DEF Instructions
<1> DEFINE next == optimizer_transit(opt_sp, op)
<1>2. /\ code' = code /\ source' = source /\ opt_ip' = opt_ip + 1
      /\ opt_sp' = next /\ next \notin ResultStates
  BY DEF optimizer_read, SuperOp, ResultStates
<1>3. opt_sp \in DOMAIN tb_optimizer_states
  BY DEF OptInv, OptTypeOK
<1>4. \/ next = "sStart"
      \/ op = "put_k" /\ next = "sK"
      \/ op = "load_local" /\ next = "sL"
      \/ opt_sp = "sK" /\ op = "load_local" /\ next = "sKL"
      \/ opt_sp = "sK" /\ op = "put_k" /\ next = "sKK"
      \/ opt_sp = "sL" /\ op = "load_local" /\ next = "sLL"
      \/ opt_sp = "sL" /\ op = "put_k" /\ next = "sKL"
  <2> HIDE DEF next
  <2>1. next = optimizer_transit(opt_sp, op)
    BY DEF next
  <2>2. Transit(opt_sp, op, next)
    BY <1>3, <2>1, TransitCases
  <2> QED
    BY <1>2, <2>2 DEF Transit, ResultStates
<1>5. OptTypeOK'
  BY <1>0, <1>2, <1>4 DEF OptInv, OptTypeOK, tb_optimizer_states
<1>6. RestUntouched'
  BY <1>0, <1>2 DEF OptInv, RestUntouched
<1>7. JustRead(1, op)'
  BY <1>0, <1>1, <1>2 DEF JustRead
<1>8. ASSUME NEW before, JustRead(1, before) PROVE JustRead(2, before)'
  BY <1>0, <1>2, <1>8 DEF JustRead
<1>9. StateTells'
  BY <1>2, <1>4, <1>7, <1>8 DEF OptInv, StateTells
<1>10. OnlyPatternsChange' /\ ReplacedKeepMeaning'
  BY <1>2 DEF OptInv, OnlyPatternsChange, ReplacedKeepMeaning, Replaced, Pattern,
              ConstantFirst, OperandsFit, SameMeaning
<1> QED
  BY <1>5, <1>6, <1>9, <1>10 DEF OptInv

-----------------------------------------------------------------------------
(***************************************************************************)
(* An iteration that replaces.                                             *)
(***************************************************************************)
\* The two operands that the automaton has read in the given state.
OperandsRead(state, prev_1, prev_0) ==
  \/ /\ state = "sKL"
     /\ \/ prev_1.op = "put_k" /\ prev_0.op = "load_local"
        \/ prev_1.op = "load_local" /\ prev_0.op = "put_k"
  \/ state = "sKK" /\ prev_1.op = "put_k" /\ prev_0.op = "put_k"
  \/ state = "sLL" /\ prev_1.op = "load_local" /\ prev_0.op = "load_local"

\* The superinstruction that replaces two operands and the arithmetic op.
LEMMA FusedIsSuper ==
  ASSUME NEW next \in ResultStates, NEW prev_1 \in Instructions, NEW prev_0 \in Instructions
  PROVE  /\ Fused(next, prev_1, prev_0) \in Instructions
         /\ Fused(next, prev_1, prev_0).op \in Kl \cup Kk \cup Ll
<1>1. SuperOp[next] \in Opcodes /\ SuperOp[next] \in Kl \cup Kk \cup Ll
  <2>1. SuperOp[next] \in Kl \cup Kk \cup Ll
    BY DEF ResultStates, SuperOp, Kl, Kk, Ll
  <2> QED
    BY <2>1, OptimizerAssumption
<1>2. ASSUME NEW first_n \in Nat, NEW second_n \in Nat
      PROVE  /\ Superinstruction(next, first_n, second_n) \in Instructions
             /\ Superinstruction(next, first_n, second_n).op \in Kl \cup Kk \cup Ll
  <2>1. first_n % FlagModulus \in Nat
    BY OptimizerAssumption
  <2> QED
    BY <1>1, <2>1 DEF Superinstruction, Instructions
<1>3. prev_1.wide \in Nat /\ prev_0.wide \in Nat
  BY DEF Instructions
<1> QED
  BY <1>2, <1>3 DEF Fused

\* How the VM reads a superinstruction.
LEMMA SuperReads ==
  ASSUME NEW next \in ResultStates, NEW first_n \in Nat, NEW second_n \in Nat,
         first_n < FlagModulus, NEW super, super = Superinstruction(next, first_n, second_n)
  PROVE  /\ next \in {"sKLM", "sKLD", "sKLA", "sKLS"} =>
              /\ Lhs(super) = Operand("load_local", second_n)
              /\ Rhs(super) = Operand("put_k", first_n)
         /\ next \in {"sKKM", "sKKD", "sKKA", "sKKS"} =>
              /\ Lhs(super) = Operand("put_k", first_n)
              /\ Rhs(super) = Operand("put_k", second_n)
         /\ next \in {"sLLM", "sLLD", "sLLA", "sLLS"} =>
              /\ Lhs(super) = Operand("load_local", first_n)
              /\ Rhs(super) = Operand("load_local", second_n)
         /\ next \in {"sKLM", "sKKM", "sLLM"} => Arith(super.op) = "mul"
         /\ next \in {"sKLD", "sKKD", "sLLD"} => Arith(super.op) = "div"
         /\ next \in {"sKLA", "sKKA", "sLLA"} => Arith(super.op) = "add"
         /\ next \in {"sKLS", "sKKS", "sLLS"} => Arith(super.op) = "sub"
<1>1. /\ super.op = SuperOp[next] /\ super.wide = second_n
      /\ super.flag = first_n
  BY OptimizerAssumption DEF Superinstruction
<1>2. /\ next \in {"sKLM", "sKLD", "sKLA", "sKLS"} => super.op \in Kl
      /\ next \in {"sKKM", "sKKD", "sKKA", "sKKS"} => super.op \in Kk
      /\ next \in {"sLLM", "sLLD", "sLLA", "sLLS"} => super.op \in Ll
      /\ next \in {"sKLM", "sKKM", "sLLM"} => super.op \in {"mul_kl", "mul_kk", "mul_ll"}
      /\ next \in {"sKLD", "sKKD", "sLLD"} => super.op \in {"div_kl", "div_kk", "div_ll"}
      /\ next \in {"sKLA", "sKKA", "sLLA"} => super.op \in {"add_kl", "add_kk", "add_ll"}
      /\ next \in {"sKLS", "sKKS", "sLLS"} => super.op \in {"sub_kl", "sub_kk", "sub_ll"}
  BY <1>1 DEF SuperOp, Kl, Kk, Ll
<1>3. /\ super.op \in Kk \cup Ll => super.op \notin Kl
      /\ super.op \in Ll => super.op \notin Kk
  BY DEF Kl, Kk, Ll
<1>4. /\ super.op \in {"mul_kl", "mul_kk", "mul_ll"} => Arith(super.op) = "mul"
      /\ super.op \in {"div_kl", "div_kk", "div_ll"} => Arith(super.op) = "div"
      /\ super.op \in {"add_kl", "add_kk", "add_ll"} => Arith(super.op) = "add"
      /\ super.op \in {"sub_kl", "sub_kk", "sub_ll"} => Arith(super.op) = "sub"
  BY DEF Arith
<1>5. /\ super.op \in Kl => /\ Lhs(super) = Operand("load_local", second_n)
                            /\ Rhs(super) = Operand("put_k", first_n)
      /\ super.op \in Kk => /\ Lhs(super) = Operand("put_k", first_n)
                            /\ Rhs(super) = Operand("put_k", second_n)
      /\ super.op \in Ll => /\ Lhs(super) = Operand("load_local", first_n)
                            /\ Rhs(super) = Operand("load_local", second_n)
  BY <1>1, <1>3 DEF Lhs, Rhs
<1> QED
  BY <1>2, <1>4, <1>5

LEMMA FusedMeaning ==
  ASSUME NEW state, NEW op, NEW next \in ResultStates, Transit(state, op, next),
         NEW prev_1 \in Instructions, NEW prev_0 \in Instructions,
         OperandsRead(state, prev_1, prev_0),
         prev_1.wide < FlagModulus, prev_0.wide < FlagModulus,
         ~ (prev_1.op = "put_k" /\ prev_0.op = "load_local" /\ op \in {"sub", "div"})
  PROVE  SameMeaning(Fused(next, prev_1, prev_0), prev_1, prev_0, op)
<1>1. prev_1.wide \in Nat /\ prev_0.wide \in Nat
  BY DEF Instructions
<1> DEFINE InOrder == Superinstruction(next, prev_1.wide, prev_0.wide)
           Swapped == Superinstruction(next, prev_0.wide, prev_1.wide)
<1>2. CASE state = "sKL"
  <2>1. \/ op = "mul" /\ next = "sKLM"
        \/ op = "div" /\ next = "sKLD"
        \/ op = "add" /\ next = "sKLA"
        \/ op = "sub" /\ next = "sKLS"
    BY <1>2 DEF Transit, ResultStates
  <2>2. FirstOp(next) = "put_k" /\ SecondOp(next) = "load_local"
    BY <2>1 DEF FirstOp, SecondOp
  <2>3. CASE prev_1.op = "put_k" /\ prev_0.op = "load_local"
    <3>1. Fused(next, prev_1, prev_0) = InOrder /\ op \in {"mul", "add"}
      BY <2>1, <2>2, <2>3 DEF Fused
    <3> QED
      BY <1>1, <2>1, <2>3, <3>1, SuperReads DEF SameMeaning
  <2>4. CASE prev_1.op = "load_local" /\ prev_0.op = "put_k"
    <3>1. Fused(next, prev_1, prev_0) = Swapped
      BY <2>2, <2>4 DEF Fused
    <3> QED
      BY <1>1, <2>1, <2>4, <3>1, SuperReads DEF SameMeaning
  <2> QED
    BY <1>2, <2>3, <2>4 DEF OperandsRead
<1>3. CASE state = "sKK"
  <2>1. \/ op = "mul" /\ next = "sKKM"
        \/ op = "div" /\ next = "sKKD"
        \/ op = "add" /\ next = "sKKA"
        \/ op = "sub" /\ next = "sKKS"
    BY <1>3 DEF Transit, ResultStates
  <2>2. FirstOp(next) = "put_k" /\ SecondOp(next) = "put_k"
    BY <2>1 DEF FirstOp, SecondOp
  <2>3. prev_1.op = "put_k" /\ prev_0.op = "put_k"
    BY <1>3 DEF OperandsRead
  <2>4. Fused(next, prev_1, prev_0) = InOrder
    BY <2>2, <2>3 DEF Fused
  <2> QED
    BY <1>1, <2>1, <2>3, <2>4, SuperReads DEF SameMeaning
<1>4. CASE state = "sLL"
  <2>1. \/ op = "mul" /\ next = "sLLM"
        \/ op = "div" /\ next = "sLLD"
        \/ op = "add" /\ next = "sLLA"
        \/ op = "sub" /\ next = "sLLS"
    BY <1>4 DEF Transit, ResultStates
  <2>2. FirstOp(next) = "load_local" /\ SecondOp(next) = "load_local"
    BY <2>1 DEF FirstOp, SecondOp
  <2>3. prev_1.op = "load_local" /\ prev_0.op = "load_local"
    BY <1>4 DEF OperandsRead
  <2>4. Fused(next, prev_1, prev_0) = InOrder
    BY <2>2, <2>3 DEF Fused
  <2> QED
    BY <1>1, <2>1, <2>3, <2>4, SuperReads DEF SameMeaning
<1> QED
  BY <1>2, <1>3, <1>4 DEF OperandsRead

\* The three instructions that are replaced belonged to no pattern replaced
\* before: those have become a superinstruction and NOPs.
LEMMA ReplaceKeepsInv == OptInv /\ optimizer_replace => OptInv'
<1> SUFFICES ASSUME OptInv, optimizer_replace PROVE OptInv'
  OBVIOUS
<1>0. /\ code \in Seq(Instructions) /\ source \in Seq(Instructions)
      /\ Len(code) \in Nat /\ Len(source) = Len(code)
      /\ opt_ip \in 1 .. Len(code) /\ DOMAIN code = 1 .. Len(code)
      /\ DOMAIN source = 1 .. Len(code) /\ opt_sp \in DOMAIN tb_optimizer_states
  BY DEF OptInv, OptTypeOK, optimizer_replace, Optimized
<1>1. code[opt_ip] \in Instructions /\ code[opt_ip] = source[opt_ip]
  BY <1>0 DEF OptInv, RestUntouched
<1> PICK op \in Opcodes : op = code[opt_ip].op
  BY <1>1 DEF Instructions
<1> PICK next : next = optimizer_transit(opt_sp, op)
  OBVIOUS
<1>2. /\ source' = source /\ opt_ip' = opt_ip + 1 /\ opt_sp' = "sStart"
      /\ next \in ResultStates /\ replace_binary_inst(next)
  BY DEF optimizer_replace, SuperOp, ResultStates
<1>3. Transit(opt_sp, op, next)
  BY <1>0, TransitCases
<1>4. opt_sp \in {"sKL", "sKK", "sLL"} /\ op \in ArithOps
  BY <1>2, <1>3 DEF Transit, ResultStates, ArithOps
\* The pattern begins at p.
<1> PICK p : p = opt_ip - 2
  OBVIOUS
<1>5. /\ JustRead(1, source[p + 1].op) /\ JustRead(2, source[p].op)
      /\ OperandsRead(opt_sp, source[p], source[p + 1])
  BY <1>0, <1>4 DEF OptInv, StateTells, JustRead, OperandsRead
<1>6. /\ p \in Nat /\ p >= 1 /\ p + 2 <= Len(code) /\ opt_ip = p + 2
      /\ code[p] = source[p] /\ code[p + 1] = source[p + 1]
      /\ code[p + 2] = source[p + 2] /\ source[p + 2].op = op
  BY <1>0, <1>1, <1>5 DEF JustRead
<1>7. source[p] \in Instructions /\ source[p + 1] \in Instructions
  BY <1>0, <1>6
<1>8. source[p].op \in LoadOps /\ source[p + 1].op \in LoadOps
  BY <1>5 DEF OperandsRead, LoadOps
<1>9. Pattern(p)
  BY <1>0, <1>4, <1>6, <1>8 DEF Pattern
<1> PICK super : super = Fused(next, source[p], source[p + 1])
  OBVIOUS
<1>10. super \in Instructions /\ super.op \in Kl \cup Kk \cup Ll
  BY <1>2, <1>7, FusedIsSuper
<1>11. code' = [code EXCEPT ![p] = super, ![p + 1] = Nop, ![p + 2] = Nop]
  <2>1. opt_ip - 2 = p /\ opt_ip - 1 = p + 1
    BY <1>0, <1>6
  <2>2. code' = [code EXCEPT ![opt_ip - 2] = Fused(next, code[opt_ip - 2], code[opt_ip - 1]),
                             ![opt_ip - 1] = Nop, ![opt_ip] = Nop]
    BY <1>2 DEF replace_binary_inst
  <2> QED
    BY <1>6, <2>1, <2>2
<1>12. /\ DOMAIN code' = 1 .. Len(code)
       /\ code'[p] = super /\ code'[p + 1] = Nop /\ code'[p + 2] = Nop
       /\ \A q \in 1 .. Len(code) : q \notin {p, p + 1, p + 2} => code'[q] = code[q]
  <2>1. p \in 1 .. Len(code) /\ p + 1 \in 1 .. Len(code) /\ p + 2 \in 1 .. Len(code)
    BY <1>0, <1>6
  <2>2. p # p + 1 /\ p # p + 2 /\ p + 1 # p + 2
    BY <1>6
  <2>3. DOMAIN code' = 1 .. Len(code)
    BY <1>0, <1>11
  <2>4. code'[p] = super /\ code'[p + 1] = Nop /\ code'[p + 2] = Nop
    BY <1>0, <1>11, <2>1, <2>2
  <2>5. \A q \in 1 .. Len(code) : q \notin {p, p + 1, p + 2} => code'[q] = code[q]
    BY <1>0, <1>11
  <2> QED
    BY <2>3, <2>4, <2>5
<1>13. Nop \in Instructions /\ Nop.op \notin Kl \cup Kk \cup Ll
       /\ Nop.op \notin LoadOps \cup ArithOps
  BY OptimizerAssumption DEF Nop, Instructions, Kl, Kk, Ll, LoadOps, ArithOps
<1>14. OptTypeOK'
  <2>1. code' \in Seq(Instructions) /\ Len(code') = Len(code)
    BY <1>0, <1>6, <1>10, <1>11, <1>13
  <2> QED
    BY <1>0, <1>2, <2>1 DEF OptTypeOK, tb_optimizer_states
<1>15. RestUntouched' /\ StateTells'
  BY <1>0, <1>2, <1>6, <1>12 DEF OptInv, RestUntouched, StateTells
\* The pattern is replaced now, and one replaced before still is, elsewhere.
<1>16. Replaced(p)'
  BY <1>2, <1>9, <1>10, <1>12 DEF Replaced, Pattern
<1>17. (Kl \cup Kk \cup Ll) \cap (LoadOps \cup ArithOps) = {}
  BY DEF Kl, Kk, Ll, LoadOps, ArithOps
<1>18. ASSUME NEW q, q \in Int, Replaced(q)
       PROVE  {q, q + 1, q + 2} \cap {p, p + 1, p + 2} = {}
  <2>1. \A n \in {q, q + 1, q + 2} : code[n].op \notin LoadOps \cup ArithOps
    BY <1>13, <1>17, <1>18 DEF Replaced
  <2>2. \A n \in {p, p + 1, p + 2} : code[n].op \in LoadOps \cup ArithOps
    BY <1>4, <1>6, <1>8
  <2> QED
    BY <2>1, <2>2
<1>19. ASSUME NEW q, q \in Int, Replaced(q) PROVE Replaced(q)'
  <2>1. q >= 1 /\ q + 2 <= Len(code)
    BY <1>0, <1>19 DEF Replaced, Pattern
  <2>2. /\ code'[q] = code[q] /\ code'[q + 1] = code[q + 1]
        /\ code'[q + 2] = code[q + 2]
    <3>1. \A n \in {q, q + 1, q + 2} : n \in 1 .. Len(code)
      BY <1>0, <1>19, <2>1
    <3>2. \A n \in {q, q + 1, q + 2} : n \notin {p, p + 1, p + 2}
      BY <1>18, <1>19
    <3> QED
      BY <1>12, <3>1, <3>2
  <2> QED
    BY <1>2, <1>19, <2>2 DEF Replaced, Pattern
<1>20. OnlyPatternsChange'
  <2> SUFFICES ASSUME NEW pos \in 1 .. Len(code), code'[pos] # source[pos]
               PROVE  Replaced(pos)' \/ Replaced(pos - 1)' \/ Replaced(pos - 2)'
    BY <1>2, <1>12 DEF OnlyPatternsChange
  <2>1. CASE pos \in {p, p + 1, p + 2}
    <3>1. p \in {pos, pos - 1, pos - 2}
      BY <1>0, <1>6, <2>1
    <3> QED
      BY <1>16, <3>1
  <2>2. CASE pos \notin {p, p + 1, p + 2}
    <3>1. Replaced(pos) \/ Replaced(pos - 1) \/ Replaced(pos - 2)
      BY <1>0, <1>12, <2>2 DEF OptInv, OnlyPatternsChange
    <3> QED
      BY <1>0, <1>19, <3>1
  <2> QED
    BY <2>1, <2>2
<1>21. ReplacedKeepMeaning'
  <2> SUFFICES ASSUME NEW pos \in 1 .. Len(code), Replaced(pos)',
                      ~ ConstantFirst(pos), OperandsFit(pos)
               PROVE  SameMeaning(code'[pos], source[pos], source[pos + 1], source[pos + 2].op)
    BY <1>2, <1>12 DEF ReplacedKeepMeaning, ConstantFirst, OperandsFit, SameMeaning
  <2>1. CASE pos = p
    BY <1>2, <1>3, <1>5, <1>6, <1>7, <1>12, <2>1, FusedMeaning DEF ConstantFirst, OperandsFit
  <2>2. CASE pos # p
    <3>1. /\ Pattern(pos) /\ code'[pos].op \in Kl \cup Kk \cup Ll
          /\ code'[pos + 1] = Nop /\ code'[pos + 2] = Nop
      BY <1>2 DEF Replaced, Pattern
    <3>2. {pos, pos + 1, pos + 2} \cap {p, p + 1, p + 2} = {}
      BY <1>0, <1>6, <1>10, <1>12, <1>13, <2>2, <3>1
    <3>3. /\ code'[pos] = code[pos] /\ code'[pos + 1] = code[pos + 1]
          /\ code'[pos + 2] = code[pos + 2]
      <4>1. \A n \in {pos, pos + 1, pos + 2} : n \in 1 .. Len(code)
        BY <1>0, <3>1 DEF Pattern
      <4>2. \A n \in {pos, pos + 1, pos + 2} : n \notin {p, p + 1, p + 2}
        BY <3>2
      <4> QED
        BY <1>12, <4>1, <4>2
    <3>4. Replaced(pos)
      BY <3>1, <3>3 DEF Replaced
    <3> QED
      BY <1>0, <3>3, <3>4 DEF OptInv, ReplacedKeepMeaning
  <2> QED
    BY <2>1, <2>2
<1> QED
  BY <1>14, <1>15, <1>20, <1>21 DEF OptInv

-----------------------------------------------------------------------------
\* The invariant is inductive.
LEMMA OptInvariance == OptSpec => []OptInv
<1>1. OptInv /\ [OptNext]_optVars => OptInv'
  <2>1. OptInv /\ UNCHANGED optVars => OptInv'
    BY DEF OptInv, optVars, OptTypeOK, RestUntouched, StateTells, JustRead,
           OnlyPatternsChange, ReplacedKeepMeaning, Replaced, Pattern,
           ConstantFirst, OperandsFit, SameMeaning
  <2> QED
    BY <2>1, ReadKeepsInv, ReplaceKeepsInv DEF OptNext
<1> QED
  BY <1>1, InitHolds, PTL DEF OptSpec

\* The pass stays inside the code and keeps its length, whatever the code.
THEOREM OptimizerKeepsLength == OptSpec => []OptTypeOK
<1>1. OptInv => OptTypeOK
  BY DEF OptInv
<1> QED
  BY <1>1, OptInvariance, PTL

\* Nothing but whole patterns is ever rewritten (the writes of
\* replace_binary_inst at 1 and 2 instructions back hit the operands of the
\* arithmetic instruction just read).
THEOREM OptimizerChangesPatterns == OptSpec => []OnlyPatternsChange
<1>1. OptInv => OnlyPatternsChange
  BY DEF OptInv
<1> QED
  BY <1>1, OptInvariance, PTL

\* Every superinstruction does the arithmetic it replaces on the operands it
\* replaces, but for the two conditions that the property names.
THEOREM OptimizerKeepsMeaning == OptSpec => []ReplacedKeepMeaning
<1>1. OptInv => ReplacedKeepMeaning
  BY DEF OptInv
<1> QED
  BY <1>1, OptInvariance, PTL
=============================================================================
