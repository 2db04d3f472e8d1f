-------------------------- MODULE MCOptimizedCode --------------------------
(***************************************************************************)
(* Main chunks that give locals 1 and 2 a value each, compute an           *)
(* expression of them and of constants, and return it.                     *)
(***************************************************************************)
EXTENDS OptimizedCode, CodeGen

Arithmetics(ops, lefts, rights) ==
  {do_binary(op, left, right) : op \in ops, left \in lefts, right \in rights}

Leaves == {Local(1), Local(2), Constant(0), Constant(3)}
Sums == Arithmetics(ArithOps, Leaves, Leaves)

Branches ==
  LET Sides == {Local(1), Local(2), None}
      All(construct(_, _)) == {construct(left, right) : left, right \in Sides}
  IN  All(do_null_coal) \cup All(do_and) \cup All(do_or)
        \cup {do_or(Text(0), Local(1))}

Others ==
  {do_bit_not(Local(1)), do_nullish(Local(1))}
    \cup Arithmetics({"ne", "lt"}, {Boolean(TRUE)}, {Boolean(FALSE), Local(1)})
    \cup Arithmetics({"eq", "ne", "lt", "gt", "bit_and", "bit_or", "bit_xor",
                      "bit_shl", "bit_shr"}, {Local(1)}, {Constant(0), Constant(3)})

Exprs ==
  Arithmetics(ArithOps, Sums, {Local(1), Constant(0)})
    \cup Arithmetics(ArithOps, {Local(1), Constant(0)}, Sums)
    \cup Arithmetics(ArithOps, Branches \cup Others, {Local(1), Constant(0)})
    \cup Arithmetics(ArithOps, {Local(1), Constant(0)}, Branches \cup Others)

Program(expr) ==
  do_source(3, <<do_vars(1, Constant(1)), do_vars(2, Constant(2)), do_vars(3, expr),
                 do_ret(Local(3))>>)

Programs == {Program(expr) : expr \in Exprs}

MCOpcodes ==
  {"nop"} \cup Kl \cup Kk \cup Ll
    \cup UNION {{program[pos].op : pos \in DOMAIN program} : program \in Programs}

Pool(k0, k1, k2, k3) ==
  [id \in 0 .. 3 |-> CASE id = 0 -> k0 [] id = 1 -> k1 [] id = 2 -> k2 [] id = 3 -> k3]

Pools ==
  LET int(n) == make_value_int(n)
      real(n, d) == make_value_real(<<n, d>>)
  IN  {Pool(int(3), int(7), int(0), int(2)),
       Pool(int(-1), int(IntMin), int(2), real(1, 2)),
       Pool(real(3, 2), real(0, 1), real(-5, 1), int(4))}
=============================================================================
