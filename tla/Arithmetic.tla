----------------------------- MODULE Arithmetic -----------------------------
(***************************************************************************)
(* The values of the VM (src/src/includes/value.h) and what its binary and *)
(* unary handlers (src/src/vm.c) make of them.  A float is a fraction; its *)
(* rounding and its infinities are left out, 0/0 stands for NAN.  An int   *)
(* wraps around at IntBits bits: no flag of the build says so, but it is   *)
(* what the machine instructions of the handlers do.                       *)
(***************************************************************************)
EXTENDS Integers, Bitwise

CONSTANT IntBits   \* bits of an int (32)

ASSUME WidthAssumption == IntBits \in Nat /\ IntBits > 1

make_value_none == [tag |-> "nil"]
make_value_bool(b) == [tag |-> "bool", byte |-> b]
make_value_int(i) == [tag |-> "int", i |-> i]
make_value_str(str_id) == [tag |-> "strid", i |-> str_id]
make_value_real(f) == [tag |-> "real", f |-> f]

Nan == make_value_real(<<0, 0>>)
IsNan(f) == f[2] = 0

Truth(condition) == make_value_bool(IF condition THEN 1 ELSE 0)

IntMin == - 2 ^ (IntBits - 1)
Wrap(n) == ((n - IntMin) % 2 ^ IntBits) + IntMin
-----------------------------------------------------------------------------
(***************************************************************************)
(* Arithmetic: NAN unless both operands are ints or both are floats.       *)
(***************************************************************************)
Numeric(on_ints(_, _), on_reals(_, _), lhs, rhs) ==
  IF lhs.tag # rhs.tag THEN Nan
  ELSE CASE lhs.tag = "int" -> on_ints(lhs.i, rhs.i)
         [] lhs.tag = "real" -> make_value_real(on_reals(lhs.f, rhs.f))
         [] OTHER -> Nan

mul(lhs, rhs) ==
  Numeric(LAMBDA a, b : make_value_int(Wrap(a * b)),
          LAMBDA x, y : <<x[1] * y[1], x[2] * y[2]>>, lhs, rhs)

add(lhs, rhs) ==
  Numeric(LAMBDA a, b : make_value_int(Wrap(a + b)),
          LAMBDA x, y : <<x[1] * y[2] + y[1] * x[2], x[2] * y[2]>>, lhs, rhs)

sub(lhs, rhs) ==
  Numeric(LAMBDA a, b : make_value_int(Wrap(a - b)),
          LAMBDA x, y : <<x[1] * y[2] - y[1] * x[2], x[2] * y[2]>>, lhs, rhs)

\* C rounds a quotient towards zero.
Magnitude(n) == IF n < 0 THEN - n ELSE n
Quotient(a, b) ==
  LET q == Magnitude(a) \div Magnitude(b) IN IF (a < 0) = (b < 0) THEN q ELSE - q

\* A quotient by 0 or by NAN is NAN; denominators stay positive.
RealQuotient(x, y) ==
  CASE y[1] = 0 -> <<0, 0>>
    [] y[1] > 0 -> <<x[1] * y[2], x[2] * y[1]>>
    [] OTHER -> <<0 - x[1] * y[2], 0 - x[2] * y[1]>>

div(lhs, rhs) ==
  Numeric(LAMBDA a, b : IF b # 0 THEN make_value_int(Quotient(a, b)) ELSE Nan,
          RealQuotient, lhs, rhs)

\* The one quotient that is no int: the processor traps.
Overflows(lhs, rhs) ==
  lhs.tag = "int" /\ rhs.tag = "int" /\ lhs.i = IntMin /\ rhs.i = -1
-----------------------------------------------------------------------------
(***************************************************************************)
(* Comparison: FALSE for values of different types, NE included, and for   *)
(* strings and objects.                                                    *)
(***************************************************************************)
Compare(on_nil, on_numbers(_, _), on_reals(_, _), lhs, rhs) ==
  Truth(lhs.tag = rhs.tag /\
    CASE lhs.tag = "nil" -> on_nil
      [] lhs.tag = "bool" -> on_numbers(lhs.byte, rhs.byte)
      [] lhs.tag = "int" -> on_numbers(lhs.i, rhs.i)
      [] lhs.tag = "real" -> on_reals(lhs.f, rhs.f)
      [] OTHER -> FALSE)

Ordered(x, y) == ~ IsNan(x) /\ ~ IsNan(y)
SameReal(x, y) == Ordered(x, y) /\ x[1] * y[2] = y[1] * x[2]
LessReal(x, y) == Ordered(x, y) /\ x[1] * y[2] < y[1] * x[2]

eq(lhs, rhs) == Compare(TRUE, LAMBDA a, b : a = b, SameReal, lhs, rhs)
ne(lhs, rhs) ==
  Compare(FALSE, LAMBDA a, b : a # b, LAMBDA x, y : ~ SameReal(x, y), lhs, rhs)
lt(lhs, rhs) == Compare(FALSE, LAMBDA a, b : a < b, LessReal, lhs, rhs)
gt(lhs, rhs) ==
  Compare(FALSE, LAMBDA a, b : a > b, LAMBDA x, y : LessReal(y, x), lhs, rhs)
-----------------------------------------------------------------------------
(***************************************************************************)
(* Bits: NAN unless both operands are ints.                                *)
(***************************************************************************)
OnInts(op(_, _), lhs, rhs) ==
  IF lhs.tag = "int" /\ rhs.tag = "int"
  THEN make_value_int(Wrap(op(lhs.i % 2 ^ IntBits, rhs.i % 2 ^ IntBits)))
  ELSE Nan

bit_and(lhs, rhs) == OnInts(LAMBDA a, b : a & b, lhs, rhs)
bit_or(lhs, rhs) == OnInts(LAMBDA a, b : a | b, lhs, rhs)
bit_xor(lhs, rhs) == OnInts(LAMBDA a, b : a ^^ b, lhs, rhs)

\* The processor takes the count of a shift modulo the width.
bit_shl(lhs, rhs) == OnInts(LAMBDA a, b : a * 2 ^ (b % IntBits), lhs, rhs)
bit_shr(lhs, rhs) == OnInts(LAMBDA a, b : Wrap(a) \div 2 ^ (b % IntBits), lhs, rhs)

bit_not(value) == IF value.tag = "int" THEN make_value_int(- value.i - 1) ELSE Nan
=============================================================================
