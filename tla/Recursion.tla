----------------------------- MODULE Recursion -----------------------------
(***************************************************************************)
(* Induction and recursion over the natural numbers, with sets and         *)
(* functions in the place of the operators that the library's theorems     *)
(* take.  Everything rests on the least number of a set.                   *)
(***************************************************************************)
EXTENDS Integers, WellFoundedInduction, TLAPS

\* A set of natural numbers that is not empty has a least one.
LEMMA LeastNumber ==
  ASSUME NEW S \in SUBSET Nat, S # {}
  PROVE  \E n \in S : \A m \in S : n <= m
<1>1. PICK n \in S : \A m \in S : ~ (<<m, n>> \in OpToRel(<, Nat))
  BY NatLessThanWellFounded, WFMin, Zenon
<1>2. \A m \in S : ~ (m < n)
  BY <1>1, Zenon DEF OpToRel
<1> QED BY <1>2

\* What holds of 0 and passes from each number to the next holds up to k.
LEMMA UpTo ==
  ASSUME NEW k \in Nat, NEW S, 0 \in S, \A n \in 1 .. k : n - 1 \in S => n \in S
  PROVE  0 .. k \subseteq S
<1> SUFFICES ASSUME (0 .. k) \ S # {} PROVE FALSE
  OBVIOUS
<1>1. (0 .. k) \ S \in SUBSET Nat
  OBVIOUS
<1>2. PICK n \in (0 .. k) \ S : \A m \in (0 .. k) \ S : n <= m
  BY <1>1, LeastNumber
<1>3. n \in 1 .. k
  BY <1>2
<1>4. n - 1 \in S
  BY <1>2, <1>3
<1> QED BY <1>2, <1>3, <1>4

(***************************************************************************)
(* A recursive definition over 0 .. k, with the values in a set T: next[n] *)
(* makes the value at n from the one before it.                            *)
(***************************************************************************)
Follows(f, k, base, next) ==
  f[0] = base /\ \A n \in 1 .. k : f[n] = next[n][f[n - 1]]

\* There is a function that a recursive definition describes.
LEMMA RecursiveFunction ==
  ASSUME NEW k \in Nat, NEW T, NEW base \in T, NEW next \in [1 .. k -> [T -> T]]
  PROVE  \E f \in [0 .. k -> T] : Follows(f, k, base, next)
<1> DEFINE S == {n \in 0 .. k : \E f \in [0 .. n -> T] : Follows(f, n, base, next)}
<1>1. 0 \in S
  <2>1. [m \in 0 .. 0 |-> base] \in [0 .. 0 -> T]
    OBVIOUS
  <2>2. Follows([m \in 0 .. 0 |-> base], 0, base, next)
    BY DEF Follows
  <2> QED BY <2>1, <2>2
<1>2. ASSUME NEW n \in 1 .. k, n - 1 \in S
      PROVE  n \in S
  <2>0. n \in Nat \ {0} /\ n - 1 \in 0 .. n - 1
    OBVIOUS
  <2>1. PICK f \in [0 .. n - 1 -> T] : Follows(f, n - 1, base, next)
    BY <1>2
  <2>2. PICK last \in T : last = next[n][f[n - 1]]
    BY <2>0, <2>1
  <2> DEFINE g == [m \in 0 .. n |-> IF m = n THEN last ELSE f[m]]
  <2>3. g \in [0 .. n -> T]
    BY <2>0, <2>1
  <2>4. g[0] = base
    BY <2>0, <2>1 DEF Follows
  <2>5. ASSUME NEW m \in 1 .. n PROVE g[m] = next[m][g[m - 1]]
    <3>1. m - 1 \in 0 .. n - 1 /\ g[m - 1] = f[m - 1]
      BY <2>0
    <3>2. CASE m = n
      BY <3>1, <3>2, <2>2
    <3>3. CASE m # n
      <4>1. m \in 1 .. n - 1 /\ g[m] = f[m]
        BY <3>3, <2>0
      <4> QED BY <4>1, <3>1, <2>1 DEF Follows
    <3> QED BY <3>2, <3>3
  <2>6. Follows(g, n, base, next)
    <3> HIDE DEF g
    <3> QED BY <2>4, <2>5 DEF Follows
  <2> HIDE DEF g
  <2> QED BY <2>3, <2>6
<1>3. 0 .. k \subseteq S
  <2> HIDE DEF S
  <2> QED BY <1>1, <1>2, UpTo
<1> QED BY <1>3
=============================================================================
