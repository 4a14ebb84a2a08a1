---------------------------- MODULE NumberLemmas ----------------------------
(***************************************************************************)
(* Division, and induction and recursion on the natural numbers in a form  *)
(* the backends can instantiate: the claim is a set of numbers instead of  *)
(* an operator, and the step of a recursion a function.                    *)
(***************************************************************************)
EXTENDS Integers, WellFoundedInduction, TLAPS

-----------------------------------------------------------------------------
(* Division *)

\* The only multiple of b between -b and b is 0.
LEMMA SmallMultiple ==
    ASSUME NEW b \in Nat \ {0}, NEW x \in Int, x * b < b, x * b > -b
    PROVE  x = 0
<1>1. CASE x >= 1
  BY <1>1
<1>2. CASE x <= -1
  BY <1>2
<1> QED BY <1>1, <1>2

\* Quotient and remainder of the floor division.
LEMMA DivMod ==
    ASSUME NEW a \in Int, NEW b \in Nat \ {0}
    PROVE  a \div b \in Int /\ a % b \in 0 .. b - 1 /\ a = b * (a \div b) + (a % b)
OBVIOUS

\* They are the only ones.
LEMMA DivModUnique ==
    ASSUME NEW a \in Int, NEW b \in Nat \ {0}, NEW q \in Int, NEW r \in 0 .. b - 1, a = b * q + r
    PROVE  a \div b = q /\ a % b = r
<1>1. PICK d \in Int, m \in 0 .. b - 1 : a = b * d + m /\ d = a \div b /\ m = a % b
  BY DivMod
<1>2. (q - d) * b = m - r
  BY <1>1
<1>3. q - d = 0
  BY <1>2, SmallMultiple
<1> QED BY <1>1, <1>2, <1>3

LEMMA DivModOf ==
    ASSUME NEW b \in Nat \ {0}, NEW q \in Int, NEW r \in 0 .. b - 1
    PROVE  (b * q + r) \div b = q /\ (b * q + r) % b = r
<1>1. PICK a : a = b * q + r
  OBVIOUS
<1>2. a \in Int /\ q \in Int /\ r \in 0 .. b - 1 /\ a = b * q + r
  BY <1>1
<1>3. a \div b = q /\ a % b = r
  BY <1>2, DivModUnique
<1> QED BY <1>1, <1>3

\* Adding a multiple of the divisor moves the quotient and leaves the remainder.
LEMMA DivModShift ==
    ASSUME NEW a \in Int, NEW b \in Nat \ {0}, NEW t \in Int
    PROVE  (a + b * t) \div b = (a \div b) + t /\ (a + b * t) % b = a % b
<1>1. PICK d \in Int, m \in 0 .. b - 1 : a = b * d + m /\ d = a \div b /\ m = a % b
  BY DivMod
<1>2. a + b * t \in Int /\ d + t \in Int /\ a + b * t = b * (d + t) + m
  BY <1>1
<1>3. PICK e \in Int, q \in Int : e = a + b * t /\ q = d + t /\ e = b * q + m
  BY <1>2
<1>4. e \div b = q /\ e % b = m
  BY <1>3, DivModUnique, SMTT(30)
<1> QED BY <1>1, <1>3, <1>4

-----------------------------------------------------------------------------
(* Induction and recursion *)

\* Every non-empty set of natural numbers has a least element.
LEMMA LeastNatural ==
    ASSUME NEW T, T \subseteq Nat, T # {}
    PROVE  \E x \in T : \A y \in T : x <= y
<1>1. PICK R : R = OpToRel(<, Nat)
  OBVIOUS
<1>2. IsWellFoundedOn(R, Nat)
  BY <1>1, NatLessThanWellFounded
<1>3. PICK x \in T : \A y \in T : ~ (<<y, x>> \in R)
  BY <1>2, WFMin
<1>4. \A y \in T : ~(y < x)
  BY <1>1, <1>3 DEF OpToRel
<1> QED BY <1>4

\* A set that holds 0 and with each number below N the next holds all up to N.
LEMMA InductionUpTo ==
    ASSUME NEW N \in Nat, NEW T, 0 \in T, \A n \in 0 .. N - 1 : n \in T => n + 1 \in T
    PROVE  \A n \in 0 .. N : n \in T
<1> SUFFICES ASSUME (0 .. N) \ T # {} PROVE FALSE
  OBVIOUS
<1>1. PICK x \in (0 .. N) \ T : \A y \in (0 .. N) \ T : x <= y
  <2>1. PICK U : U = (0 .. N) \ T
    OBVIOUS
  <2>2. U \subseteq Nat /\ U # {}
    BY <2>1
  <2> QED BY <2>1, <2>2, LeastNatural
<1>2. x # 0 /\ x - 1 \in 0 .. N - 1
  BY <1>1
<1>3. x - 1 \in T
  BY <1>1, <1>2
<1> QED BY <1>1, <1>2, <1>3

\* There is a function on 0 .. N with the value a at 0 and the step G from each value to the next.
Recursion(N, V, a, G) ==
    \E f \in [0 .. N -> V] : f[0] = a /\ \A n \in 1 .. N : f[n] = G[n][f[n - 1]]

\* A function on 0 .. N may be defined by its value at 0 and a step from each value to the next.
LEMMA RecursiveFunction ==
    ASSUME NEW N \in Nat, NEW V, NEW a \in V, NEW G \in [Nat -> [V -> V]]
    PROVE  Recursion(N, V, a, G)
<1> DEFINE Defines(m, f) == f[0] = a /\ \A n \in 1 .. m : f[n] = G[n][f[n - 1]]
           T == {m \in Nat : \E f \in [0 .. m -> V] : Defines(m, f)}
<1>1. 0 \in T
  <2>1. [n \in 0 .. 0 |-> a] \in [0 .. 0 -> V] /\ Defines(0, [n \in 0 .. 0 |-> a])
    OBVIOUS
  <2> QED BY <2>1
<1>2. ASSUME NEW m \in Nat, m \in T
      PROVE  m + 1 \in T
  <2>1. PICK f \in [0 .. m -> V] : Defines(m, f)
    BY <1>2
  <2>2. PICK v \in V : v = G[m + 1][f[m]]
    OBVIOUS
  <2>3. PICK g : g = [n \in 0 .. m + 1 |-> IF n = m + 1 THEN v ELSE f[n]]
    OBVIOUS
  <2>4. g \in [0 .. m + 1 -> V]
    BY <2>3
  <2>5. g[0] = a
    BY <2>1, <2>3
  <2>6. ASSUME NEW n \in 1 .. m + 1
        PROVE  g[n] = G[n][g[n - 1]]
    <3>1. CASE n = m + 1
      BY <2>2, <2>3, <3>1
    <3>2. CASE n # m + 1
      BY <2>1, <2>3, <3>2
    <3> QED BY <3>1, <3>2
  <2> QED BY <2>4, <2>5, <2>6
<1>3. N \in T
  <2>1. \A m \in 0 .. N - 1 : m \in T => m + 1 \in T
    BY <1>2
  <2> HIDE DEF T
  <2>2. \A m \in 0 .. N : m \in T
    BY <1>1, <2>1, InductionUpTo
  <2> QED BY <2>2
<1> QED BY <1>3 DEF Recursion
=============================================================================
