-------------------------- MODULE EncodePathProofs --------------------------
(***************************************************************************)
(* Proofs about the frames of dsr_encode (DsrFrame) and about the encoder  *)
(* as a whole (EncodePath): what a receiver that has nothing but the bits  *)
(* on the channel makes of them, for every input.                          *)
(***************************************************************************)
EXTENDS EncodePath, NumberLemmas, FiniteSetTheorems, TLAPS

-----------------------------------------------------------------------------
(* Strings of bits *)

\* The sum of two strings has a 1 where exactly one of them has.
LEMMA XorIs == ASSUME NEW A, NEW B, NEW y PROVE y \in Xor(A, B) <=> ~(y \in A <=> y \in B)
BY DEF Xor

\* A step may be a function of what it starts from in a recursion over strings of bits.
LEMMA SetRecursion ==
    ASSUME NEW N \in Nat, NEW W, NEW a0 \in SUBSET W, NEW G \in [1..N -> [SUBSET W -> SUBSET W]]
    PROVE  Recursion(N, SUBSET W, a0, G)
<1>1. PICK H : H = [n \in Nat |-> [s \in SUBSET W |-> IF n \in 1..N THEN G[n][s] ELSE s]]
  OBVIOUS
<1>2. H \in [Nat -> [SUBSET W -> SUBSET W]]
  <2>1. ASSUME NEW n \in Nat
        PROVE  [s \in SUBSET W |-> IF n \in 1..N THEN G[n][s] ELSE s] \in [SUBSET W -> SUBSET W]
    OBVIOUS
  <2> QED BY <1>1, <2>1
<1>3. Recursion(N, SUBSET W, a0, H)
  BY <1>2, RecursiveFunction
<1>4. PICK f \in [0..N -> SUBSET W] : f[0] = a0 /\ \A n \in 1..N : f[n] = H[n][f[n - 1]]
  BY <1>3 DEF Recursion
<1>5. ASSUME NEW n \in 1..N
      PROVE  f[n] = G[n][f[n - 1]]
  <2>1. n \in Nat /\ f[n - 1] \in SUBSET W
    BY <1>4
  <2> QED BY <1>1, <1>4, <2>1
<1> QED BY <1>4, <1>5 DEF Recursion

-----------------------------------------------------------------------------
(* The check bits of a block *)

Register19 == SUBSET (0..18)

\* A step of the register, as seen at one place of it.
LEMMA ShiftedIs ==
    ASSUME NEW s \in Register19, NEW bits, NEW e, NEW y \in Int
    PROVE  /\ Shifted(s, e \in bits) \in Register19
           /\ y \in Shifted(s, e \in bits) <=>
                 ~((y \in 1..18 /\ y - 1 \in s) <=> ((e \in bits <=> 18 \notin s) /\ y \in Polynomial))
<1>1. PICK up : up = {k + 1 : k \in s \ {18}}
  OBVIOUS
<1>2. up \in Register19 /\ (y \in up <=> y \in 1..18 /\ y - 1 \in s)
  <2>1. \A z \in up : z \in 1..18 /\ z - 1 \in s
    BY <1>1 DEF Register19
  <2>2. ASSUME y \in 1..18, y - 1 \in s
        PROVE  y \in up
    BY <1>1, <2>2
  <2> QED BY <2>1, <2>2 DEF Register19
<1>3. Shifted(s, e \in bits) = IF (e \in bits) # (18 \in s) THEN Xor(up, Polynomial) ELSE up
  BY <1>1 DEF Shifted
<1>4. Polynomial \in Register19
  BY DEF Polynomial, Register19
<1>5. CASE e \in bits <=> 18 \notin s
  <2>1. Shifted(s, e \in bits) = Xor(up, Polynomial)
    BY <1>3, <1>5
  <2>2. Xor(up, Polynomial) \in Register19
    BY <1>2, <1>4 DEF Xor, Register19
  <2> QED BY <1>2, <1>5, <2>1, <2>2, XorIs
<1>6. CASE ~(e \in bits <=> 18 \notin s)
  BY <1>2, <1>3, <1>6
<1> QED BY <1>5, <1>6

\* The states of the register, of which the check bits are the last.
Codes(f, bits) ==
    /\ f \in [0..44 -> Register19] /\ f[0] = {}
    /\ \A i \in 1..44 : f[i] = Shifted(f[i - 1], i - 1 \in bits)

LEMMA CheckBitsIs ==
    ASSUME NEW bits
    PROVE  \E f : Codes(f, bits) /\ CheckBits(bits) = f[44]
<1>1. PICK G : G = [i \in 1..44 |-> [s \in Register19 |-> Shifted(s, i - 1 \in bits)]]
  OBVIOUS
<1>2. G \in [1..44 -> [Register19 -> Register19]]
  <2>1. ASSUME NEW i \in 1..44, NEW s \in Register19
        PROVE  Shifted(s, i - 1 \in bits) \in Register19
    BY 0 \in Int, ShiftedIs
  <2> QED BY <1>1, <2>1
<1>3. Recursion(44, Register19, {}, G)
  BY <1>2, SetRecursion DEF Register19
<1>4. PICK f : Codes(f, bits)
  <2>1. PICK f \in [0..44 -> Register19] : f[0] = {} /\ \A i \in 1..44 : f[i] = G[i][f[i - 1]]
    BY <1>3 DEF Recursion
  <2>2. ASSUME NEW i \in 1..44
        PROVE  f[i] = Shifted(f[i - 1], i - 1 \in bits)
    <3>1. f[i - 1] \in Register19
      OBVIOUS
    <3> QED BY <1>1, <2>1, <3>1
  <2> QED BY <2>1, <2>2 DEF Codes
<1>5. f = [i \in 0..44 |-> IF i = 0 THEN {} ELSE Shifted(f[i - 1], i - 1 \in bits)]
  BY <1>4 DEF Codes
<1>6. PICK g : /\ g = [i \in 0..44 |-> IF i = 0 THEN {} ELSE Shifted(g[i - 1], i - 1 \in bits)]
               /\ CheckBits(bits) = g[44]
  <2>1. PICK g : /\ g = CHOOSE h : h = [i \in 0..44 |-> IF i = 0 THEN {} ELSE Shifted(h[i - 1], i - 1 \in bits)]
                 /\ CheckBits(bits) = g[44]
    BY DEF CheckBits
  <2> QED BY <1>5, <2>1
<1>7. \A i \in 0..44 : g[i] = f[i]
  <2>1. PICK T : T = {i \in 0..44 : g[i] = f[i]}
    OBVIOUS
  <2>2. 0 \in T
    BY <1>5, <1>6, <2>1
  <2>3. ASSUME NEW i \in 0..43, i \in T
        PROVE  i + 1 \in T
    <3>1. i + 1 \in 0..44 /\ i + 1 # 0 /\ (i + 1) - 1 = i
      OBVIOUS
    <3> QED BY <1>5, <1>6, <2>1, <2>3, <3>1
  <2> QED BY <2>1, <2>2, <2>3, InductionUpTo
<1> QED BY <1>4, <1>6, <1>7

\* The receiver's register takes the same step, and adds the bit at its other end.
LEMMA TimesXIs ==
    ASSUME NEW s \in Register19, NEW y \in Int
    PROVE  /\ TimesX(s) \in Register19
           /\ y \in TimesX(s) <=> ~((y \in 1..18 /\ y - 1 \in s) <=> (18 \in s /\ y \in Polynomial))
<1>1. PICK up : up = {k + 1 : k \in s}
  OBVIOUS
<1>2. up \in SUBSET (1..19) /\ (y \in up <=> y \in 1..19 /\ y - 1 \in s) /\ (19 \in up <=> 18 \in s)
  <2>1. \A z \in up : z \in 1..19 /\ z - 1 \in s
    BY <1>1 DEF Register19
  <2>2. ASSUME NEW z \in 1..19, z - 1 \in s
        PROVE  z \in up
    BY <1>1, <2>2
  <2> QED BY <2>1, <2>2
<1>3. TimesX(s) = IF 19 \in up THEN Xor(up \ {19}, Polynomial) ELSE up
  BY <1>1 DEF TimesX, Polynomial
<1>4. Polynomial \in Register19
  BY DEF Polynomial, Register19
<1>5. CASE 18 \in s
  <2>1. TimesX(s) = Xor(up \ {19}, Polynomial)
    BY <1>2, <1>3, <1>5
  <2>2. Xor(up \ {19}, Polynomial) \in Register19
    BY <1>2, <1>4 DEF Xor, Register19
  <2>3. y \in up \ {19} <=> y \in 1..18 /\ y - 1 \in s
    BY <1>2
  <2> QED BY <1>5, <2>1, <2>2, <2>3, XorIs
<1>6. CASE 18 \notin s
  <2>1. up \in Register19
    BY <1>2, <1>6 DEF Register19
  <2> QED BY <1>2, <1>3, <1>6, <2>1
<1> QED BY <1>5, <1>6

LEMMA XorType == ASSUME NEW A \in Register19, NEW B \in Register19 PROVE Xor(A, B) \in Register19
BY DEF Xor, Register19

\* Strings of 19 bits are equal when they agree in every place.
LEMMA SameBits ==
    ASSUME NEW A \in Register19, NEW B \in Register19, \A y \in Int : y \in A <=> y \in B
    PROVE  A = B
<1>1. A \subseteq Int /\ B \subseteq Int
  BY DEF Register19
<1>2. \A y : y \in A <=> y \in B
  BY <1>1
<1> QED BY <1>2, Zenon

LEMMA TimesXLinear ==
    ASSUME NEW A \in Register19, NEW B \in Register19
    PROVE  TimesX(Xor(A, B)) = Xor(TimesX(A), TimesX(B))
<1>1. Xor(A, B) \in Register19 /\ TimesX(A) \in Register19 /\ TimesX(B) \in Register19
  BY 0 \in Int, XorType, TimesXIs
<1>2. TimesX(Xor(A, B)) \in Register19 /\ Xor(TimesX(A), TimesX(B)) \in Register19
  BY 0 \in Int, <1>1, XorType, TimesXIs
<1>3. ASSUME NEW y \in Int
      PROVE  y \in TimesX(Xor(A, B)) <=> y \in Xor(TimesX(A), TimesX(B))
  <2>1. y \in TimesX(Xor(A, B)) <=>
          ~((y \in 1..18 /\ y - 1 \in Xor(A, B)) <=> (18 \in Xor(A, B) /\ y \in Polynomial))
    BY <1>1, TimesXIs
  <2>2. /\ y - 1 \in Xor(A, B) <=> ~(y - 1 \in A <=> y - 1 \in B)
        /\ 18 \in Xor(A, B) <=> ~(18 \in A <=> 18 \in B)
    BY XorIs
  <2>3. /\ y \in TimesX(A) <=> ~((y \in 1..18 /\ y - 1 \in A) <=> (18 \in A /\ y \in Polynomial))
        /\ y \in TimesX(B) <=> ~((y \in 1..18 /\ y - 1 \in B) <=> (18 \in B /\ y \in Polynomial))
    BY TimesXIs
  <2>4. y \in Xor(TimesX(A), TimesX(B)) <=> ~(y \in TimesX(A) <=> y \in TimesX(B))
    BY XorIs
  <2> QED BY <2>1, <2>2, <2>3, <2>4, Zenon
<1> QED BY <1>2, <1>3, SameBits

\* Times x ^ 19.
Times2(s)  == TimesX(TimesX(s))
Times4(s)  == Times2(Times2(s))
Times8(s)  == Times4(Times4(s))
Times16(s) == Times8(Times8(s))
Times19(s) == TimesX(Times2(Times16(s)))

LEMMA TimesType ==
    /\ \A s \in Register19 : TimesX(s) \in Register19
    /\ \A s \in Register19 : Times2(s) \in Register19
    /\ \A s \in Register19 : Times4(s) \in Register19
    /\ \A s \in Register19 : Times8(s) \in Register19
    /\ \A s \in Register19 : Times16(s) \in Register19
    /\ \A s \in Register19 : Times19(s) \in Register19
<1>1. \A s \in Register19 : TimesX(s) \in Register19
  BY 0 \in Int, TimesXIs
<1>2. \A s \in Register19 : Times2(s) \in Register19
  BY <1>1 DEF Times2
<1>3. \A s \in Register19 : Times4(s) \in Register19
  BY <1>2 DEF Times4
<1>4. \A s \in Register19 : Times8(s) \in Register19
  BY <1>3 DEF Times8
<1>5. \A s \in Register19 : Times16(s) \in Register19
  BY <1>4 DEF Times16
<1>6. \A s \in Register19 : Times19(s) \in Register19
  BY <1>1, <1>2, <1>5 DEF Times19
<1> QED BY <1>1, <1>2, <1>3, <1>4, <1>5, <1>6

LEMMA Times19Linear ==
    ASSUME NEW A \in Register19, NEW B \in Register19
    PROVE  Times19(Xor(A, B)) = Xor(Times19(A), Times19(B))
<1>1. \A s, t \in Register19 : TimesX(Xor(s, t)) = Xor(TimesX(s), TimesX(t))
  BY TimesXLinear
<1>2. \A s, t \in Register19 : Times2(Xor(s, t)) = Xor(Times2(s), Times2(t))
  BY <1>1, TimesType DEF Times2
<1>3. \A s, t \in Register19 : Times4(Xor(s, t)) = Xor(Times4(s), Times4(t))
  BY <1>2, TimesType DEF Times4
<1>4. \A s, t \in Register19 : Times8(Xor(s, t)) = Xor(Times8(s), Times8(t))
  BY <1>3, TimesType DEF Times8
<1>5. \A s, t \in Register19 : Times16(Xor(s, t)) = Xor(Times16(s), Times16(t))
  BY <1>4, TimesType DEF Times16
<1> QED BY <1>1, <1>2, <1>5, TimesType DEF Times19

LEMMA Times19Shift == ASSUME NEW s PROVE Times19(TimesX(s)) = TimesX(Times19(s))
BY DEF Times19, Times16, Times8, Times4, Times2

\* A single bit moves up, and comes back as the polynomial's low terms.
LEMMA Times19One == Times19({0}) = Polynomial
<1>1. ASSUME NEW k \in 0..17
      PROVE  TimesX({k}) = {k + 1}
  <2>1. {k} \in Register19 /\ {k + 1} \in Register19
    BY DEF Register19
  <2>2. TimesX({k}) \in Register19
    BY <2>1, TimesType
  <2>3. \A y \in Int : y \in TimesX({k}) <=> y \in {k + 1}
    BY <2>1, TimesXIs
  <2> QED BY <2>1, <2>2, <2>3, SameBits
<1>2. TimesX({18}) = Polynomial
  <2>1. {18} \in Register19 /\ Polynomial \in Register19
    BY DEF Register19, Polynomial
  <2>2. TimesX({18}) \in Register19
    BY <2>1, TimesType
  <2>3. \A y \in Int : y \in TimesX({18}) <=> y \in Polynomial
    <3> TAKE y \in Int
    <3>1. y \in TimesX({18}) <=> ~((y \in 1..18 /\ y - 1 \in {18}) <=> (18 \in {18} /\ y \in Polynomial))
      BY <2>1, TimesXIs
    <3>2. y \in Polynomial => y <= 15
      BY DEF Polynomial
    <3> QED BY <3>1, <3>2
  <2> QED BY <2>1, <2>2, <2>3, SameBits
<1>3. \A k \in 0..16 : Times2({k}) = {k + 2}
  <2> TAKE k \in 0..16
  <2>1. k \in 0..17 /\ k + 1 \in 0..17 /\ (k + 1) + 1 = k + 2
    OBVIOUS
  <2> QED BY <1>1, <2>1 DEF Times2
<1>4. \A k \in 0..14 : Times4({k}) = {k + 4}
  <2> TAKE k \in 0..14
  <2>1. k \in 0..16 /\ k + 2 \in 0..16 /\ (k + 2) + 2 = k + 4
    OBVIOUS
  <2> QED BY <1>3, <2>1 DEF Times4
<1>5. \A k \in 0..10 : Times8({k}) = {k + 8}
  <2> TAKE k \in 0..10
  <2>1. k \in 0..14 /\ k + 4 \in 0..14 /\ (k + 4) + 4 = k + 8
    OBVIOUS
  <2> QED BY <1>4, <2>1 DEF Times8
<1>6. Times8({0}) = {8} /\ Times8({8}) = {16} /\ Times2({16}) = {18}
  BY <1>3, <1>5
<1> QED BY <1>2, <1>6 DEF Times16, Times19

\* Nothing but silence is silent after a step.
LEMMA TimesXInjective == ASSUME NEW s \in Register19, TimesX(s) = {} PROVE s = {}
<1>1. 18 \notin s
  <2>1. 0 \in TimesX(s) <=> ~((0 \in 1..18 /\ 0 - 1 \in s) <=> (18 \in s /\ 0 \in Polynomial))
    BY TimesXIs
  <2>2. 0 \in Polynomial /\ 0 \notin 1..18
    BY DEF Polynomial
  <2> QED BY <2>1, <2>2
<1>2. ASSUME NEW y \in s
      PROVE  FALSE
  <2>1. y \in 0..18 /\ y # 18
    BY <1>1 DEF Register19
  <2>2. y + 1 \in TimesX(s) <=> ~((y + 1 \in 1..18 /\ (y + 1) - 1 \in s) <=> (18 \in s /\ y + 1 \in Polynomial))
    BY <2>1, TimesXIs
  <2>3. y + 1 \in 1..18 /\ (y + 1) - 1 = y
    BY <2>1
  <2> QED BY <1>1, <1>2, <2>2, <2>3
<1> QED BY <1>2

LEMMA Times19Injective == ASSUME NEW s \in Register19, Times19(s) = {} PROVE s = {}
<1>1. \A t \in Register19 : TimesX(t) = {} => t = {}
  BY TimesXInjective
<1>2. \A t \in Register19 : Times2(t) = {} => t = {}
  BY <1>1, TimesType DEF Times2
<1>3. \A t \in Register19 : Times4(t) = {} => t = {}
  BY <1>2, TimesType DEF Times4
<1>4. \A t \in Register19 : Times8(t) = {} => t = {}
  BY <1>3, TimesType DEF Times8
<1>5. \A t \in Register19 : Times16(t) = {} => t = {}
  BY <1>4, TimesType DEF Times16
<1> QED BY <1>1, <1>2, <1>5, TimesType DEF Times19

\* A step of the sender's register adds the polynomial for each bit.
LEMMA ShiftedSum ==
    ASSUME NEW s \in Register19, NEW bits, NEW e
    PROVE  Shifted(s, e \in bits) = Xor(TimesX(s), IF e \in bits THEN Polynomial ELSE {})
<1>1. PICK t : t = IF e \in bits THEN Polynomial ELSE {}
  OBVIOUS
<1>2. t \in Register19 /\ \A y : y \in t <=> (e \in bits /\ y \in Polynomial)
  BY <1>1 DEF Register19, Polynomial
<1>3. TimesX(s) \in Register19 /\ Xor(TimesX(s), t) \in Register19 /\ Shifted(s, e \in bits) \in Register19
  BY <1>2, 0 \in Int, TimesType, XorType, ShiftedIs
<1>4. ASSUME NEW y \in Int
      PROVE  y \in Shifted(s, e \in bits) <=> y \in Xor(TimesX(s), t)
  <2>1. y \in Shifted(s, e \in bits) <=>
          ~((y \in 1..18 /\ y - 1 \in s) <=> ((e \in bits <=> 18 \notin s) /\ y \in Polynomial))
    BY ShiftedIs
  <2>2. y \in TimesX(s) <=> ~((y \in 1..18 /\ y - 1 \in s) <=> (18 \in s /\ y \in Polynomial))
    BY TimesXIs
  <2>3. y \in Xor(TimesX(s), t) <=> ~(y \in TimesX(s) <=> y \in t)
    BY XorIs
  <2> QED BY <1>2, <2>1, <2>2, <2>3, Zenon
<1> QED BY <1>1, <1>3, <1>4, SameBits

\* What the receiver has left over after each bit.
Rest(s, bits, e) == Xor(TimesX(s), IF e \in bits THEN {0} ELSE {})
Rests(f, bits) ==
    /\ f \in [0..63 -> Register19] /\ f[0] = {}
    /\ \A p \in 1..63 : f[p] = Rest(f[p - 1], bits, p - 1)

LEMMA SyndromeIs ==
    ASSUME NEW bits
    PROVE  \E f : Rests(f, bits) /\ Syndrome(bits) = f[63]
<1>1. PICK G : G = [p \in 1..63 |-> [s \in Register19 |-> Rest(s, bits, p - 1)]]
  OBVIOUS
<1>2. G \in [1..63 -> [Register19 -> Register19]]
  <2>1. ASSUME NEW p \in 1..63, NEW s \in Register19
        PROVE  Rest(s, bits, p - 1) \in Register19
    <3>1. PICK t : t = IF p - 1 \in bits THEN {0} ELSE {}
      OBVIOUS
    <3>2. t \in Register19
      BY <3>1 DEF Register19
    <3> QED BY <3>1, <3>2, TimesType, XorType DEF Rest
  <2> QED BY <1>1, <2>1
<1>3. Recursion(63, Register19, {}, G)
  BY <1>2, SetRecursion DEF Register19
<1>4. PICK f : Rests(f, bits)
  <2>1. PICK f \in [0..63 -> Register19] : f[0] = {} /\ \A p \in 1..63 : f[p] = G[p][f[p - 1]]
    BY <1>3 DEF Recursion
  <2>2. ASSUME NEW p \in 1..63
        PROVE  f[p] = Rest(f[p - 1], bits, p - 1)
    <3>1. f[p - 1] \in Register19
      OBVIOUS
    <3> QED BY <1>1, <2>1, <3>1
  <2> QED BY <2>1, <2>2 DEF Rests
<1>5. f = [p \in 0..63 |-> IF p = 0 THEN {} ELSE Rest(f[p - 1], bits, p - 1)]
  BY <1>4 DEF Rests
<1>6. PICK g : /\ g = [p \in 0..63 |-> IF p = 0 THEN {} ELSE Rest(g[p - 1], bits, p - 1)]
               /\ Syndrome(bits) = g[63]
  <2>1. PICK g : /\ g = CHOOSE h : h = [p \in 0..63 |-> IF p = 0 THEN {} ELSE Rest(h[p - 1], bits, p - 1)]
                 /\ Syndrome(bits) = g[63]
    BY DEF Syndrome, Rest
  <2> QED BY <1>5, <2>1
<1>7. \A p \in 0..63 : g[p] = f[p]
  <2>1. PICK T : T = {p \in 0..63 : g[p] = f[p]}
    OBVIOUS
  <2>2. 0 \in T
    BY <1>5, <1>6, <2>1
  <2>3. ASSUME NEW p \in 0..62, p \in T
        PROVE  p + 1 \in T
    <3>1. p + 1 \in 0..63 /\ p + 1 # 0 /\ (p + 1) - 1 = p
      OBVIOUS
    <3>2. f[p + 1] = Rest(f[p], bits, p)
      BY <1>5, <3>1
    <3>3. g[p + 1] = Rest(g[p], bits, p)
      BY <1>6, <3>1
    <3>4. g[p] = f[p]
      BY <2>1, <2>3
    <3> QED BY <2>1, <3>1, <3>2, <3>3, <3>4
  <2> QED BY <2>1, <2>2, <2>3, InductionUpTo
<1> QED BY <1>4, <1>6, <1>7

\* Times x ^ 19, what the receiver has left over makes the step of the sender's register.
LEMMA RestIsShifted ==
    ASSUME NEW s \in Register19, NEW bits, NEW e
    PROVE  Times19(Rest(s, bits, e)) = Shifted(Times19(s), e \in bits)
<1>1. PICK t : t = IF e \in bits THEN {0} ELSE {}
  OBVIOUS
<1>0. t \in Register19
  BY <1>1 DEF Register19
<1>2. Times19(Rest(s, bits, e)) = Xor(Times19(TimesX(s)), Times19(t))
  BY <1>0, <1>1, TimesType, Times19Linear DEF Rest
<1>3. Times19(TimesX(s)) = TimesX(Times19(s))
  BY Times19Shift
<1>4. Times19(t) = IF e \in bits THEN Polynomial ELSE {}
  <2>1. CASE e \in bits
    BY <1>1, <2>1, Times19One
  <2>2. CASE e \notin bits
    <3>1. TimesX({}) = {}
      <4>1. {} \in Register19 /\ TimesX({}) \in Register19
        BY TimesType DEF Register19
      <4>2. \A y \in Int : y \in TimesX({}) <=> y \in {}
        BY <4>1, TimesXIs
      <4> QED BY <4>1, <4>2, SameBits
    <3>2. Times19({}) = {}
      BY <3>1 DEF Times19, Times16, Times8, Times4, Times2
    <3> QED BY <1>1, <2>2, <3>2
  <2> QED BY <2>1, <2>2
<1> QED BY <1>2, <1>3, <1>4, TimesType, ShiftedSum

\* A block with its check bits divides by the generator polynomial without remainder: the
\* receiver's register is the sender's for the 44 bits, and empties over the check bits.
LEMMA BchDivides ==
    ASSUME NEW bits, NEW all, \A y \in 0..43 : y \in all <=> y \in bits,
           \A y \in 0..18 : 62 - y \in all <=> y \in CheckBits(bits)
    PROVE  Syndrome(all) = {}
<1>1. PICK f : Codes(f, bits) /\ CheckBits(bits) = f[44]
  BY CheckBitsIs
<1>2. PICK r : Rests(r, all) /\ Syndrome(all) = r[63]
  BY SyndromeIs
<1>3. \A i \in 0..63 : r[i] \in Register19
  BY <1>2 DEF Rests
<1>4. Times19({}) = {}
  <2>1. {} \in Register19 /\ Xor({}, {}) = {} /\ Times19({}) \in Register19
    BY TimesType DEF Register19, Xor
  <2>2. Xor(Times19({}), Times19({})) = {}
    BY DEF Xor
  <2> QED BY <2>1, <2>2, Times19Linear
<1>5. \A i \in 0..44 : Times19(r[i]) = f[i]
  <2>1. PICK T : T = {i \in 0..44 : Times19(r[i]) = f[i]}
    OBVIOUS
  <2>2. 0 \in T
    <3>1. r[0] = {} /\ f[0] = {}
      BY <1>1, <1>2 DEF Codes, Rests
    <3> QED BY <1>4, <2>1, <3>1
  <2>3. ASSUME NEW i \in 0..43, i \in T
        PROVE  i + 1 \in T
    <3>1. i + 1 \in 1..44 /\ i + 1 \in 1..63 /\ (i + 1) - 1 = i /\ i \in 0..63 /\ i + 1 \in 0..44
      OBVIOUS
    <3>2. r[i + 1] = Rest(r[i], all, i)
      BY <1>2, <3>1 DEF Rests
    <3>3. Times19(r[i + 1]) = Shifted(Times19(r[i]), i \in all)
      <4>1. r[i] \in Register19
        BY <1>3, <3>1
      <4> QED BY <3>2, <4>1, RestIsShifted
    <3>4. f[i + 1] = Shifted(f[i], i \in bits)
      BY <1>1, <3>1 DEF Codes
    <3>5. Shifted(f[i], i \in all) = Shifted(f[i], i \in bits)
      <4>1. CASE i \in bits
        BY <4>1 DEF Shifted
      <4>2. CASE i \notin bits
        BY <4>2 DEF Shifted
      <4> QED BY <4>1, <4>2
    <3> QED BY <2>1, <2>3, <3>1, <3>3, <3>4, <3>5
  <2> QED BY <2>1, <2>2, <2>3, InductionUpTo
<1>6. PICK c \in Register19 : c = f[44]
  BY <1>1 DEF Codes
<1> DEFINE Left(j) == {y \in 0..18 : y - j \in c}
<1>7. \A j \in 0..19 : Times19(r[44 + j]) = Left(j)
  <2>1. PICK T : T = {j \in 0..19 : Times19(r[44 + j]) = Left(j)}
    OBVIOUS
  <2>2. 0 \in T
    <3>1. Left(0) = c
      <4>1. \A y : y \in c => y \in 0..18
        BY DEF Register19
      <4>2. \A y \in 0..18 : y - 0 = y
        OBVIOUS
      <4> QED BY <4>1, <4>2
    <3>2. Times19(r[44 + 0]) = c
      BY <1>5, <1>6
    <3> QED BY <2>1, <3>1, <3>2
  <2>3. ASSUME NEW j \in 0..18, j \in T
        PROVE  j + 1 \in T
    <3>1. 44 + j \in 0..63 /\ 44 + (j + 1) \in 1..63 /\ (44 + (j + 1)) - 1 = 44 + j /\ j + 1 \in 0..19
      OBVIOUS
    <3>2. r[44 + (j + 1)] = Rest(r[44 + j], all, 44 + j)
      BY <1>2, <3>1 DEF Rests
    <3>3. Times19(r[44 + (j + 1)]) = Shifted(Left(j), 44 + j \in all)
      <4>1. Times19(r[44 + j]) = Left(j)
        BY <2>1, <2>3
      <4> QED BY <1>3, <3>1, <3>2, <4>1, RestIsShifted, ZenonT(60)
    <3>4. 44 + j \in all <=> 18 \in Left(j)
      <4>1. 18 - j \in 0..18 /\ 62 - (18 - j) = 44 + j
        OBVIOUS
      <4>2. 62 - (18 - j) \in all <=> 18 - j \in c
        BY <1>1, <1>6, <4>1
      <4> QED BY <4>1, <4>2
    <3>5. Left(j) \in Register19 /\ Left(j + 1) \in Register19 /\ Shifted(Left(j), 44 + j \in all) \in Register19
      <4>1. Left(j) \in Register19 /\ Left(j + 1) \in Register19
        BY DEF Register19
      <4> HIDE DEF Left
      <4> QED BY <4>1, 0 \in Int, ShiftedIs
    <3>6. ASSUME NEW y \in Int
          PROVE  y \in Shifted(Left(j), 44 + j \in all) <=> y \in Left(j + 1)
      <4>1. y \in Left(j + 1) <=> y \in 1..18 /\ y - 1 \in Left(j)
        <5>1. y - (j + 1) = (y - 1) - j
          OBVIOUS
        <5>2. ASSUME y = 0 PROVE y - (j + 1) \notin c
          BY <5>2 DEF Register19
        <5> QED BY <5>1, <5>2
      <4> HIDE DEF Left
      <4>2. y \in Shifted(Left(j), 44 + j \in all) <=>
              ~((y \in 1..18 /\ y - 1 \in Left(j)) <=>
                ((44 + j \in all <=> 18 \notin Left(j)) /\ y \in Polynomial))
        BY <3>5, ShiftedIs
      <4> QED BY <3>4, <4>1, <4>2
    <3>7. Shifted(Left(j), 44 + j \in all) = Left(j + 1)
      <4> HIDE DEF Left
      <4> QED BY <3>5, <3>6, SameBits
    <3> QED BY <2>1, <3>1, <3>3, <3>7
  <2> HIDE DEF Left
  <2> QED BY <2>1, <2>2, <2>3, InductionUpTo
<1>8. Times19(r[63]) = {}
  <2>1. Left(19) = {}
    BY DEF Register19
  <2> QED BY <1>7, <2>1
<1> QED BY <1>2, <1>3, <1>8, Times19Injective

-----------------------------------------------------------------------------
(* The rows of the code *)

LEMMA XorSwap ==
    ASSUME NEW P, NEW Q, NEW R, NEW S
    PROVE  Xor(Xor(P, Q), Xor(R, S)) = Xor(Xor(P, R), Xor(Q, S))
BY DEF Xor

\* The check bits of a sum are the sum of the check bits.
LEMMA CheckBitsLinear ==
    ASSUME NEW A, NEW B, NEW C, \A e \in 0..43 : e \in C <=> ~(e \in A <=> e \in B)
    PROVE  /\ CheckBits(A) \in Register19 /\ CheckBits(B) \in Register19
           /\ CheckBits(C) = Xor(CheckBits(A), CheckBits(B))
<1>1. PICK f : Codes(f, A) /\ CheckBits(A) = f[44]
  BY CheckBitsIs
<1>2. PICK g : Codes(g, B) /\ CheckBits(B) = g[44]
  BY CheckBitsIs
<1>3. PICK h : Codes(h, C) /\ CheckBits(C) = h[44]
  BY CheckBitsIs
<1>4. \A i \in 0..44 : f[i] \in Register19 /\ g[i] \in Register19
  BY <1>1, <1>2 DEF Codes
<1>5. PICK T : T = {i \in 0..44 : h[i] = Xor(f[i], g[i])}
  OBVIOUS
<1>6. 0 \in T
  <2>1. f[0] = {} /\ g[0] = {} /\ h[0] = {} /\ Xor({}, {}) = {}
    BY <1>1, <1>2, <1>3 DEF Codes, Xor
  <2> QED BY <1>5, <2>1
<1>7. ASSUME NEW i \in 0..43, i \in T
      PROVE  i + 1 \in T
  <2>1. i + 1 \in 1..44 /\ i + 1 \in 0..44 /\ i \in 0..44 /\ (i + 1) - 1 = i
    OBVIOUS
  <2>2. PICK s \in Register19, t \in Register19 : s = f[i] /\ t = g[i] /\ h[i] = Xor(s, t)
    BY <1>4, <1>5, <1>7, <2>1
  <2>3. /\ f[i + 1] = Shifted(s, i \in A) /\ g[i + 1] = Shifted(t, i \in B)
        /\ h[i + 1] = Shifted(Xor(s, t), i \in C)
    BY <1>1, <1>2, <1>3, <2>1, <2>2 DEF Codes
  <2> DEFINE Term(bits) == IF i \in bits THEN Polynomial ELSE {}
  <2>4. /\ f[i + 1] = Xor(TimesX(s), Term(A)) /\ g[i + 1] = Xor(TimesX(t), Term(B))
        /\ h[i + 1] = Xor(Xor(TimesX(s), TimesX(t)), Term(C))
    BY <2>3, ShiftedSum, XorType, TimesXLinear
  <2>5. Term(C) = Xor(Term(A), Term(B))
    <3>1. i \in C <=> ~(i \in A <=> i \in B)
      OBVIOUS
    <3>2. /\ Xor({}, {}) = {} /\ Xor(Polynomial, {}) = Polynomial
          /\ Xor({}, Polynomial) = Polynomial /\ Xor(Polynomial, Polynomial) = {}
      BY DEF Xor
    <3> QED BY <3>1, <3>2
  <2> HIDE DEF Term
  <2>6. h[i + 1] = Xor(f[i + 1], g[i + 1])
    BY <2>4, <2>5, XorSwap
  <2> QED BY <1>5, <2>1, <2>6
<1>8. \A i \in 0..44 : h[i] = Xor(f[i], g[i])
  BY <1>5, <1>6, <1>7, InductionUpTo
<1> QED BY <1>1, <1>2, <1>3, <1>4, <1>8

LEMMA CheckBitsOfNone == CheckBits({}) = {}
<1>1. CheckBits({}) = Xor(CheckBits({}), CheckBits({}))
  BY CheckBitsLinear
<1> QED BY <1>1 DEF Xor

\* Whether an odd number of the bits has check bit i in its row.
OddAt(W, i) == Cardinality({p \in W : i \in Row63[p]}) % 2 = 1

\* One bit more changes that where its row has check bit i.
LEMMA OneMore ==
    ASSUME NEW W, IsFiniteSet(W), NEW q, q \notin W, NEW i
    PROVE  OddAt(W \cup {q}, i) <=> ~(OddAt(W, i) <=> i \in Row63[q])
<1>1. PICK S : S = {p \in W : i \in Row63[p]}
  OBVIOUS
<1>2. IsFiniteSet(S) /\ q \notin S
  BY <1>1, FS_Subset
<1>3. Cardinality(S) \in Nat
  BY <1>2, FS_CardinalityType
<1>4. CASE i \in Row63[q]
  <2>1. {p \in W \cup {q} : i \in Row63[p]} = S \cup {q}
    BY <1>1, <1>4
  <2>2. Cardinality(S \cup {q}) = Cardinality(S) + 1
    BY <1>2, FS_AddElement
  <2>3. (Cardinality(S) + 1) % 2 = 1 <=> Cardinality(S) % 2 # 1
    BY <1>3
  <2> QED BY <1>1, <1>4, <2>1, <2>2, <2>3 DEF OddAt
<1>5. CASE i \notin Row63[q]
  <2>1. {p \in W \cup {q} : i \in Row63[p]} = S
    BY <1>1, <1>5
  <2> QED BY <1>1, <1>5, <2>1 DEF OddAt
<1> QED BY <1>4, <1>5

\* What is a check bit of a block, and of the row of a bit.
LEMMA CheckBitAt ==
    ASSUME NEW bits, NEW i \in 44..62
    PROVE  /\ i \in BchEncode(bits) <=> 62 - i \in CheckBits(bits)
           /\ \A p \in 0..43 : i \in Row63[p] <=> 62 - i \in CheckBits({p})
           /\ \A p \in 44..62 : i \in Row63[p] <=> p = i
<1>1. ASSUME NEW set
      PROVE  i \in BchEncode(set) <=> 62 - i \in CheckBits(set)
  <2>1. CheckBits(set) \in Register19
    BY CheckBitsIs DEF Codes
  <2>2. \A k \in CheckBits(set) : k \in 0..18 /\ (62 - k = i => k = 62 - i)
    BY <2>1 DEF Register19
  <2>3. 62 - (62 - i) = i
    OBVIOUS
  <2> QED BY <2>2, <2>3 DEF BchEncode
<1>2. ASSUME NEW p \in 0..43
      PROVE  i \in Row63[p] <=> 62 - i \in CheckBits({p})
  <2>1. Row63[p] = BchEncode({p}) \ {p} /\ p # i
    BY DEF Row63
  <2> QED BY <1>1, <2>1
<1>3. ASSUME NEW p \in 44..62
      PROVE  i \in Row63[p] <=> p = i
  BY DEF Row63
<1> QED BY <1>1, <1>2, <1>3

\* A block that BchEncode made is the sum of the rows of its first 44 bits, whatever they
\* are, so it upsets no check bit: what CodesFarApart finds for the words that upset none
\* holds of every block sent (dsr.c:226-242).
THEOREM BlocksUpsetNothing ==
    ASSUME NEW bits
    PROVE  Upset(BchEncode(bits) \cap 0..62) = {}
<1> DEFINE First(k) == bits \cap 0 .. k - 1
<1>1. \A k \in 0..44 : IsFiniteSet(First(k))
  <2> TAKE k \in 0..44
  <2>1. IsFiniteSet(0 .. k - 1)
    BY FS_Interval
  <2> QED BY <2>1, FS_Subset
<1>2. PICK T : T = {k \in 0..44 : \A i \in 44..62 : 62 - i \in CheckBits(First(k)) <=> OddAt(First(k), i)}
  OBVIOUS
<1>3. 0 \in T
  <2>1. First(0) = {}
    OBVIOUS
  <2>2. ASSUME NEW i
        PROVE  ~OddAt({}, i)
    <3>1. Cardinality({p \in {} : i \in Row63[p]}) = 0
      BY FS_EmptySet
    <3> QED BY <3>1 DEF OddAt
  <2> HIDE DEF First
  <2> QED BY <1>2, <2>1, <2>2, CheckBitsOfNone
<1>4. ASSUME NEW k \in 0..43, k \in T
      PROVE  k + 1 \in T
  <2>1. CASE k \notin bits
    <3>1. First(k + 1) = First(k)
      BY <2>1
    <3> HIDE DEF First
    <3> QED BY <1>2, <1>4, <3>1
  <2>2. CASE k \in bits
    <3>1. First(k + 1) = First(k) \cup {k} /\ k \notin First(k)
      BY <2>2
    <3> HIDE DEF First
    <3>2. CheckBits(First(k + 1)) = Xor(CheckBits(First(k)), CheckBits({k}))
      <4>1. \A e \in 0..43 : e \in First(k + 1) <=> ~(e \in First(k) <=> e \in {k})
        BY <3>1
      <4> QED BY <4>1, CheckBitsLinear
    <3>3. ASSUME NEW i \in 44..62
          PROVE  62 - i \in CheckBits(First(k + 1)) <=> OddAt(First(k + 1), i)
      <4>1. 62 - i \in CheckBits(First(k)) <=> OddAt(First(k), i)
        BY <1>2, <1>4
      <4>2. i \in Row63[k] <=> 62 - i \in CheckBits({k})
        BY CheckBitAt
      <4>3. OddAt(First(k + 1), i) <=> ~(OddAt(First(k), i) <=> i \in Row63[k])
        <5>1. PICK W : W = First(k)
          OBVIOUS
        <5>2. IsFiniteSet(W) /\ k \notin W /\ First(k + 1) = W \cup {k}
          BY <1>1, <3>1, <5>1
        <5>3. OddAt(W \cup {k}, i) <=> ~(OddAt(W, i) <=> i \in Row63[k])
          BY <5>2, OneMore
        <5> QED BY <5>1, <5>2, <5>3
      <4>4. 62 - i \in CheckBits(First(k + 1)) <=>
              ~(62 - i \in CheckBits(First(k)) <=> 62 - i \in CheckBits({k}))
        BY <3>2, XorIs
      <4> QED BY <4>1, <4>2, <4>3, <4>4
    <3> QED BY <1>2, <3>3
  <2> QED BY <2>1, <2>2
<1>5. 44 \in T
  BY <1>3, <1>4, InductionUpTo
<1>6. CheckBits(bits) = CheckBits(First(44))
  <2>1. CheckBits(bits) = Xor(CheckBits(First(44)), CheckBits({}))
    BY CheckBitsLinear
  <2> QED BY <2>1, CheckBitsOfNone DEF Xor
<1>7. PICK all : all = BchEncode(bits) \cap 0..62
  OBVIOUS
<1>8. ASSUME NEW i \in 44..62
      PROVE  ~OddAt(all, i)
  <2>1. PICK W : W = {p \in all : i \in Row63[p]} \ {i}
    OBVIOUS
  <2>2. W = {p \in First(44) : i \in Row63[p]}
    <3>1. \A p \in 0..43 : p \in all <=> p \in First(44)
      <4>1. CheckBits(bits) \in Register19
        BY CheckBitsIs DEF Codes
      <4>2. \A y \in CheckBits(bits) : 62 - y \in 44..62
        BY <4>1 DEF Register19
      <4> QED BY <1>7, <4>2 DEF BchEncode
    <3>2. \A p \in all : p \in 0..43 \/ p \in 44..62
      BY <1>7
    <3>3. \A p \in 44..62 : i \in Row63[p] <=> p = i
      BY CheckBitAt
    <3>4. First(44) \subseteq 0..43 /\ i \notin 0..43
      OBVIOUS
    <3> HIDE DEF First
    <3> QED BY <2>1, <3>1, <3>2, <3>3, <3>4
  <2>3. IsFiniteSet(W) /\ i \notin W
    <3>1. IsFiniteSet(First(44))
      BY <1>1
    <3> HIDE DEF First
    <3> QED BY <2>1, <2>2, <3>1, FS_Subset
  <2>4. i \in all <=> Cardinality(W) % 2 = 1
    <3>1. i \in all <=> 62 - i \in CheckBits(First(44))
      BY <1>6, <1>7, CheckBitAt
    <3>2. 62 - i \in CheckBits(First(44)) <=> OddAt(First(44), i)
      BY <1>2, <1>5
    <3> HIDE DEF First
    <3> QED BY <2>2, <3>1, <3>2 DEF OddAt
  <2>5. Cardinality(W) \in Nat
    BY <2>3, FS_CardinalityType
  <2>6. i \in Row63[i]
    BY CheckBitAt
  <2>7. CASE i \in all
    <3>1. {p \in all : i \in Row63[p]} = W \cup {i}
      BY <2>1, <2>6, <2>7
    <3>2. Cardinality(W \cup {i}) = Cardinality(W) + 1
      BY <2>3, FS_AddElement
    <3>3. Cardinality(W) % 2 = 1 => (Cardinality(W) + 1) % 2 # 1
      BY <2>5
    <3> QED BY <2>4, <2>7, <3>1, <3>2, <3>3 DEF OddAt
  <2>8. CASE i \notin all
    <3>1. {p \in all : i \in Row63[p]} = W
      BY <2>1, <2>8
    <3> QED BY <2>4, <2>8, <3>1 DEF OddAt
  <2> QED BY <2>7, <2>8
<1> QED BY <1>7, <1>8 DEF Upset, OddAt

-----------------------------------------------------------------------------
(* Numbers in bits *)

\* What bits_write_uint leaves at each place.
LEMMA BitsWriteIs ==
    ASSUME NEW bits, NEW p \in Int, NEW v, NEW n \in Nat, NEW y \in Int
    PROVE  /\ y \in p .. p + n - 1 => (y \in BitsWrite(bits, p, v, n) <=> Bit(v, p + n - 1 - y) = 1)
           /\ y \notin p .. p + n - 1 => (y \in BitsWrite(bits, p, v, n) <=> y \in bits)
<1>1. PICK ones : ones = {i \in 0 .. n - 1 : Bit(v, i) = 1}
  OBVIOUS
<1>2. PICK set : set = {p + n - 1 - i : i \in ones}
  OBVIOUS
<1>3. BitsWrite(bits, p, v, n) = (bits \ (p .. p + n - 1)) \cup set
  BY <1>1, <1>2 DEF BitsWrite
<1>4. y \in set <=> y \in p .. p + n - 1 /\ p + n - 1 - y \in ones
  <2>1. ASSUME y \in p .. p + n - 1, p + n - 1 - y \in ones
        PROVE  y \in set
    <3>1. p + n - 1 - (p + n - 1 - y) = y
      OBVIOUS
    <3> QED BY <1>2, <2>1, <3>1
  <2>2. ASSUME y \in set
        PROVE  y \in p .. p + n - 1 /\ p + n - 1 - y \in ones
    <3>1. PICK i \in ones : y = p + n - 1 - i
      BY <1>2, <2>2
    <3>2. i \in 0 .. n - 1 /\ p + n - 1 - y = i
      BY <1>1, <3>1
    <3> QED BY <3>1, <3>2
  <2> QED BY <2>1, <2>2
<1>5. ASSUME y \in p .. p + n - 1
      PROVE  p + n - 1 - y \in 0 .. n - 1
  BY <1>5
<1> QED BY <1>1, <1>3, <1>4, <1>5

LEMMA BitsWriteWithin ==
    ASSUME NEW bits, NEW p \in Int, NEW v, NEW n \in Nat
    PROVE  BitsWrite(bits, p, v, n) \subseteq bits \cup p .. p + n - 1
<1>1. \A i \in 0 .. n - 1 : p + n - 1 - i \in p .. p + n - 1
  OBVIOUS
<1> QED BY <1>1 DEF BitsWrite

\* The powers of two, and a number shifted right.
Two(n) == <<1, 2, 4, 8, 16, 32, 64, 128, 256, 512, 1024, 2048>>[n + 1]
LEMMA Powers ==
    /\ Two(0) = 1 /\ Two(1) = 2 /\ Two(2) = 4 /\ Two(3) = 8 /\ Two(4) = 16 /\ Two(5) = 32
    /\ Two(6) = 64 /\ Two(7) = 128 /\ Two(8) = 256 /\ Two(9) = 512 /\ Two(10) = 1024
    /\ Two(11) = 2048
BY DEF Two

LEMMA PowersGrow ==
    /\ \A n \in 0..11 : Two(n) \in Nat \ {0}
    /\ \A n \in 0..10 : Two(n + 1) = 2 * Two(n)
<1>1. ASSUME NEW n \in 0..11
      PROVE  Two(n) \in Nat \ {0}
  <2>1. n \in {0, 1, 2, 3, 4, 5, 6, 7, 8, 9, 10, 11}
    OBVIOUS
  <2> QED BY <2>1, Powers
<1>2. ASSUME NEW n \in 0..10
      PROVE  Two(n + 1) = 2 * Two(n)
  <2>1. n \in {0, 1, 2, 3, 4, 5, 6, 7, 8, 9, 10}
    OBVIOUS
  <2> QED BY <2>1, Powers
<1> QED BY <1>1, <1>2

LEMMA BitIs == ASSUME NEW v \in Int, NEW n \in 0..10 PROVE Bit(v, n) = (v \div Two(n)) % 2
<1>1. /\ Bit(v, 0) = (v \div 1) % 2 /\ Bit(v, 1) = (v \div 2) % 2 /\ Bit(v, 2) = (v \div 4) % 2
      /\ Bit(v, 3) = (v \div 8) % 2 /\ Bit(v, 4) = (v \div 16) % 2 /\ Bit(v, 5) = (v \div 32) % 2
  BY DEF Bit
<1>2. /\ Bit(v, 6) = (v \div 64) % 2 /\ Bit(v, 7) = (v \div 128) % 2 /\ Bit(v, 8) = (v \div 256) % 2
      /\ Bit(v, 9) = (v \div 512) % 2 /\ Bit(v, 10) = (v \div 1024) % 2
  BY DEF Bit
<1>3. CASE n \in {0, 1, 2, 3, 4, 5}
  BY <1>1, <1>3, Powers
<1>4. CASE n \in {6, 7, 8, 9, 10}
  BY <1>2, <1>4, Powers
<1> QED BY <1>3, <1>4

LEMMA Halves ==
    ASSUME NEW v \in Int, NEW n \in 0..10
    PROVE  /\ v \div Two(n) \in Int
           /\ v \div Two(n) = 2 * (v \div Two(n + 1)) + Bit(v, n)
           /\ Bit(v, n) \in {0, 1}
<1>1. n \in 0..11
  OBVIOUS
<1>2. PICK t \in Nat \ {0} : t = Two(n) /\ Two(n + 1) = 2 * t
  BY <1>1, PowersGrow
<1>9. PICK d \in Int : d = v \div t
  OBVIOUS
<1>10. PICK e \in Int : e = d \div 2
  OBVIOUS
<1>3. PICK m \in 0 .. t - 1 : v = t * d + m
  BY <1>9
<1>4. PICK low \in 0..1 : d = 2 * e + low /\ low = d % 2
  BY <1>10
<1>5. v = (2 * t) * e + (t * low + m)
  <2>1. t * d = t * (2 * e) + t * low
    BY <1>4
  <2> QED BY <1>3, <2>1
<1>6. t * low + m \in 0 .. (2 * t) - 1
  <2>1. low = 0 \/ low = 1
    OBVIOUS
  <2> QED BY <1>3, <2>1
<1>7. v \div (2 * t) = e
  <2>1. PICK r \in 0 .. (2 * t) - 1, u \in Nat \ {0} : r = t * low + m /\ u = 2 * t
    BY <1>6
  <2>2. v = u * e + r /\ r \in 0 .. u - 1
    BY <1>5, <2>1
  <2> QED BY <2>1, <2>2, DivModUnique
<1>8. Bit(v, n) = low
  <2>1. Bit(v, n) = (v \div t) % 2
    BY <1>2, BitIs
  <2> QED BY <1>4, <1>9, <2>1
<1>11. v \div Two(n) = d /\ v \div Two(n + 1) = e
  BY <1>2, <1>7, <1>9, Zenon
<1> QED BY <1>4, <1>8, <1>11

\* A number read bit by bit.
Numbers(f, bits, p, n) ==
    /\ f \in [0..n -> Nat] /\ f[0] = 0
    /\ \A j \in 1..n : f[j] = 2 * f[j - 1] + (IF p + j - 1 \in bits THEN 1 ELSE 0)

LEMMA NumberIs ==
    ASSUME NEW bits, NEW p \in Int, NEW n \in Nat
    PROVE  \E f : Numbers(f, bits, p, n) /\ Number(bits, p, n) = f[n]
<1>1. PICK G : G = [j \in Nat |-> [s \in Nat |-> 2 * s + (IF p + j - 1 \in bits THEN 1 ELSE 0)]]
  OBVIOUS
<1>2. G \in [Nat -> [Nat -> Nat]]
  <2>1. ASSUME NEW j \in Nat, NEW s \in Nat
        PROVE  2 * s + (IF p + j - 1 \in bits THEN 1 ELSE 0) \in Nat
    OBVIOUS
  <2> QED BY <1>1, <2>1
<1>3. Recursion(n, Nat, 0, G)
  BY <1>2, RecursiveFunction
<1>4. PICK f : Numbers(f, bits, p, n)
  <2>1. PICK f \in [0..n -> Nat] : f[0] = 0 /\ \A j \in 1..n : f[j] = G[j][f[j - 1]]
    BY <1>3 DEF Recursion
  <2>2. ASSUME NEW j \in 1..n
        PROVE  f[j] = 2 * f[j - 1] + (IF p + j - 1 \in bits THEN 1 ELSE 0)
    <3>1. f[j - 1] \in Nat /\ j \in Nat
      OBVIOUS
    <3> QED BY <1>1, <2>1, <3>1
  <2> QED BY <2>1, <2>2 DEF Numbers
<1>5. f = [j \in 0..n |-> IF j = 0 THEN 0 ELSE 2 * f[j - 1] + (IF p + j - 1 \in bits THEN 1 ELSE 0)]
  BY <1>4 DEF Numbers
<1>6. PICK g : /\ g = [j \in 0..n |-> IF j = 0 THEN 0 ELSE 2 * g[j - 1] + (IF p + j - 1 \in bits THEN 1 ELSE 0)]
               /\ Number(bits, p, n) = g[n]
  <2>1. PICK g : /\ g = CHOOSE h : h = [j \in 0..n |-> IF j = 0 THEN 0 ELSE 2 * h[j - 1] + (IF p + j - 1 \in bits THEN 1 ELSE 0)]
                 /\ Number(bits, p, n) = g[n]
    BY DEF Number
  <2> QED BY <1>5, <2>1
<1>7. \A j \in 0..n : g[j] = f[j]
  <2>1. PICK T : T = {j \in 0..n : g[j] = f[j]}
    OBVIOUS
  <2>2. 0 \in T
    BY <1>5, <1>6, <2>1
  <2>3. ASSUME NEW j \in 0 .. n - 1, j \in T
        PROVE  j + 1 \in T
    <3>1. j + 1 \in 0..n /\ j + 1 # 0 /\ (j + 1) - 1 = j
      OBVIOUS
    <3> QED BY <1>5, <1>6, <2>1, <2>3, <3>1
  <2> QED BY <2>1, <2>2, <2>3, InductionUpTo
<1> QED BY <1>4, <1>6, <1>7

\* A number in n bits of a string, the highest first, as far as there is room for it.
Holds(bits, p, n, v) == \A y \in 0 .. n - 1 : p + y \in bits <=> Bit(v, n - 1 - y) = 1

\* Reading finds what was written, but for the bits there was no room for.
LEMMA NumberRead ==
    ASSUME NEW bits, NEW p \in Int, NEW n \in 1..11, NEW v \in Int,
           Holds(bits, p, n, v)
    PROVE  Number(bits, p, n) = v % Two(n)
<1>1. PICK f : Numbers(f, bits, p, n) /\ Number(bits, p, n) = f[n]
  BY NumberIs
<1>2. PICK D \in Int : D = v \div Two(n)
  BY PowersGrow
<1>3. \A j \in 0..n : f[j] = (v \div Two(n - j)) - Two(j) * D
  <2>1. PICK T : T = {j \in 0..n : f[j] = (v \div Two(n - j)) - Two(j) * D}
    OBVIOUS
  <2>2. 0 \in T
    <3>1. f[0] = 0 /\ Two(0) = 1 /\ n - 0 = n
      BY <1>1, Powers DEF Numbers
    <3> QED BY <1>2, <2>1, <3>1
  <2>3. ASSUME NEW j \in 0 .. n - 1, j \in T
        PROVE  j + 1 \in T
    <3>1. j + 1 \in 1..n /\ (j + 1) - 1 = j /\ n - (j + 1) \in 0..10 /\ (n - (j + 1)) + 1 = n - j /\ j \in 0..10
      OBVIOUS
    <3>2. PICK q \in Int : q = v \div Two(n - j)
      <4>1. Two(n - j) \in Nat \ {0}
        BY <3>1, PowersGrow
      <4> QED BY <4>1
    <3>13. PICK z \in 0..10 : z = n - (j + 1) /\ z + 1 = n - j
      BY <3>1
    <3>8. PICK x \in {0, 1} : x = Bit(v, z)
      BY Halves
    <3>9. PICK u \in Int : u = v \div Two(z) /\ u = 2 * q + x
      <4>1. v \div Two(z) \in Int /\ v \div Two(z) = 2 * (v \div Two(z + 1)) + Bit(v, z)
        BY Halves
      <4>2. v \div Two(z + 1) = q
        BY <3>2, <3>13, Zenon
      <4> QED BY <3>8, <4>1, <4>2
    <3>10. PICK t \in Nat \ {0} : t = Two(j) /\ Two(j + 1) = 2 * t
      BY <3>1, PowersGrow
    <3>11. PICK w \in Int : w = t * D
      OBVIOUS
    <3>3. p + (j + 1) - 1 \in bits <=> x = 1
      <4>1. p + (j + 1) - 1 = p + j /\ n - 1 - j = n - (j + 1)
        OBVIOUS
      <4>2. p + j \in bits <=> Bit(v, n - 1 - j) = 1
        BY DEF Holds
      <4> QED BY <3>8, <3>13, <4>1, <4>2
    <3>4. f[j + 1] = 2 * f[j] + (IF p + (j + 1) - 1 \in bits THEN 1 ELSE 0)
      BY <1>1, <3>1 DEF Numbers
    <3>5. f[j] = q - w
      BY <2>1, <2>3, <3>2, <3>10, <3>11
    <3>6. f[j + 1] = u - 2 * w
      BY <3>3, <3>4, <3>5, <3>9
    <3>7. Two(j + 1) * D = 2 * w
      BY <3>10, <3>11
    <3>12. f[j + 1] = (v \div Two(n - (j + 1))) - Two(j + 1) * D
      BY <3>6, <3>7, <3>9, <3>13
    <3>14. j + 1 \in 0..n
      BY <3>1
    <3> QED BY <2>1, <3>12, <3>14
  <2>4. n \in Nat
    OBVIOUS
  <2>5. \A j \in 0..n : j \in T
    BY <2>2, <2>3, <2>4, InductionUpTo
  <2> QED BY <2>1, <2>5
<1>4. n - n = 0 /\ Two(0) = 1 /\ v \div 1 = v /\ Two(n) \in Nat \ {0}
  BY Powers, PowersGrow
<1>5. f[n] = v - Two(n) * D
  BY <1>3, <1>4
<1>6. v = Two(n) * (v \div Two(n)) + (v % Two(n)) /\ v % Two(n) \in Int
  <2>1. PICK m \in Nat \ {0} : m = Two(n)
    BY <1>4
  <2>2. v % m \in 0 .. m - 1 /\ v = m * (v \div m) + (v % m)
    BY DivMod
  <2> QED BY <2>1, <2>2
<1>7. PICK t \in Int : t = Two(n) * (v \div Two(n))
  BY <1>2, <1>4
<1> QED BY <1>1, <1>2, <1>5, <1>6, <1>7

-----------------------------------------------------------------------------
(* A block of 77 bits *)

\* The 14 bits of a sample.
Sample14 == {v \in Int : -8192 <= v /\ v <= 8191}

\* What a block holds at each place.
Carries(B, v, zi1, zi2) ==
    /\ B \in SUBSET (0..76)
    /\ \A c \in 0..3 : \A y \in 0..10 : 11 * c + y \in B <=> Bit(v[c] \div 8, 10 - y) = 1
    /\ \A c \in 0..3 : \A y \in 0..2 : 65 + 3 * c + y \in B <=> Bit(v[c], 2 - y) = 1
    /\ 63 \in B <=> zi1 = 1
    /\ 64 \in B <=> zi2 = 1
    /\ Syndrome(B) = {}

\* A field of high bits is written, and the others stay.
LEMMA HighIs ==
    ASSUME NEW B, NEW v, NEW c \in 0..3
    PROVE  /\ \A y \in 0..10 : 11 * c + y \in High(B, v, c) <=> Bit(v[c] \div 8, 10 - y) = 1
           /\ \A y \in Int : y \notin 11 * c .. 11 * c + 10 => (y \in High(B, v, c) <=> y \in B)
           /\ High(B, v, c) \subseteq B \cup 0..43
<1>1. PICK p \in 0..33 : p = 11 * c
  OBVIOUS
<1>2. PICK w : w = v[c] \div 8
  OBVIOUS
<1>3. High(B, v, c) = BitsWrite(B, p, w, 11)
  BY <1>1, <1>2 DEF High
<1>4. ASSUME NEW y \in 0..10
      PROVE  p + y \in BitsWrite(B, p, w, 11) <=> Bit(w, 10 - y) = 1
  <2>1. p + y \in Int /\ p + y \in p .. p + 11 - 1 /\ p + 11 - 1 - (p + y) = 10 - y
    OBVIOUS
  <2>2. p + y \in BitsWrite(B, p, w, 11) <=> Bit(w, p + 11 - 1 - (p + y)) = 1
    BY <2>1, BitsWriteIs
  <2> QED BY <2>1, <2>2
<1>5. ASSUME NEW y \in Int, y \notin p .. p + 10
      PROVE  y \in BitsWrite(B, p, w, 11) <=> y \in B
  <2>1. y \notin p .. p + 11 - 1
    BY <1>5
  <2> QED BY <2>1, BitsWriteIs
<1>6. BitsWrite(B, p, w, 11) \subseteq B \cup 0..43
  <2>1. BitsWrite(B, p, w, 11) \subseteq B \cup p .. p + 11 - 1
    BY BitsWriteWithin
  <2>2. p .. p + 11 - 1 \subseteq 0..43
    OBVIOUS
  <2> QED BY <2>1, <2>2
<1> QED BY <1>1, <1>2, <1>3, <1>4, <1>5, <1>6

LEMMA LowIs ==
    ASSUME NEW B, NEW v, NEW c \in 0..3
    PROVE  /\ \A y \in 0..2 : 65 + 3 * c + y \in Low(B, v, c) <=> Bit(v[c], 2 - y) = 1
           /\ \A y \in Int : y \notin 65 + 3 * c .. 65 + 3 * c + 2 => (y \in Low(B, v, c) <=> y \in B)
           /\ Low(B, v, c) \subseteq B \cup 65..76
<1>1. PICK p \in 65..74 : p = 65 + 3 * c
  OBVIOUS
<1>2. PICK w : w = v[c]
  OBVIOUS
<1>3. Low(B, v, c) = BitsWrite(B, p, w, 3)
  BY <1>1, <1>2 DEF Low
<1>4. ASSUME NEW y \in 0..2
      PROVE  p + y \in BitsWrite(B, p, w, 3) <=> Bit(w, 2 - y) = 1
  <2>1. p + y \in Int /\ p + y \in p .. p + 3 - 1 /\ p + 3 - 1 - (p + y) = 2 - y
    OBVIOUS
  <2>2. p + y \in BitsWrite(B, p, w, 3) <=> Bit(w, p + 3 - 1 - (p + y)) = 1
    BY <2>1, BitsWriteIs
  <2> QED BY <2>1, <2>2
<1>5. ASSUME NEW y \in Int, y \notin p .. p + 2
      PROVE  y \in BitsWrite(B, p, w, 3) <=> y \in B
  <2>1. y \notin p .. p + 3 - 1
    BY <1>5
  <2> QED BY <2>1, BitsWriteIs
<1>6. BitsWrite(B, p, w, 3) \subseteq B \cup 65..76
  <2>1. BitsWrite(B, p, w, 3) \subseteq B \cup p .. p + 3 - 1
    BY BitsWriteWithin
  <2>2. p .. p + 3 - 1 \subseteq 65..76
    OBVIOUS
  <2> QED BY <2>1, <2>2
<1> QED BY <1>1, <1>2, <1>3, <1>4, <1>5, <1>6

\* One bit is written, and the others stay.
LEMMA OneBitIs ==
    ASSUME NEW B, NEW p \in Int, NEW v \in {0, 1}
    PROVE  /\ p \in BitsWrite(B, p, v, 1) <=> v = 1
           /\ \A y \in Int : y # p => (y \in BitsWrite(B, p, v, 1) <=> y \in B)
           /\ BitsWrite(B, p, v, 1) \subseteq B \cup {p}
<1>1. p \in p .. p + 1 - 1 /\ p + 1 - 1 - p = 0 /\ \A y \in Int : y \in p .. p + 1 - 1 => y = p
  OBVIOUS
<1>2. Bit(v, 0) = v
  BY DEF Bit
<1>3. p \in BitsWrite(B, p, v, 1) <=> Bit(v, p + 1 - 1 - p) = 1
  BY <1>1, BitsWriteIs
<1>4. \A y \in Int : y # p => (y \in BitsWrite(B, p, v, 1) <=> y \in B)
  BY <1>1, BitsWriteIs
<1>5. BitsWrite(B, p, v, 1) \subseteq B \cup p .. p + 1 - 1
  BY BitsWriteWithin
<1> QED BY <1>1, <1>2, <1>3, <1>4, <1>5

\* The check bits follow the 44.
LEMMA BchEncodeIs ==
    ASSUME NEW B \in SUBSET (0..43)
    PROVE  /\ BchEncode(B) \in SUBSET (0..62)
           /\ \A y \in 0..43 : y \in BchEncode(B) <=> y \in B
           /\ \A y \in 0..18 : 62 - y \in BchEncode(B) <=> y \in CheckBits(B)
<1>1. CheckBits(B) \in Register19
  <2>1. PICK f : Codes(f, B) /\ CheckBits(B) = f[44]
    BY CheckBitsIs
  <2> QED BY <2>1 DEF Codes
<1>2. PICK s \in SUBSET (0..18) : s = CheckBits(B)
  BY <1>1 DEF Register19
<1>3. BchEncode(B) = (B \ (44..62)) \cup {62 - y : y \in s}
  BY <1>2 DEF BchEncode
<1>4. \A y \in 0..43 : y \in BchEncode(B) <=> y \in B
  <2> SUFFICES ASSUME NEW y \in 0..43, NEW t \in s, y = 62 - t PROVE FALSE
    BY <1>3
  <2> QED OBVIOUS
<1>5. \A y \in 0..18 : 62 - y \in BchEncode(B) <=> y \in s
  <2> TAKE y \in 0..18
  <2>1. 62 - y \notin B \ (44..62)
    OBVIOUS
  <2>2. \A t \in s : 62 - t = 62 - y => t = y
    OBVIOUS
  <2> QED BY <1>3, <2>1, <2>2
<1>6. \A t \in s : 62 - t \in 0..62
  OBVIOUS
<1>7. BchEncode(B) \in SUBSET (0..62)
  <2>1. B \ (44..62) \subseteq 0..62 /\ {62 - y : y \in s} \subseteq 0..62
    BY <1>6
  <2> QED BY <1>3, <2>1
<1> QED BY <1>2, <1>4, <1>5, <1>7

\* Every field of a block stands in a place of its own.
LEMMA Block77Is ==
    ASSUME NEW v \in [0..3 -> Sample14], NEW zi1 \in {0, 1}, NEW zi2 \in {0, 1}
    PROVE  Carries(Block77(v, zi1, zi2), v, zi1, zi2)
<1>1. PICK h0 : h0 = High({}, v, 0)
  OBVIOUS
<1>2. PICK h1 : h1 = High(h0, v, 1)
  OBVIOUS
<1>3. PICK h2 : h2 = High(h1, v, 2)
  OBVIOUS
<1>4. PICK h3 : h3 = High(h2, v, 3)
  OBVIOUS
<1>5. h3 \in SUBSET (0..43)
  <2>1. h0 \subseteq {} \cup 0..43
    BY <1>1, HighIs
  <2>2. h1 \subseteq h0 \cup 0..43
    BY <1>2, HighIs
  <2>3. h2 \subseteq h1 \cup 0..43
    BY <1>3, HighIs
  <2>4. h3 \subseteq h2 \cup 0..43
    BY <1>4, HighIs
  <2> QED BY <2>1, <2>2, <2>3, <2>4
<1>6. \A c \in 0..3 : \A y \in 0..10 : 11 * c + y \in h3 <=> Bit(v[c] \div 8, 10 - y) = 1
  <2>1. /\ \A y \in 0..10 : 11 * 0 + y \in h0 <=> Bit(v[0] \div 8, 10 - y) = 1
        /\ \A y \in 0..10 : 11 * 1 + y \in h1 <=> Bit(v[1] \div 8, 10 - y) = 1
        /\ \A y \in 0..10 : 11 * 2 + y \in h2 <=> Bit(v[2] \div 8, 10 - y) = 1
        /\ \A y \in 0..10 : 11 * 3 + y \in h3 <=> Bit(v[3] \div 8, 10 - y) = 1
    BY <1>1, <1>2, <1>3, <1>4, HighIs
  <2>2. /\ \A y \in Int : y \notin 11 * 1 .. 11 * 1 + 10 => (y \in h1 <=> y \in h0)
        /\ \A y \in Int : y \notin 11 * 2 .. 11 * 2 + 10 => (y \in h2 <=> y \in h1)
        /\ \A y \in Int : y \notin 11 * 3 .. 11 * 3 + 10 => (y \in h3 <=> y \in h2)
    BY <1>2, <1>3, <1>4, HighIs
  <2>3. ASSUME NEW y \in 0..10
        PROVE  /\ 11 * 0 + y \in h3 <=> 11 * 0 + y \in h0
               /\ 11 * 1 + y \in h3 <=> 11 * 1 + y \in h1
               /\ 11 * 2 + y \in h3 <=> 11 * 2 + y \in h2
    BY <2>2
  <2>4. \A c \in 0..3 : c = 0 \/ c = 1 \/ c = 2 \/ c = 3
    OBVIOUS
  <2> QED BY <2>1, <2>3, <2>4
<1>7. PICK e : e = BchEncode(h3)
  OBVIOUS
<1>8. PICK z1 : z1 = BitsWrite(e, 63, zi1, 1)
  OBVIOUS
<1>9. PICK z2 : z2 = BitsWrite(z1, 64, zi2, 1)
  OBVIOUS
<1>10. PICK l0 : l0 = Low(z2, v, 0)
  OBVIOUS
<1>11. PICK l1 : l1 = Low(l0, v, 1)
  OBVIOUS
<1>12. PICK l2 : l2 = Low(l1, v, 2)
  OBVIOUS
<1>13. PICK l3 : l3 = Low(l2, v, 3)
  OBVIOUS
<1>14. Block77(v, zi1, zi2) = l3
  BY <1>1, <1>2, <1>3, <1>4, <1>7, <1>8, <1>9, <1>10, <1>11, <1>12, <1>13 DEF Block77
<1>15. /\ \A y \in Int : y \notin 65 + 3 * 0 .. 65 + 3 * 0 + 2 => (y \in l0 <=> y \in z2)
       /\ \A y \in Int : y \notin 65 + 3 * 1 .. 65 + 3 * 1 + 2 => (y \in l1 <=> y \in l0)
       /\ \A y \in Int : y \notin 65 + 3 * 2 .. 65 + 3 * 2 + 2 => (y \in l2 <=> y \in l1)
       /\ \A y \in Int : y \notin 65 + 3 * 3 .. 65 + 3 * 3 + 2 => (y \in l3 <=> y \in l2)
  BY <1>10, <1>11, <1>12, <1>13, LowIs
<1>16. \A c \in 0..3 : \A y \in 0..2 : 65 + 3 * c + y \in l3 <=> Bit(v[c], 2 - y) = 1
  <2>1. /\ \A y \in 0..2 : 65 + 3 * 0 + y \in l0 <=> Bit(v[0], 2 - y) = 1
        /\ \A y \in 0..2 : 65 + 3 * 1 + y \in l1 <=> Bit(v[1], 2 - y) = 1
        /\ \A y \in 0..2 : 65 + 3 * 2 + y \in l2 <=> Bit(v[2], 2 - y) = 1
        /\ \A y \in 0..2 : 65 + 3 * 3 + y \in l3 <=> Bit(v[3], 2 - y) = 1
    BY <1>10, <1>11, <1>12, <1>13, LowIs
  <2>2. ASSUME NEW y \in 0..2
        PROVE  /\ 65 + 3 * 0 + y \in l3 <=> 65 + 3 * 0 + y \in l0
               /\ 65 + 3 * 1 + y \in l3 <=> 65 + 3 * 1 + y \in l1
               /\ 65 + 3 * 2 + y \in l3 <=> 65 + 3 * 2 + y \in l2
    BY <1>15
  <2>3. \A c \in 0..3 : c = 0 \/ c = 1 \/ c = 2 \/ c = 3
    OBVIOUS
  <2> QED BY <2>1, <2>2, <2>3
<1>17. \A y \in 0..64 : y \in l3 <=> y \in z2
  BY <1>15
<1>18. /\ \A y \in 0..62 : y \in l3 <=> y \in e
       /\ 63 \in l3 <=> zi1 = 1
       /\ 64 \in l3 <=> zi2 = 1
  <2>1. /\ 63 \in z1 <=> zi1 = 1
        /\ \A y \in Int : y # 63 => (y \in z1 <=> y \in e)
    BY <1>8, OneBitIs
  <2>2. /\ 64 \in z2 <=> zi2 = 1
        /\ \A y \in Int : y # 64 => (y \in z2 <=> y \in z1)
    BY <1>9, OneBitIs
  <2> QED BY <1>17, <2>1, <2>2
<1>19. /\ e \in SUBSET (0..62) /\ \A y \in 0..43 : y \in e <=> y \in h3
       /\ \A y \in 0..18 : 62 - y \in e <=> y \in CheckBits(h3)
  BY <1>5, <1>7, BchEncodeIs
<1>20. l3 \in SUBSET (0..76)
  <2>1. z1 \subseteq e \cup {63} /\ z2 \subseteq z1 \cup {64}
    BY <1>8, <1>9, OneBitIs
  <2>2. l0 \subseteq z2 \cup 65..76 /\ l1 \subseteq l0 \cup 65..76 /\ l2 \subseteq l1 \cup 65..76
        /\ l3 \subseteq l2 \cup 65..76
    BY <1>10, <1>11, <1>12, <1>13, LowIs
  <2>3. l3 \subseteq e \cup 63..76
    BY <2>1, <2>2
  <2> QED BY <1>19, <2>3
<1>21. Syndrome(l3) = {}
  <2>1. \A y \in 0..43 : y \in l3 <=> y \in h3
    BY <1>18, <1>19
  <2>2. \A y \in 0..18 : 62 - y \in l3 <=> y \in CheckBits(h3)
    <3> TAKE y \in 0..18
    <3>1. 62 - y \in 0..62
      OBVIOUS
    <3> QED BY <1>18, <1>19, <3>1
  <2> QED BY <2>1, <2>2, BchDivides
<1>22. \A c \in 0..3 : \A y \in 0..10 : 11 * c + y \in l3 <=> Bit(v[c] \div 8, 10 - y) = 1
  <2> TAKE c \in 0..3
  <2> TAKE y \in 0..10
  <2>1. 11 * c + y \in 0..43
    OBVIOUS
  <2> QED BY <1>6, <1>18, <1>19, <2>1
<1> QED BY <1>14, <1>16, <1>18, <1>20, <1>21, <1>22 DEF Carries

\* The sample is made of its two fields.
LEMMA SampleRead ==
    ASSUME NEW v \in [0..3 -> Sample14], NEW zi1, NEW zi2, NEW B, Carries(B, v, zi1, zi2), NEW c \in 0..3
    PROVE  SampleOf(B, c) = v[c]
<1>1. PICK w \in Sample14 : w = v[c]
  OBVIOUS
<1>2. PICK h \in Int : h = w \div 8
  <2>1. w \in Int
    BY DEF Sample14
  <2> QED BY <2>1
<1>3. Number(B, 11 * c, 11) = h % 2048
  <2>1. \A y \in 0..10 : 11 * c + y \in B <=> Bit(h, 10 - y) = 1
    BY <1>1, <1>2 DEF Carries
  <2>2. Holds(B, 11 * c, 11, h)
    BY <2>1 DEF Holds
  <2>3. Number(B, 11 * c, 11) = h % Two(11)
    BY <2>2, NumberRead
  <2> QED BY <2>3, Powers
<1>4. Number(B, 65 + 3 * c, 3) = w % 8
  <2>1. \A y \in 0..2 : 65 + 3 * c + y \in B <=> Bit(w, 2 - y) = 1
    BY <1>1 DEF Carries
  <2>2. w \in Int /\ 65 + 3 * c \in Int
    BY DEF Sample14
  <2>3. Holds(B, 65 + 3 * c, 3, w)
    BY <2>1 DEF Holds
  <2>4. Number(B, 65 + 3 * c, 3) = w % Two(3)
    BY <2>2, <2>3, NumberRead
  <2> QED BY <2>4, Powers
<1>5. PICK n \in Int : n = 8 * (h % 2048) + (w % 8)
  BY <1>1, <1>2 DEF Sample14
<1>6. n = IF w < 0 THEN w + 16384 ELSE w
  <2>1. w \in Int /\ -8192 <= w /\ w <= 8191
    BY DEF Sample14
  <2>2. w = 8 * h + (w % 8) /\ w % 8 \in 0..7
    BY <1>2, <2>1
  <2>3. -1024 <= h /\ h <= 1023 /\ (h < 0 <=> w < 0)
    BY <1>2, <2>1, <2>2
  <2>4. h % 2048 = IF h < 0 THEN h + 2048 ELSE h
    BY <1>2, <2>3
  <2> QED BY <1>5, <2>1, <2>2, <2>3, <2>4
<1>7. Signed(n) = w
  <2>1. w \in Int /\ -8192 <= w /\ w <= 8191
    BY DEF Sample14
  <2> QED BY <1>6, <2>1 DEF Signed
<1> QED BY <1>1, <1>3, <1>4, <1>5, <1>7 DEF SampleOf

-----------------------------------------------------------------------------
(* Two blocks in a frame *)

\* A frame from place p on, once the first j octets of two blocks have been dealt out.
DealtUpTo(F, frame, p, c0, c1, j) ==
    /\ \A i \in 0..76 : i < 8 * j => /\ p + 2 * i \in F <=> i \in c0
                                     /\ p + 2 * i + 1 \in F <=> i \in c1
    /\ \A y \in Int : y < p \/ y >= p + 16 * j => (y \in F <=> y \in frame)
    /\ \A y \in F : y \in frame \/ y \in p .. p + 153

\* All 77 bits of both.
DealtOut(F, frame, p, c0, c1) ==
    /\ F \in SUBSET Int
    /\ \A i \in 0..76 : p + 2 * i \in F <=> i \in c0
    /\ \A i \in 0..76 : p + 2 * i + 1 \in F <=> i \in c1
    /\ \A y \in Int : y \notin p .. p + 153 => (y \in F <=> y \in frame)

\* One more octet of each.
LEMMA OctetDealtIs ==
    ASSUME NEW frame \in SUBSET Int, NEW p \in Int, NEW c0 \in SUBSET (0..76), NEW c1 \in SUBSET (0..76), NEW j \in 0..9,
           NEW F \in SUBSET Int, DealtUpTo(F, frame, p, c0, c1, j)
    PROVE  /\ OctetDealt(F, p, c0, c1, j) \in SUBSET Int
           /\ j < 9 => DealtUpTo(OctetDealt(F, p, c0, c1, j), frame, p, c0, c1, j + 1)
           /\ j = 9 => DealtOut(OctetDealt(F, p, c0, c1, j), frame, p, c0, c1)
<1>1. PICK l \in {10, 16} : l = IF j = 9 THEN 10 ELSE 16
  OBVIOUS
<1>2. PICK at \in Int : at = p + 16 * j
  OBVIOUS
<1> DEFINE Evens(c) == {at + k : k \in Ileave({i - 8 * j : i \in c \cap 8 * j .. 8 * j + 7})}
           Odds(c)  == {at + k + 1 : k \in Ileave({i - 8 * j : i \in c \cap 8 * j .. 8 * j + 7})}
<1>3. OctetDealt(F, p, c0, c1, j) = (F \ (at .. at + l - 1)) \cup Evens(c0) \cup Odds(c1)
  BY <1>1, <1>2 DEF OctetDealt, Place
<1>4. \A y : y \in Evens(c0) <=> \E i \in c0 : i \in 8 * j .. 8 * j + 7 /\ y = p + 2 * i
  <2>1. \A i \in c0 : at + 2 * (i - 8 * j) = p + 2 * i
    BY <1>2
  <2>2. Evens(c0) = {at + 2 * (i - 8 * j) : i \in c0 \cap 8 * j .. 8 * j + 7}
    BY Zenon DEF Ileave
  <2> QED BY <2>1, <2>2
<1>5. \A y : y \in Odds(c1) <=> \E i \in c1 : i \in 8 * j .. 8 * j + 7 /\ y = p + 2 * i + 1
  <2>1. \A i \in c1 : at + 2 * (i - 8 * j) + 1 = p + 2 * i + 1
    BY <1>2
  <2>2. Odds(c1) = {at + 2 * (i - 8 * j) + 1 : i \in c1 \cap 8 * j .. 8 * j + 7}
    BY Zenon DEF Ileave
  <2> QED BY <2>1, <2>2
<1> HIDE DEF Evens, Odds
<1>14. PICK X0 : X0 = Evens(c0)
  OBVIOUS
<1>15. PICK X1 : X1 = Odds(c1)
  OBVIOUS
<1>6. PICK O : O = OctetDealt(F, p, c0, c1, j) /\ O = (F \ (at .. at + l - 1)) \cup X0 \cup X1
  BY <1>3, <1>14, <1>15
<1>7. /\ \A i \in c0 : i \in 8 * j .. 8 * j + 7 => p + 2 * i \in X0
      /\ \A y \in X0 : \E i \in c0 : i \in 8 * j .. 8 * j + 7 /\ y = p + 2 * i
  BY <1>4, <1>14
<1>16. /\ \A i \in c1 : i \in 8 * j .. 8 * j + 7 => p + 2 * i + 1 \in X1
       /\ \A y \in X1 : \E i \in c1 : i \in 8 * j .. 8 * j + 7 /\ y = p + 2 * i + 1
  BY <1>5, <1>15
<1>8. O \in SUBSET Int
  <2>1. \A i \in 0..76 : p + 2 * i \in Int /\ p + 2 * i + 1 \in Int
    OBVIOUS
  <2>2. X0 \subseteq Int /\ X1 \subseteq Int
    BY <1>7, <1>16, <2>1
  <2> QED BY <1>6, <2>2
<1>9. ASSUME NEW i \in 0..76, i < 8 * (j + 1)
      PROVE  /\ p + 2 * i \in O <=> i \in c0
             /\ p + 2 * i + 1 \in O <=> i \in c1
  <2>1. p + 2 * i \in Int /\ p + 2 * i + 1 \in Int
    OBVIOUS
  <2>2. \A k \in 0..76 : /\ p + 2 * i = p + 2 * k <=> k = i
                         /\ p + 2 * i + 1 = p + 2 * k + 1 <=> k = i
                         /\ p + 2 * i # p + 2 * k + 1
                         /\ p + 2 * i + 1 # p + 2 * k
    OBVIOUS
  <2>3. CASE i < 8 * j
    <3>1. /\ p + 2 * i \notin at .. at + l - 1 /\ p + 2 * i + 1 \notin at .. at + l - 1
          /\ i \notin 8 * j .. 8 * j + 7
      BY <1>2, <2>3
    <3>2. /\ p + 2 * i \in F <=> i \in c0
          /\ p + 2 * i + 1 \in F <=> i \in c1
      BY <2>3 DEF DealtUpTo
    <3> QED BY <1>6, <1>7, <1>16, <2>1, <2>2, <3>1, <3>2
  <2>4. CASE i >= 8 * j
    <3>1. i \in 8 * j .. 8 * j + 7
      BY <1>9, <2>4
    <3>2. p + 2 * i \in at .. at + l - 1 /\ p + 2 * i + 1 \in at .. at + l - 1
      <4>1. CASE j = 9
        BY <1>1, <1>2, <2>4, <4>1
      <4>2. CASE j # 9
        BY <1>1, <1>2, <3>1, <4>2
      <4> QED BY <4>1, <4>2
    <3>3. ASSUME i \in c0 PROVE p + 2 * i \in O
      BY <1>6, <1>7, <3>1, <3>3
    <3>4. ASSUME i \in c1 PROVE p + 2 * i + 1 \in O
      BY <1>6, <1>16, <3>1, <3>4
    <3>5. ASSUME p + 2 * i \in O PROVE i \in c0
      BY <1>6, <1>7, <1>16, <2>1, <2>2, <3>2, <3>5
    <3>6. ASSUME p + 2 * i + 1 \in O PROVE i \in c1
      BY <1>6, <1>7, <1>16, <2>1, <2>2, <3>2, <3>6
    <3> QED BY <3>3, <3>4, <3>5, <3>6
  <2> QED BY <2>3, <2>4
<1>10. ASSUME NEW y \in Int, y < p \/ y >= at + l
       PROVE  y \in O <=> y \in frame
  <2>1. \A i \in 0..76 : i \in 8 * j .. 8 * j + 7 => y # p + 2 * i /\ y # p + 2 * i + 1
    <3>1. CASE j = 9
      BY <1>1, <1>2, <1>10, <3>1
    <3>2. CASE j # 9
      BY <1>1, <1>2, <1>10, <3>2
    <3> QED BY <3>1, <3>2
  <2>2. y \notin at .. at + l - 1
    BY <1>2, <1>10
  <2>3. y < p \/ y >= p + 16 * j
    BY <1>2, <1>10
  <2>4. y \in F <=> y \in frame
    BY <2>3 DEF DealtUpTo
  <2> QED BY <1>6, <1>7, <1>16, <2>1, <2>2, <2>4
<1>11. \A y \in O : y \in frame \/ y \in p .. p + 153
  <2> TAKE y \in O
  <2>1. y \in Int
    BY <1>8
  <2>2. CASE y \in F
    BY <2>2 DEF DealtUpTo
  <2>3. CASE \E i \in 0..76 : y = p + 2 * i \/ y = p + 2 * i + 1
    BY <2>1, <2>3
  <2> QED BY <1>6, <1>7, <1>16, <2>1, <2>2, <2>3
<1>12. ASSUME j < 9
       PROVE  DealtUpTo(O, frame, p, c0, c1, j + 1)
  <2>1. at + l = p + 16 * (j + 1)
    BY <1>1, <1>2, <1>12
  <2> QED BY <1>9, <1>10, <1>11, <2>1 DEF DealtUpTo
<1>13. ASSUME j = 9
       PROVE  DealtOut(O, frame, p, c0, c1)
  <2>1. at + l = p + 154 /\ \A i \in 0..76 : i < 8 * (j + 1)
    BY <1>1, <1>2, <1>13
  <2>2. \A y \in Int : y \notin p .. p + 153 => y < p \/ y >= at + l
    BY <2>1
  <2> QED BY <1>8, <1>9, <1>10, <2>1, <2>2 DEF DealtOut
<1> QED BY <1>6, <1>8, <1>12, <1>13

LEMMA OctetDealtType ==
    ASSUME NEW F \in SUBSET Int, NEW p \in Int, NEW c0 \in SUBSET (0..76), NEW c1 \in SUBSET (0..76), NEW j \in 0..9
    PROVE  OctetDealt(F, p, c0, c1, j) \in SUBSET Int
<1>1. PICK at \in Int : at = p + 16 * j
  OBVIOUS
<1>2. PICK o0 : o0 = Ileave({i - 8 * j : i \in c0 \cap 8 * j .. 8 * j + 7})
  OBVIOUS
<1>3. PICK o1 : o1 = Ileave({i - 8 * j : i \in c1 \cap 8 * j .. 8 * j + 7})
  OBVIOUS
<1>4. o0 \subseteq Int /\ o1 \subseteq Int
  BY <1>2, <1>3 DEF Ileave
<1>5. {at + k : k \in o0} \subseteq Int /\ {at + k + 1 : k \in o1} \subseteq Int
  BY <1>4
<1>7. PICK l : l = IF j = 9 THEN 10 ELSE 16
  OBVIOUS
<1>6. OctetDealt(F, p, c0, c1, j) = (F \ (at .. at + l - 1)) \cup {at + k : k \in o0} \cup {at + k + 1 : k \in o1}
  BY <1>1, <1>2, <1>3, <1>7 DEF OctetDealt, Place
<1> QED BY <1>5, <1>6

\* The states of a frame while two blocks are dealt out.
Deals(f, frame, p, c0, c1) ==
    /\ f \in [0..10 -> SUBSET Int] /\ f[0] = frame
    /\ \A j \in 1..10 : f[j] = OctetDealt(f[j - 1], p, c0, c1, j - 1)

LEMMA DealsIs ==
    ASSUME NEW frame \in SUBSET Int, NEW p \in Int, NEW c0 \in SUBSET (0..76), NEW c1 \in SUBSET (0..76)
    PROVE  \E f : Deals(f, frame, p, c0, c1) /\ Dealt(frame, p, c0, c1) = f[10]
<1>1. PICK G : G = [j \in 1..10 |-> [s \in SUBSET Int |-> OctetDealt(s, p, c0, c1, j - 1)]]
  OBVIOUS
<1>2. G \in [1..10 -> [SUBSET Int -> SUBSET Int]]
  <2>1. ASSUME NEW j \in 1..10, NEW s \in SUBSET Int
        PROVE  OctetDealt(s, p, c0, c1, j - 1) \in SUBSET Int
    <3>1. j - 1 \in 0..9
      OBVIOUS
    <3> QED BY <3>1, OctetDealtType
  <2> QED BY <1>1, <2>1
<1>3. Recursion(10, SUBSET Int, frame, G)
  BY <1>2, SetRecursion
<1>4. PICK f : Deals(f, frame, p, c0, c1)
  <2>1. PICK f \in [0..10 -> SUBSET Int] : f[0] = frame /\ \A j \in 1..10 : f[j] = G[j][f[j - 1]]
    BY <1>3 DEF Recursion
  <2>2. ASSUME NEW j \in 1..10
        PROVE  f[j] = OctetDealt(f[j - 1], p, c0, c1, j - 1)
    <3>1. f[j - 1] \in SUBSET Int
      OBVIOUS
    <3> QED BY <1>1, <2>1, <3>1
  <2> QED BY <2>1, <2>2 DEF Deals
<1>5. f = [j \in 0..10 |-> IF j = 0 THEN frame ELSE OctetDealt(f[j - 1], p, c0, c1, j - 1)]
  BY <1>4 DEF Deals
<1>6. PICK g : /\ g = [j \in 0..10 |-> IF j = 0 THEN frame ELSE OctetDealt(g[j - 1], p, c0, c1, j - 1)]
               /\ Dealt(frame, p, c0, c1) = g[10]
  <2>1. PICK g : /\ g = CHOOSE h : h = [j \in 0..10 |-> IF j = 0 THEN frame ELSE OctetDealt(h[j - 1], p, c0, c1, j - 1)]
                 /\ Dealt(frame, p, c0, c1) = g[10]
    BY DEF Dealt
  <2> QED BY <1>5, <2>1
<1>7. \A j \in 0..10 : g[j] = f[j]
  <2>1. PICK T : T = {j \in 0..10 : g[j] = f[j]}
    OBVIOUS
  <2>2. 0 \in T
    BY <1>5, <1>6, <2>1
  <2>3. ASSUME NEW j \in 0..9, j \in T
        PROVE  j + 1 \in T
    <3>1. j + 1 \in 0..10 /\ j + 1 # 0 /\ (j + 1) - 1 = j
      OBVIOUS
    <3> QED BY <1>5, <1>6, <2>1, <2>3, <3>1
  <2> QED BY <2>1, <2>2, <2>3, InductionUpTo
<1> QED BY <1>4, <1>6, <1>7

\* The bits of two blocks take turns, and the rest of the frame stays.
LEMMA DealtIs ==
    ASSUME NEW frame \in SUBSET Int, NEW p \in Int, NEW c0 \in SUBSET (0..76), NEW c1 \in SUBSET (0..76)
    PROVE  DealtOut(Dealt(frame, p, c0, c1), frame, p, c0, c1)
<1>1. PICK f : Deals(f, frame, p, c0, c1) /\ Dealt(frame, p, c0, c1) = f[10]
  BY DealsIs
<1>2. f \in [0..10 -> SUBSET Int] /\ f[0] = frame
  BY <1>1 DEF Deals
<1>3. PICK T : T = {j \in 0..9 : DealtUpTo(f[j], frame, p, c0, c1, j)}
  OBVIOUS
<1>4. 0 \in T
  <2>1. DealtUpTo(frame, frame, p, c0, c1, 0)
    BY DEF DealtUpTo
  <2> QED BY <1>2, <1>3, <2>1
<1>5. ASSUME NEW j \in 0..8, j \in T
      PROVE  j + 1 \in T
  <2>1. f[j + 1] = OctetDealt(f[j], p, c0, c1, j)
    <3>1. j + 1 \in 1..10 /\ (j + 1) - 1 = j
      OBVIOUS
    <3> QED BY <1>1, <3>1 DEF Deals
  <2>2. j \in 0..9 /\ j < 9 /\ f[j] \in SUBSET Int /\ j + 1 \in 0..9
    BY <1>2
  <2>3. DealtUpTo(OctetDealt(f[j], p, c0, c1, j), frame, p, c0, c1, j + 1)
    BY <1>3, <1>5, <2>2, OctetDealtIs
  <2> QED BY <1>3, <2>1, <2>2, <2>3
<1>6. 9 \in T
  <2>1. \A j \in 0..9 : j \in T
    BY <1>4, <1>5, InductionUpTo
  <2> QED BY <2>1
<1>7. f[10] = OctetDealt(f[9], p, c0, c1, 9)
  <2>1. 10 \in 1..10 /\ 10 - 1 = 9
    OBVIOUS
  <2> QED BY <1>1, <2>1 DEF Deals
<1>8. f[9] \in SUBSET Int /\ 9 \in 0..9 /\ DealtUpTo(f[9], frame, p, c0, c1, 9)
  BY <1>2, <1>3, <1>6
<1>9. PICK F \in SUBSET Int : F = f[9] /\ DealtUpTo(F, frame, p, c0, c1, 9)
  BY <1>8
<1>10. DealtOut(OctetDealt(F, p, c0, c1, 9), frame, p, c0, c1)
  BY <1>8, <1>9, OctetDealtIs
<1>11. Dealt(frame, p, c0, c1) = OctetDealt(F, p, c0, c1, 9)
  BY <1>1, <1>7, <1>9
<1> QED BY <1>10, <1>11, Zenon

-----------------------------------------------------------------------------
(* The scrambler *)

\* Five terms more.
TermsAfter(s, q) == s \cup {t \in 5 * q + 4 .. 5 * q + 8 : (t - 9 \in s) # (t - 5 \in s)}

\* The states of the receiver's table of the scrambling sequence.
Terms(f) ==
    /\ f \in [0..62 -> SUBSET Int] /\ f[0] = {0, 2, 3, 4, 5, 7}
    /\ \A q \in 1..62 : f[q] = TermsAfter(f[q - 1], q)

LEMMA OnesAre == Terms(Ones)
<1>1. PICK G : G = [q \in 1..62 |-> [s \in SUBSET Int |-> TermsAfter(s, q)]]
  OBVIOUS
<1>12. ASSUME NEW q \in 1..62, NEW s \in SUBSET Int
       PROVE  TermsAfter(s, q) \in SUBSET Int
  <2>1. 5 * q + 4 .. 5 * q + 8 \subseteq Int
    OBVIOUS
  <2> QED BY <2>1, Zenon DEF TermsAfter
<1>2. G \in [1..62 -> [SUBSET Int -> SUBSET Int]]
  BY <1>1, <1>12
<1>3. {0, 2, 3, 4, 5, 7} \in SUBSET Int
  OBVIOUS
<1>4. Recursion(62, SUBSET Int, {0, 2, 3, 4, 5, 7}, G)
  BY <1>2, <1>3, SetRecursion
<1>5. PICK f : Terms(f)
  <2>1. PICK f \in [0..62 -> SUBSET Int] : f[0] = {0, 2, 3, 4, 5, 7} /\ \A q \in 1..62 : f[q] = G[q][f[q - 1]]
    BY <1>4 DEF Recursion
  <2>2. ASSUME NEW q \in 1..62
        PROVE  f[q] = TermsAfter(f[q - 1], q)
    <3>1. f[q - 1] \in SUBSET Int
      OBVIOUS
    <3> QED BY <1>1, <2>1, <3>1
  <2> QED BY <2>1, <2>2 DEF Terms
<1> DEFINE Step(h) == [q \in 0..62 |->
             IF q = 0 THEN {0, 2, 3, 4, 5, 7}
             ELSE TermsAfter(h[q - 1], q)]
<1>6. f = Step(f)
  BY <1>5 DEF Terms
<1>7. Ones = Step(Ones)
  <2>1. Ones = CHOOSE h : h = Step(h)
    BY DEF Ones, TermsAfter
  <2> HIDE DEF Step
  <2> QED BY <1>6, <2>1, Zenon
<1>8. Ones[0] = {0, 2, 3, 4, 5, 7}
  BY <1>7
<1>9. ASSUME NEW q \in 1..62
      PROVE  Ones[q] = TermsAfter(Ones[q - 1], q)
  BY <1>7
<1>10. \A q \in 0..62 : Ones[q] \in SUBSET Int
  <2>1. PICK T : T = {q \in 0..62 : Ones[q] \in SUBSET Int}
    OBVIOUS
  <2>2. 0 \in T
    BY <1>3, <1>8, <2>1
  <2>3. ASSUME NEW q \in 0..61, q \in T
        PROVE  q + 1 \in T
    <3>1. q + 1 \in 1..62 /\ (q + 1) - 1 = q
      OBVIOUS
    <3>2. Ones[q + 1] = TermsAfter(Ones[q], q + 1) /\ Ones[q] \in SUBSET Int
      BY <1>9, <2>1, <2>3, <3>1
    <3>3. TermsAfter(Ones[q], q + 1) \in SUBSET Int
      BY <1>12, <3>1, <3>2
    <3> QED BY <2>1, <3>2, <3>3
  <2> QED BY <2>1, <2>2, <2>3, InductionUpTo
<1>11. Ones = [q \in 0..62 |-> Ones[q]]
  BY <1>7
<1> QED BY <1>8, <1>9, <1>10, <1>11 DEF Terms

\* The terms up to 318 are the sums that the generator makes.
LEMMA ScramblerIs ==
    /\ Scrambler \in SUBSET (0..318)
    /\ \A t \in 0..8 : t \in Scrambler <=> t \in {0, 2, 3, 4, 5, 7}
    /\ \A t \in 0..309 : t + 9 \in Scrambler <=> ~(t \in Scrambler <=> t + 4 \in Scrambler)
<1>1. PICK f : f = Ones
  OBVIOUS
<1>2. f \in [0..62 -> SUBSET Int] /\ f[0] = {0, 2, 3, 4, 5, 7}
  BY <1>1, OnesAre DEF Terms
<1>3. ASSUME NEW q \in 1..62
      PROVE  /\ f[q - 1] \subseteq f[q]
             /\ \A t \in f[q] : t \in f[q - 1] \/ t \in 5 * q + 4 .. 5 * q + 8
             /\ \A t \in 5 * q + 4 .. 5 * q + 8 : t \notin f[q - 1] =>
                   (t \in f[q] <=> ~(t - 9 \in f[q - 1] <=> t - 5 \in f[q - 1]))
  <2>1. PICK s : s = f[q - 1] /\ f[q] = TermsAfter(s, q)
    BY <1>1, OnesAre DEF Terms
  <2>2. PICK n : n = {t \in 5 * q + 4 .. 5 * q + 8 : (t - 9 \in s) # (t - 5 \in s)}
    OBVIOUS
  <2>3. f[q] = s \cup n
    BY <2>1, <2>2 DEF TermsAfter
  <2>4. \A t \in 5 * q + 4 .. 5 * q + 8 : t \in n <=> ~(t - 9 \in s <=> t - 5 \in s)
    BY <2>2
  <2>5. n \subseteq 5 * q + 4 .. 5 * q + 8
    BY <2>2
  <2> QED BY <2>1, <2>3, <2>4, <2>5
<1>4. \A q \in 0..62 : f[q] \subseteq 0 .. 5 * q + 8
  <2>1. PICK T : T = {q \in 0..62 : f[q] \subseteq 0 .. 5 * q + 8}
    OBVIOUS
  <2>2. 0 \in T
    BY <1>2, <2>1
  <2>3. ASSUME NEW q \in 0..61, q \in T
        PROVE  q + 1 \in T
    <3>1. q + 1 \in 1..62 /\ (q + 1) - 1 = q /\ q + 1 \in 0..62
      OBVIOUS
    <3>2. \A t \in f[q + 1] : t \in f[q] \/ t \in 5 * (q + 1) + 4 .. 5 * (q + 1) + 8
      BY <1>3, <3>1
    <3>3. f[q] \subseteq 0 .. 5 * q + 8
      BY <2>1, <2>3
    <3>4. f[q + 1] \subseteq 0 .. 5 * (q + 1) + 8
      BY <3>2, <3>3
    <3> QED BY <2>1, <3>1, <3>4
  <2>4. \A q \in 0..62 : q \in T
    BY <2>2, <2>3, InductionUpTo
  <2> QED BY <2>1, <2>4
<1>5. ASSUME NEW q \in 0..62, NEW t \in Int, t <= 5 * q + 8
      PROVE  t \in f[62] <=> t \in f[q]
  <2>1. PICK N \in Nat : N = 62 - q
    OBVIOUS
  <2>2. PICK T : T = {d \in 0..N : t \in f[q + d] <=> t \in f[q]}
    OBVIOUS
  <2>3. 0 \in T
    <3>1. q + 0 = q /\ 0 \in 0..N
      BY <2>1
    <3> QED BY <2>2, <3>1
  <2>4. ASSUME NEW d \in 0..(N - 1), d \in T
        PROVE  d + 1 \in T
    <3>1. PICK r \in 1..62 : r = q + (d + 1) /\ r - 1 = q + d
      BY <2>1
    <3>2. t \notin 5 * r + 4 .. 5 * r + 8
      BY <1>5, <3>1
    <3>3. t \in f[r] <=> t \in f[r - 1]
      BY <1>3, <3>2
    <3>4. d + 1 \in 0..N
      OBVIOUS
    <3>5. t \in f[q + d] <=> t \in f[q]
      BY <2>2, <2>4
    <3> QED BY <2>2, <3>1, <3>3, <3>4, <3>5
  <2>5. \A d \in 0..N : d \in T
    BY <2>1, <2>3, <2>4, InductionUpTo
  <2>6. N \in T /\ q + N = 62
    BY <2>1, <2>5
  <2> QED BY <2>2, <2>6
<1>6. f[62] = Scrambler
  BY <1>1 DEF Scrambler
<1>7. Scrambler \in SUBSET (0..318)
  BY <1>4, <1>6
<1>8. \A t \in 0..8 : t \in Scrambler <=> t \in {0, 2, 3, 4, 5, 7}
  BY <1>2, <1>5, <1>6
<1>9. ASSUME NEW t \in 0..309
      PROVE  t + 9 \in Scrambler <=> ~(t \in Scrambler <=> t + 4 \in Scrambler)
  <2>1. PICK q \in 1..62 : q = (t + 5) \div 5
    OBVIOUS
  <2>2. t + 9 \in 5 * q + 4 .. 5 * q + 8 /\ q - 1 \in 0..62
    BY <2>1
  <2>3. t + 9 \notin f[q - 1]
    <3>1. f[q - 1] \subseteq 0 .. 5 * (q - 1) + 8
      BY <1>4, <2>2
    <3> QED BY <2>2, <3>1
  <2>4. t + 9 \in f[q] <=> ~(t \in f[q - 1] <=> t + 4 \in f[q - 1])
    <3>1. PICK u \in 5 * q + 4 .. 5 * q + 8 : u = t + 9 /\ u - 9 = t /\ u - 5 = t + 4
      BY <2>2
    <3>2. u \in f[q] <=> ~(u - 9 \in f[q - 1] <=> u - 5 \in f[q - 1])
      BY <1>3, <2>3, <3>1
    <3> QED BY <3>1, <3>2
  <2>5. /\ t + 9 \in f[62] <=> t + 9 \in f[q]
        /\ t \in f[62] <=> t \in f[q - 1]
        /\ t + 4 \in f[62] <=> t + 4 \in f[q - 1]
    <3>1. t + 9 <= 5 * q + 8 /\ t <= 5 * (q - 1) + 8 /\ t + 4 <= 5 * (q - 1) + 8
      BY <2>2
    <3> QED BY <1>5, <2>2, <3>1, SMTT(40)
  <2> QED BY <1>6, <2>4, <2>5
<1> QED BY <1>7, <1>8, <1>9

\* The register moves along the sequence.
LEMMA AdvancedAlong ==
    ASSUME NEW reg \in SUBSET (0..8), NEW m \in 0..5, NEW n \in 0..309, n + m <= 310,
           \A k \in 0..8 : k \in reg <=> n + k \in Scrambler
    PROVE  /\ Advanced(reg, m) \in SUBSET (0..8)
           /\ \A k \in 0..8 : k \in Advanced(reg, m) <=> (n + m) + k \in Scrambler
<1>1. PICK old : old = {k - m : k \in reg \cap m..8}
  OBVIOUS
<1>2. PICK in : in = {t \in 0 .. m - 1 : (t \in reg) # (t + 4 \in reg)}
  OBVIOUS
<1>3. PICK new : new = {9 - m + k : k \in in}
  OBVIOUS
<1>4. Advanced(reg, m) = old \cup new
  BY <1>1, <1>2, <1>3 DEF Advanced
<1>5. \A t \in 0 .. m - 1 : t \in in <=> n + (t + 9) \in Scrambler
  <2> TAKE t \in 0 .. m - 1
  <2>1. t \in in <=> ~(t \in reg <=> t + 4 \in reg)
    BY <1>2
  <2>2. t \in 0..8 /\ t + 4 \in 0..8 /\ n + t \in 0..309
    OBVIOUS
  <2>3. (n + t) + 9 \in Scrambler <=> ~(n + t \in Scrambler <=> (n + t) + 4 \in Scrambler)
    BY <2>2, ScramblerIs
  <2>4. (n + t) + 9 = n + (t + 9) /\ (n + t) + 4 = n + (t + 4)
    OBVIOUS
  <2> QED BY <2>1, <2>2, <2>3, <2>4
<1>6. \A k \in 0..8 : k \in old <=> k + m \in reg
  <2> TAKE k \in 0..8
  <2>1. ASSUME k + m \in reg PROVE k \in old
    <3>1. k + m \in reg \cap m..8 /\ (k + m) - m = k
      BY <2>1
    <3> QED BY <1>1, <3>1
  <2>2. ASSUME k \in old PROVE k + m \in reg
    BY <1>1, <2>2
  <2> QED BY <2>1, <2>2
<1>7. \A k \in 0..8 : k \in new <=> (k + m) - 9 \in in
  <2> TAKE k \in 0..8
  <2>0. in \subseteq Int
    BY <1>2
  <2>1. ASSUME (k + m) - 9 \in in PROVE k \in new
    <3>1. (9 - m) + ((k + m) - 9) = k
      OBVIOUS
    <3> QED BY <1>3, <2>1, <3>1
  <2>2. ASSUME k \in new PROVE (k + m) - 9 \in in
    BY <1>3, <2>0, <2>2
  <2> QED BY <2>1, <2>2
<1>8. old \subseteq 0..8
  BY <1>1
<1>9. new \subseteq 0..8
  BY <1>2, <1>3
<1>10. in \subseteq 0 .. m - 1
  BY <1>2
<1>11. ASSUME NEW k \in 0..8
       PROVE  k \in Advanced(reg, m) <=> (n + m) + k \in Scrambler
  <2>1. CASE k + m <= 8
    <3>1. k + m \in 0..8 /\ (k + m) - 9 \notin 0 .. m - 1 /\ n + (k + m) = (n + m) + k
      BY <2>1
    <3> QED BY <1>4, <1>6, <1>7, <1>10, <3>1
  <2>2. CASE k + m > 8
    <3>1. (k + m) - 9 \in 0 .. m - 1 /\ k + m \notin 0..8 /\ n + (((k + m) - 9) + 9) = (n + m) + k
      BY <2>2
    <3> QED BY <1>4, <1>5, <1>6, <1>7, <3>1
  <2> QED BY <2>1, <2>2
<1> QED BY <1>4, <1>8, <1>9, <1>11

Register9 == SUBSET (0..8)

LEMMA AdvancedType == ASSUME NEW reg \in Register9 PROVE Advanced(reg, 4) \in Register9
<1>1. PICK in : in = {t \in 0 .. 4 - 1 : (t \in reg) # (t + 4 \in reg)}
  OBVIOUS
<1>2. Advanced(reg, 4) = {k - 4 : k \in reg \cap 4..8} \cup {9 - 4 + k : k \in in}
  BY <1>1 DEF Advanced
<1>3. {k - 4 : k \in reg \cap 4..8} \subseteq 0..8
  BY DEF Register9
<1>4. {9 - 4 + k : k \in in} \subseteq 0..8
  BY <1>1
<1> QED BY <1>2, <1>3, <1>4 DEF Register9

\* The registers, four steps apart.
NibblesAre == /\ Nibble[3] = {0, 2, 3, 4, 5, 7}
              /\ \A q \in 4..79 : Nibble[q] = Advanced(Nibble[q - 1], 4)

LEMMA NibbleIs == NibblesAre
<1>1. PICK G : G = [i \in 1..76 |-> [s \in Register9 |-> Advanced(s, 4)]]
  OBVIOUS
<1>2. G \in [1..76 -> [Register9 -> Register9]]
  BY <1>1, AdvancedType
<1>3. {0, 2, 3, 4, 5, 7} \in Register9
  BY DEF Register9
<1>4. Recursion(76, Register9, {0, 2, 3, 4, 5, 7}, G)
  BY <1>2, <1>3, SetRecursion DEF Register9
<1>5. PICK g : /\ g \in [0..76 -> Register9] /\ g[0] = {0, 2, 3, 4, 5, 7}
               /\ \A i \in 1..76 : g[i] = Advanced(g[i - 1], 4)
  <2>1. PICK g \in [0..76 -> Register9] : g[0] = {0, 2, 3, 4, 5, 7} /\ \A i \in 1..76 : g[i] = G[i][g[i - 1]]
    BY <1>4 DEF Recursion
  <2>2. ASSUME NEW i \in 1..76
        PROVE  g[i] = Advanced(g[i - 1], 4)
    <3>1. g[i - 1] \in Register9
      OBVIOUS
    <3> QED BY <1>1, <2>1, <3>1
  <2> QED BY <2>1, <2>2
<1> DEFINE Step(h) == [q \in 3..79 |->
                 IF q = 3 THEN {0, 2, 3, 4, 5, 7} ELSE Advanced(h[q - 1], 4)]
<1>6. PICK f : f = [q \in 3..79 |-> g[q - 3]]
  OBVIOUS
<1>7. f = Step(f)
  <2>1. ASSUME NEW q \in 3..79, q # 3
        PROVE  f[q] = Advanced(f[q - 1], 4)
    <3>1. q - 3 \in 1..76 /\ (q - 3) - 1 = (q - 1) - 3 /\ q - 1 \in 3..79
      BY <2>1
    <3> QED BY <1>5, <1>6, <3>1
  <2>2. f[3] = {0, 2, 3, 4, 5, 7}
    <3>1. 3 - 3 = 0 /\ 3 \in 3..79
      OBVIOUS
    <3> QED BY <1>5, <1>6, <3>1
  <2>3. \A q \in 3..79 : f[q] = IF q = 3 THEN {0, 2, 3, 4, 5, 7} ELSE Advanced(f[q - 1], 4)
    BY <2>1, <2>2
  <2> QED BY <1>6, <2>3
<1>8. Nibble = Step(Nibble)
  <2>1. Nibble = CHOOSE h : h = Step(h)
    BY DEF Nibble
  <2> HIDE DEF Step
  <2> QED BY <1>7, <2>1, Zenon
<1> QED BY <1>8 DEF NibblesAre

\* The scrambler's register at a bit of the frame holds the terms from there on.
LEMMA RegisterIs ==
    ASSUME NEW x \in 12..319
    PROVE  /\ 0 \in Register(x) <=> x - 12 \in Scrambler
           /\ 3 \in Register(x) <=> x - 9 \in Scrambler
<1> DEFINE Along(q) == /\ Nibble[q] \in SUBSET (0..8)
                       /\ \A k \in 0..8 : k \in Nibble[q] <=> 4 * (q - 3) + k \in Scrambler
<1>1. PICK T : T = {i \in 0..76 : Along(i + 3)}
  OBVIOUS
<1>2. 0 \in T
  <2>1. Nibble[3] = {0, 2, 3, 4, 5, 7}
    BY NibbleIs DEF NibblesAre
  <2>2. \A k \in 0..8 : 4 * (3 - 3) + k = k
    OBVIOUS
  <2> QED BY <1>1, <2>1, <2>2, ScramblerIs
<1>3. ASSUME NEW i \in 0..75, i \in T
      PROVE  i + 1 \in T
  <2>1. PICK reg \in SUBSET (0..8) : reg = Nibble[i + 3]
    BY <1>1, <1>3
  <2>2. PICK n \in 0..300 : n = 4 * i
    OBVIOUS
  <2>3. \A k \in 0..8 : k \in reg <=> n + k \in Scrambler
    <3>1. 4 * ((i + 3) - 3) = n
      BY <2>2
    <3> QED BY <1>1, <1>3, <2>1, <3>1
  <2>4. /\ Advanced(reg, 4) \in SUBSET (0..8)
        /\ \A k \in 0..8 : k \in Advanced(reg, 4) <=> (n + 4) + k \in Scrambler
    <3>1. 4 \in 0..5 /\ n \in 0..309 /\ n + 4 <= 310
      OBVIOUS
    <3> QED BY <2>3, <3>1, AdvancedAlong
  <2>5. Nibble[(i + 1) + 3] = Advanced(reg, 4)
    <3>1. (i + 1) + 3 \in 4..79 /\ ((i + 1) + 3) - 1 = i + 3
      OBVIOUS
    <3> QED BY <2>1, <3>1, NibbleIs DEF NibblesAre
  <2>6. 4 * (((i + 1) + 3) - 3) = n + 4 /\ i + 1 \in 0..76
    BY <2>2
  <2> QED BY <1>1, <2>4, <2>5, <2>6
<1>4. \A i \in 0..76 : i \in T
  BY <1>2, <1>3, InductionUpTo
<1>5. PICK q \in 3..79 : q = x \div 4
  OBVIOUS
<1>6. PICK m \in 0..3 : m = x % 4
  OBVIOUS
<1>7. x = 4 * q + m
  BY <1>5, <1>6
<1>8. PICK n \in 0..304 : n = 4 * (q - 3)
  OBVIOUS
<1>9. PICK reg \in SUBSET (0..8) : reg = Nibble[q] /\ \A k \in 0..8 : k \in reg <=> n + k \in Scrambler
  <2>1. Along(q)
    <3>1. q - 3 \in 0..76 /\ (q - 3) + 3 = q
      OBVIOUS
    <3> HIDE DEF Along
    <3> QED BY <1>1, <1>4, <3>1
  <2> QED BY <1>8, <2>1
<1>10. \A k \in 0..8 : k \in Advanced(reg, m) <=> (n + m) + k \in Scrambler
  <2>1. m \in 0..5 /\ n \in 0..309 /\ n + m <= 310
    OBVIOUS
  <2> QED BY <1>9, <2>1, AdvancedAlong
<1>11. Register(x) = Advanced(reg, m)
  BY <1>5, <1>6, <1>9 DEF Register
<1>12. (n + m) + 0 = x - 12 /\ (n + m) + 3 = x - 9
  BY <1>7, <1>8
<1> QED BY <1>10, <1>11, <1>12

\* What is inverted in each frame is what the receiver inverts.
LEMMA PrbsIs ==
    ASSUME NEW x \in 0..319
    PROVE  /\ x \in Prbs0 <=> x >= 12 /\ x - 12 \in Scrambler
           /\ x \in Prbs1 <=> x >= 12 /\ ~(x - 12 \in Scrambler <=> x - 9 \in Scrambler)
<1>1. CASE x \in 12..319
  <2>1. /\ 0 \in Register(x) <=> x - 12 \in Scrambler
        /\ 3 \in Register(x) <=> x - 9 \in Scrambler
    BY <1>1, RegisterIs
  <2>2. x \in Prbs0 <=> 0 \in Register(x)
    BY <1>1 DEF Prbs0
  <2>3. x \in Prbs1 <=> ~(0 \in Register(x) <=> 3 \in Register(x))
    BY <1>1 DEF Prbs1
  <2> QED BY <1>1, <2>1, <2>2, <2>3
<1>2. CASE x \notin 12..319
  BY <1>2 DEF Prbs0, Prbs1
<1> QED BY <1>1, <1>2

-----------------------------------------------------------------------------
(* The header of a frame, and the two frames together *)

Header(word, bit) == BitsWrite(BitsWrite({}, 0, word, 11), 11, bit, 1)

LEMMA HeaderIs ==
    ASSUME NEW word \in Int, NEW bit \in {0, 1}
    PROVE  /\ Header(word, bit) \in SUBSET (0..11)
           /\ Holds(Header(word, bit), 0, 11, word)
           /\ 11 \in Header(word, bit) <=> bit = 1
<1>1. PICK H : H = BitsWrite({}, 0, word, 11)
  OBVIOUS
<1>2. PICK K : K = BitsWrite(H, 11, bit, 1) /\ Header(word, bit) = K
  BY <1>1 DEF Header
<1>3. \A y \in 0..10 : y \in H <=> Bit(word, 10 - y) = 1
  <2> TAKE y \in 0..10
  <2>1. y \in Int /\ y \in 0 .. 0 + 11 - 1 /\ 0 + 11 - 1 - y = 10 - y
    OBVIOUS
  <2>2. y \in H <=> Bit(word, 0 + 11 - 1 - y) = 1
    BY <1>1, <2>1, BitsWriteIs
  <2> QED BY <2>1, <2>2
<1>4. H \subseteq 0..10
  <2>1. H \subseteq {} \cup 0 .. 0 + 11 - 1
    BY <1>1, BitsWriteWithin
  <2> QED BY <2>1
<1>5. /\ 11 \in K <=> bit = 1
      /\ \A y \in Int : y # 11 => (y \in K <=> y \in H)
      /\ K \subseteq H \cup {11}
  BY <1>2, 11 \in Int, OneBitIs
<1>6. K \subseteq 0..11
  <2>1. \A y \in K : y \in H \/ y = 11
    BY <1>5
  <2>2. ASSUME NEW y \in K PROVE y \in 0..11
    <3>1. y \in 0..10 \/ y = 11
      BY <1>4, <2>1
    <3> QED BY <3>1
  <2> QED BY <2>2
<1>7. \A y \in 0 .. 11 - 1 : 0 + y \in K <=> Bit(word, 11 - 1 - y) = 1
  BY <1>3, <1>5
<1> QED BY <1>2, <1>5, <1>6, <1>7 DEF Holds

\* A receiver reads the word and the bit.
LEMMA HeaderRead ==
    ASSUME NEW word \in Int, NEW bit \in {0, 1}, NEW F, \A y \in 0..11 : y \in F <=> y \in Header(word, bit)
    PROVE  /\ Number(F, 0, 11) = word % Two(11)
           /\ Number(F, 11, 1) = bit
           /\ 11 \in F <=> bit = 1
<1>1. Holds(F, 0, 11, word)
  <2>1. \A y \in 0 .. 11 - 1 : 0 + y \in F <=> 0 + y \in Header(word, bit)
    OBVIOUS
  <2> QED BY <2>1, HeaderIs DEF Holds
<1>2. 11 \in F <=> bit = 1
  BY HeaderIs
<1>3. Number(F, 0, 11) = word % Two(11)
  <2>1. 0 \in Int /\ 11 \in 1..11
    OBVIOUS
  <2> QED BY <1>1, <2>1, NumberRead
<1>4. Bit(bit, 0) = bit
  BY DEF Bit
<1>5. Number(F, 11, 1) = bit % Two(1)
  <2>1. Holds(F, 11, 1, bit)
    BY <1>2, <1>4 DEF Holds
  <2>2. 1 \in 1..11 /\ 11 \in Int /\ bit \in Int
    OBVIOUS
  <2> QED BY <2>1, <2>2, NumberRead
<1> QED BY <1>2, <1>3, <1>5, Powers

\* A frame in the clear with four blocks in it.
InClear(F, frame, c0, c1, c2, c3) ==
    /\ F \in SUBSET (0..319)
    /\ \A y \in 0..11 : y \in F <=> y \in frame
    /\ \A i \in 0..76 : /\ 12 + 154 * 0 + 2 * i + 0 \in F <=> i \in c0
                        /\ 12 + 154 * 0 + 2 * i + 1 \in F <=> i \in c1
                        /\ 12 + 154 * 1 + 2 * i + 0 \in F <=> i \in c2
                        /\ 12 + 154 * 1 + 2 * i + 1 \in F <=> i \in c3

LEMMA FramesInClear ==
    ASSUME NEW frame \in SUBSET (0..11),
           NEW c0 \in SUBSET (0..76), NEW c1 \in SUBSET (0..76), NEW c2 \in SUBSET (0..76), NEW c3 \in SUBSET (0..76),
           NEW F, F = Dealt(Dealt(frame, 12, c0, c1), 166, c2, c3)
    PROVE  InClear(F, frame, c0, c1, c2, c3)
<1>1. PICK M : M = Dealt(frame, 12, c0, c1)
  OBVIOUS
<1>2. DealtOut(M, frame, 12, c0, c1)
  BY <1>1, DealtIs
<1>3. M \in SUBSET Int
  BY <1>2 DEF DealtOut
<1>4. DealtOut(F, M, 166, c2, c3)
  BY <1>1, <1>3, DealtIs
<1>5. F \in SUBSET (0..319)
  <2>1. \A y \in F : y \in 166 .. 166 + 153 \/ y \in M
    BY <1>4 DEF DealtOut
  <2>2. \A y \in M : y \in 12 .. 12 + 153 \/ y \in frame
    BY <1>2 DEF DealtOut
  <2>3. \A y \in F : y \in 0..319
    <3> TAKE y \in F
    <3>1. y \in 166 .. 166 + 153 \/ y \in 12 .. 12 + 153 \/ y \in 0..11
      BY <2>1, <2>2
    <3> QED BY <3>1
  <2> QED BY <2>3
<1>6. \A y \in 0..165 : y \in F <=> y \in M
  BY <1>4 DEF DealtOut
<1>7. \A y \in 0..11 : y \in F <=> y \in frame
  BY <1>2, <1>6 DEF DealtOut
<1>8. ASSUME NEW i \in 0..76
      PROVE  /\ 12 + 2 * i \in F <=> i \in c0
             /\ 12 + 2 * i + 1 \in F <=> i \in c1
  <2>1. 12 + 2 * i \in 0..165 /\ 12 + 2 * i + 1 \in 0..165
    OBVIOUS
  <2> QED BY <1>2, <1>6, <2>1 DEF DealtOut
<1>9. ASSUME NEW i \in 0..76
      PROVE  /\ 166 + 2 * i \in F <=> i \in c2
             /\ 166 + 2 * i + 1 \in F <=> i \in c3
  BY <1>4 DEF DealtOut
<1>10. \A i \in 0..76 : /\ 12 + 154 * 0 + 2 * i + 0 = 12 + 2 * i
                        /\ 12 + 154 * 0 + 2 * i + 1 = 12 + 2 * i + 1
                        /\ 12 + 154 * 1 + 2 * i + 0 = 166 + 2 * i
                        /\ 12 + 154 * 1 + 2 * i + 1 = 166 + 2 * i + 1
  OBVIOUS
<1> QED BY <1>5, <1>7, <1>8, <1>9, <1>10 DEF InClear

\* A receiver finds the blocks where they were put.
LEMMA BlocksFound ==
    ASSUME NEW A, NEW B, NEW c \in [0..7 -> SUBSET (0..76)], NEW fa, NEW fb,
           InClear(A, fa, c[0], c[1], c[2], c[3]), InClear(B, fb, c[4], c[5], c[6], c[7]), NEW j \in 0..7
    PROVE  BlockAt(<<A, B>>, j) = c[j]
<1>1. PICK h \in 0..1 : h = (j % 4) \div 2
  OBVIOUS
<1>2. PICK o \in 0..1 : o = j % 2
  OBVIOUS
<1>3. PICK q \in 1..2 : q = j \div 4 + 1
  OBVIOUS
<1>4. j = 4 * (q - 1) + 2 * h + o
  BY <1>1, <1>2, <1>3
<1>5. PICK F : F = <<A, B>>[q]
  OBVIOUS
<1>6. BlockAt(<<A, B>>, j) = {i \in 0..76 : 12 + 154 * h + 2 * i + o \in F}
  BY <1>1, <1>2, <1>3, <1>5 DEF BlockAt
<1>7. \A i \in 0..76 : 12 + 154 * h + 2 * i + o \in F <=> i \in c[j]
  <2>1. CASE q = 1
    <3>1. F = A /\ j = 2 * h + o
      BY <1>4, <1>5, <2>1
    <3>2. (h = 0 /\ o = 0) \/ (h = 0 /\ o = 1) \/ (h = 1 /\ o = 0) \/ (h = 1 /\ o = 1)
      OBVIOUS
    <3> QED BY <3>1, <3>2 DEF InClear
  <2>2. CASE q = 2
    <3>1. F = B /\ j = 4 + 2 * h + o
      BY <1>4, <1>5, <2>2
    <3>2. (h = 0 /\ o = 0) \/ (h = 0 /\ o = 1) \/ (h = 1 /\ o = 0) \/ (h = 1 /\ o = 1)
      OBVIOUS
    <3> QED BY <3>1, <3>2 DEF InClear
  <2> QED BY <2>1, <2>2
<1>8. c[j] \subseteq 0..76
  OBVIOUS
<1> QED BY <1>6, <1>7, <1>8

\* A receiver undoes the scrambling and the interleaving.
LEMMA FramesFound ==
    ASSUME NEW A \in SUBSET (0..319), NEW B \in SUBSET (0..319)
    PROVE  FramesOf(Ileave(Xor(A, Prbs0)) \cup {k + 1 : k \in Ileave(Xor(B, Prbs1))}) = <<A, B>>
<1>1. PICK SA \in SUBSET (0..319) : SA = Xor(A, Prbs0)
  <2>1. Prbs0 \subseteq 0..319
    BY DEF Prbs0
  <2>2. Xor(A, Prbs0) \in SUBSET (0..319)
    BY <2>1 DEF Xor
  <2> QED BY <2>2
<1>2. PICK SB \in SUBSET (0..319) : SB = Xor(B, Prbs1)
  <2>1. Prbs1 \subseteq 0..319
    BY DEF Prbs1
  <2>2. Xor(B, Prbs1) \in SUBSET (0..319)
    BY <2>1 DEF Xor
  <2> QED BY <2>2
<1>3. PICK X : X = Ileave(SA) \cup {k + 1 : k \in Ileave(SB)}
  OBVIOUS
<1>4. X = {2 * k : k \in SA} \cup {2 * k + 1 : k \in SB}
  BY <1>3 DEF Ileave
<1>5. \A k \in 0..319 : /\ 2 * k + 0 \in X <=> k \in SA
                        /\ 2 * k + 1 \in X <=> k \in SB
  <2> TAKE k \in 0..319
  <2>1. \A y \in X : (\E z \in SA : y = 2 * z) \/ (\E z \in SB : y = 2 * z + 1)
    BY <1>4, SMTT(30)
  <2>2. ASSUME 2 * k + 0 \in X
        PROVE  k \in SA
    BY <2>1, <2>2
  <2>3. ASSUME 2 * k + 1 \in X
        PROVE  k \in SB
    BY <2>1, <2>3
  <2>4. k \in SA => 2 * k + 0 \in X
    <3>1. 2 * k + 0 = 2 * k
      OBVIOUS
    <3> QED BY <1>4, <3>1
  <2>5. k \in SB => 2 * k + 1 \in X
    BY <1>4
  <2> QED BY <2>2, <2>3, <2>4, <2>5
<1>6. {k \in 0..319 : 2 * k + 0 \in X} = SA
  BY <1>5, ZenonT(40)
<1>7. {k \in 0..319 : 2 * k + 1 \in X} = SB
  BY <1>5, ZenonT(40)
<1>8. Descrambled(SA, 0) = A
  <2>1. Descrambled(SA, 0) = {x \in 0..319 : (x \in SA) # (x >= 12 /\ x - 12 \in Scrambler)}
    BY DEF Descrambled
  <2>2. \A x \in 0..319 : (x \in SA) # (x >= 12 /\ x - 12 \in Scrambler) <=> x \in A
    <3> TAKE x \in 0..319
    <3>1. x \in SA <=> ~(x \in A <=> x \in Prbs0)
      BY <1>1, XorIs
    <3>2. x \in Prbs0 <=> x >= 12 /\ x - 12 \in Scrambler
      BY PrbsIs
    <3> QED BY <3>1, <3>2
  <2> QED BY <2>1, <2>2, ZenonT(60)
<1>9. Descrambled(SB, 1) = B
  <2>1. Descrambled(SB, 1) = {x \in 0..319 : (x \in SB) # (x >= 12 /\ (x - 12 \in Scrambler) # (x - 9 \in Scrambler))}
    BY DEF Descrambled
  <2>2. \A x \in 0..319 : (x \in SB) # (x >= 12 /\ (x - 12 \in Scrambler) # (x - 9 \in Scrambler)) <=> x \in B
    <3> TAKE x \in 0..319
    <3>1. x \in SB <=> ~(x \in B <=> x \in Prbs1)
      BY <1>2, XorIs
    <3>2. x \in Prbs1 <=> x >= 12 /\ ~(x - 12 \in Scrambler <=> x - 9 \in Scrambler)
      BY PrbsIs
    <3> QED BY <3>1, <3>2
  <2> QED BY <2>1, <2>2, ZenonT(60)
<1>10. FramesOf(X) = <<Descrambled(SA, 0), Descrambled(SB, 1)>>
  BY <1>6, <1>7, ZenonT(60) DEF FramesOf
<1> QED BY <1>1, <1>2, <1>3, <1>8, <1>9, <1>10

-----------------------------------------------------------------------------
(* The steps of a pair of frames *)

\* What the body of the loop may be given.
InputOK(in) ==
    /\ in.audio \in [Channels -> Sample14] /\ in.scale \in [Channels -> 0..7]
    /\ in.frame \in 0..63 /\ in.sa \in {0, 1}

ZiOf(in, m) == in.frame < 42 /\ (in.frame % 14) \in ZiWord(in.scale[2 * m], in.scale[2 * m + 1])

\* Block j, as a receiver reads it.
BlockOf(B, in, j) ==
    /\ B \in SUBSET (0..76) /\ Syndrome(B) = {}
    /\ \A c \in 0..3 : in.audio[4 * j + c] = SampleOf(B, c)
    /\ \A q \in 0..1 : 63 + q \in B <=> ZiOf(in, 2 * j + q)

\* The two frames in the clear, as a receiver reads them.
Framed(in, A, B) ==
    /\ A \in SUBSET (0..319) /\ B \in SUBSET (0..319)
    /\ Number(A, 0, 11) = SyncWord /\ Number(B, 0, 11) = 2047 - SyncWord
    /\ Number(A, 11, 1) = in.sa /\ 11 \notin B
    /\ \A j \in 0..7 : BlockOf(BlockAt(<<A, B>>, j), in, j)

\* What is there after each step.
FrameInv ==
    /\ InputOK(input)
    /\ pc \in {"idle", "clear", "blocks", "insert", "shape", "emit", "done"}
    /\ pc \in {"blocks", "insert"} => a = Header(SyncWord, input.sa) /\ b = Header(-1 - SyncWord, 0)
    /\ pc = "insert" => DOMAIN blocks = 0..7 /\ \A j \in 0..7 : BlockOf(blocks[j], input, j)
    /\ pc = "shape" => Framed(input, a, b)
    /\ pc = "emit" => \E A, B : Framed(input, A, B) /\ a = Xor(A, Prbs0) /\ b = Xor(B, Prbs1)
    /\ pc = "done" => \E A, B : Framed(input, A, B) /\ FramesOf(block) = <<A, B>>

\* The word of a pair of scale factors has 14 bits, and the frame three times the word.
LEMMA ZiWordType == ASSUME NEW l \in 0..7, NEW r \in 0..7 PROVE ZiWord(l, r) \in SUBSET (0..13)
<1>1. PICK c : c = l * 8 + r
  OBVIOUS
<1>2. PICK W : W = BitsWrite({}, 0, c, 6)
  OBVIOUS
<1>3. PICK Z : Z = ZiBch(c)
  OBVIOUS
<1>4. ZiWord(l, r) = W \cup {13 - k : k \in Z}
  BY <1>1, <1>2, <1>3 DEF ZiWord
<1>5. Z \subseteq 0..7
  BY <1>3 DEF ZiBch
<1>6. {13 - k : k \in Z} \subseteq 0..13
  BY <1>5
<1>7. W \subseteq 0..13
  <2>1. W \subseteq {} \cup 0 .. 0 + 6 - 1
    BY <1>2, BitsWriteWithin
  <2> QED BY <2>1
<1> QED BY <1>4, <1>6, <1>7

LEMMA ZiBitIs ==
    ASSUME InputOK(input), NEW m \in 0..15
    PROVE  ZiBit(m) \in {0, 1} /\ (ZiBit(m) = 1 <=> ZiOf(input, m))
<1>1. PICK W : W = ZiWord(input.scale[2 * m], input.scale[2 * m + 1])
  OBVIOUS
<1>2. W \in SUBSET (0..13)
  <2>1. 2 * m \in Channels /\ 2 * m + 1 \in Channels
    BY DEF Channels
  <2>2. input.scale[2 * m] \in 0..7 /\ input.scale[2 * m + 1] \in 0..7
    BY <2>1 DEF InputOK
  <2> QED BY <1>1, <2>2, ZiWordType
<1>3. PICK f \in 0..63 : f = input.frame
  BY DEF InputOK
<1>4. ZiFrame(m) = {14 * t + p : t \in 0..2, p \in W}
  BY <1>1 DEF ZiFrame
<1>5. f \in ZiFrame(m) <=> f < 42 /\ f % 14 \in W
  <2>1. ASSUME f \in ZiFrame(m)
        PROVE  f < 42 /\ f % 14 \in W
    <3>1. PICK t \in 0..2, p \in W : f = 14 * t + p
      BY <1>4, <2>1
    <3>2. p \in 0..13
      BY <1>2
    <3>3. f % 14 = p
      BY <3>1, <3>2
    <3> QED BY <3>1, <3>2, <3>3
  <2>2. ASSUME f < 42, f % 14 \in W
        PROVE  f \in ZiFrame(m)
    <3>1. f \div 14 \in 0..2 /\ f = 14 * (f \div 14) + (f % 14)
      BY <2>2
    <3> QED BY <1>4, <2>2, <3>1
  <2> QED BY <2>1, <2>2
<1> QED BY <1>1, <1>3, <1>5 DEF ZiBit, ZiOf

LEMMA StartFrameKeeps ==
    ASSUME NEW in, InputOK(in), StartFrame(in)
    PROVE  FrameInv'
BY DEF StartFrame, FrameInv, InputOK

LEMMA ClearKeeps == ASSUME FrameInv, Clear PROVE FrameInv'
<1>1. a' = Header(SyncWord, input.sa) /\ b' = Header(-1 - SyncWord, 0)
  BY DEF Clear, Header
<1>2. input' = input /\ pc' = "blocks"
  BY DEF Clear
<1>3. InputOK(input)
  BY DEF FrameInv
<1> QED BY <1>1, <1>2, <1>3 DEF FrameInv

LEMMA GenerateKeeps == ASSUME FrameInv, Generate PROVE FrameInv'
<1>1. input' = input /\ pc' = "insert" /\ a' = a /\ b' = b /\ pc = "blocks"
  BY DEF Generate
<1>2. InputOK(input) /\ a = Header(SyncWord, input.sa) /\ b = Header(-1 - SyncWord, 0)
  BY <1>1 DEF FrameInv
<1>3. DOMAIN blocks' = 0..7
  BY DEF Generate
<1>4. ASSUME NEW j \in 0..7
      PROVE  BlockOf(blocks'[j], input, j)
  <2>1. PICK v : v = [c \in 0..3 |-> input.audio[4 * j + c]]
    OBVIOUS
  <2>2. PICK B : B = Block77(v, ZiBit(2 * j), ZiBit(2 * j + 1))
    OBVIOUS
  <2>3. blocks'[j] = B
    BY <2>1, <2>2 DEF Generate
  <2>4. v \in [0..3 -> Sample14]
    <3>1. \A c \in 0..3 : 4 * j + c \in Channels
      BY DEF Channels
    <3> QED BY <1>2, <2>1, <3>1 DEF InputOK
  <2>5. 2 * j \in 0..15 /\ 2 * j + 1 \in 0..15
    OBVIOUS
  <2>6. PICK zi1 \in {0, 1} : zi1 = ZiBit(2 * j) /\ (zi1 = 1 <=> ZiOf(input, 2 * j))
    BY <1>2, <2>5, ZiBitIs
  <2>7. PICK zi2 \in {0, 1} : zi2 = ZiBit(2 * j + 1) /\ (zi2 = 1 <=> ZiOf(input, 2 * j + 1))
    BY <1>2, <2>5, ZiBitIs
  <2>8. Carries(B, v, zi1, zi2)
    BY <2>2, <2>4, <2>6, <2>7, Block77Is
  <2>9. \A c \in 0..3 : input.audio[4 * j + c] = SampleOf(B, c)
    <3> TAKE c \in 0..3
    <3>1. SampleOf(B, c) = v[c]
      BY <2>4, <2>8, SampleRead
    <3> QED BY <2>1, <3>1
  <2>10. /\ B \in SUBSET (0..76) /\ Syndrome(B) = {}
         /\ 63 \in B <=> zi1 = 1
         /\ 64 \in B <=> zi2 = 1
    BY <2>8 DEF Carries
  <2>11. \A q \in 0..1 : 63 + q \in B <=> ZiOf(input, 2 * j + q)
    <3> TAKE q \in 0..1
    <3>1. CASE q = 0
      <4>1. 63 + q = 63 /\ 2 * j + q = 2 * j
        BY <3>1
      <4> QED BY <2>6, <2>10, <4>1
    <3>2. CASE q = 1
      <4>1. 63 + q = 64 /\ 2 * j + q = 2 * j + 1
        BY <3>2
      <4> QED BY <2>7, <2>10, <4>1
    <3> QED BY <3>1, <3>2
  <2> QED BY <2>3, <2>9, <2>10, <2>11 DEF BlockOf
<1> QED BY <1>1, <1>2, <1>3, <1>4 DEF FrameInv

LEMMA InsertKeeps == ASSUME FrameInv, Insert PROVE FrameInv'
<1>1. /\ input' = input /\ pc' = "shape" /\ pc = "insert"
      /\ a' = Dealt(Dealt(a, 12, blocks[0], blocks[1]), 166, blocks[2], blocks[3])
      /\ b' = Dealt(Dealt(b, 12, blocks[4], blocks[5]), 166, blocks[6], blocks[7])
  BY DEF Insert
<1>2. /\ InputOK(input) /\ a = Header(SyncWord, input.sa) /\ b = Header(-1 - SyncWord, 0)
      /\ DOMAIN blocks = 0..7 /\ \A j \in 0..7 : BlockOf(blocks[j], input, j)
  BY <1>1 DEF FrameInv
<1>3. PICK c : c = [j \in 0..7 |-> blocks[j]]
  OBVIOUS
<1>4. c \in [0..7 -> SUBSET (0..76)]
  <2>1. \A j \in 0..7 : blocks[j] \in SUBSET (0..76)
    BY <1>2 DEF BlockOf
  <2> QED BY <1>3, <2>1
<1>5. PICK A : A = a' /\ A = Dealt(Dealt(a, 12, c[0], c[1]), 166, c[2], c[3])
  BY <1>1, <1>3
<1>6. PICK B : B = b' /\ B = Dealt(Dealt(b, 12, c[4], c[5]), 166, c[6], c[7])
  BY <1>1, <1>3
<1>7. input.sa \in {0, 1} /\ SyncWord \in Int /\ -1 - SyncWord \in Int
  BY <1>2 DEF InputOK, SyncWord
<1>8. a \in SUBSET (0..11) /\ b \in SUBSET (0..11)
  BY <1>2, <1>7, HeaderIs
<1>9. InClear(A, a, c[0], c[1], c[2], c[3])
  <2>1. c[0] \in SUBSET (0..76) /\ c[1] \in SUBSET (0..76) /\ c[2] \in SUBSET (0..76) /\ c[3] \in SUBSET (0..76)
    BY <1>4
  <2> QED BY <1>5, <1>8, <2>1, FramesInClear
<1>10. InClear(B, b, c[4], c[5], c[6], c[7])
  <2>1. c[4] \in SUBSET (0..76) /\ c[5] \in SUBSET (0..76) /\ c[6] \in SUBSET (0..76) /\ c[7] \in SUBSET (0..76)
    BY <1>4
  <2> QED BY <1>6, <1>8, <2>1, FramesInClear
<1>11. /\ Number(A, 0, 11) = SyncWord % Two(11)
       /\ Number(A, 11, 1) = input.sa
  <2>1. \A y \in 0..11 : y \in A <=> y \in Header(SyncWord, input.sa)
    BY <1>2, <1>9 DEF InClear
  <2> QED BY <1>7, <2>1, HeaderRead
<1>12. /\ Number(B, 0, 11) = (-1 - SyncWord) % Two(11)
       /\ 11 \notin B
  <2>1. \A y \in 0..11 : y \in B <=> y \in Header(-1 - SyncWord, 0)
    BY <1>2, <1>10 DEF InClear
  <2>2. 0 \in {0, 1} /\ 0 # 1
    OBVIOUS
  <2> QED BY <1>7, <2>1, <2>2, HeaderRead
<1>13. SyncWord % Two(11) = SyncWord /\ (-1 - SyncWord) % Two(11) = 2047 - SyncWord
  BY Powers DEF SyncWord
<1>14. \A j \in 0..7 : BlockOf(BlockAt(<<A, B>>, j), input, j)
  <2> TAKE j \in 0..7
  <2>1. BlockAt(<<A, B>>, j) = c[j]
    BY <1>4, <1>9, <1>10, BlocksFound
  <2> QED BY <1>2, <1>3, <2>1
<1>15. Framed(input, A, B)
  BY <1>9, <1>10, <1>11, <1>12, <1>13, <1>14, SMTT(40) DEF Framed, InClear
<1> QED BY <1>1, <1>2, <1>5, <1>6, <1>15 DEF FrameInv

LEMMA ShapeKeeps == ASSUME FrameInv, Shape PROVE FrameInv'
<1>1. /\ input' = input /\ pc' = "emit" /\ pc = "shape"
      /\ a' = Xor(a, Prbs0) /\ b' = Xor(b, Prbs1)
  BY DEF Shape
<1>2. InputOK(input) /\ Framed(input, a, b)
  BY <1>1 DEF FrameInv
<1> QED BY <1>1, <1>2 DEF FrameInv

LEMMA EmitKeeps == ASSUME FrameInv, Emit PROVE FrameInv'
<1>1. /\ input' = input /\ pc' = "done" /\ pc = "emit"
      /\ block' = Ileave(a) \cup {k + 1 : k \in Ileave(b)}
  BY DEF Emit
<1>2. InputOK(input)
  BY DEF FrameInv
<1>3. PICK A, B : Framed(input, A, B) /\ a = Xor(A, Prbs0) /\ b = Xor(B, Prbs1)
  BY <1>1 DEF FrameInv
<1>4. FramesOf(block') = <<A, B>>
  <2>1. A \in SUBSET (0..319) /\ B \in SUBSET (0..319)
    BY <1>3, SMTT(40) DEF Framed
  <2> QED BY <1>1, <1>3, <2>1, FramesFound
<1> QED BY <1>1, <1>2, <1>3, <1>4 DEF FrameInv

LEMMA FrameStepKeeps == ASSUME FrameInv, FrameStep PROVE FrameInv'
BY ClearKeeps, GenerateKeeps, InsertKeeps, ShapeKeeps, EmitKeeps DEF FrameStep

LEMMA FrameInvReceived == FrameInv => Received
<1> SUFFICES ASSUME FrameInv, pc = "done" PROVE Received
  BY DEF Received
<1>1. PICK A, B : Framed(input, A, B) /\ FramesOf(block) = <<A, B>>
  BY DEF FrameInv
<1> QED BY <1>1 DEF Received, Framed, BlockOf, ZiOf

-----------------------------------------------------------------------------
(* The encoder as a whole *)

EP == INSTANCE EncoderProofs WITH
          Samples <- 64, Groups <- 8, SAOffset <- 16, SAFrames <- Cardinality(DOMAIN SATable),
          Scales <- [Channels -> 0..7], frame <- counter, pc <- epc, i <- round,
          BlockSamples <- 64, Inputs <- {}, looked <- 64, range <- 0, mag <- 0, step <- "done", block <- {}

\* What is proved about the encoder is proved about this one.
LEMMA EncoderConstants == EP!EncoderAssumption /\ EP!ScaleAssumption
<1>1. EP!ScaleAssumption
  BY DEF EP!ScaleAssumption
<1>2. EP!EncoderAssumption
  BY PathAssumption DEF EP!EncoderAssumption, EP!Channel, EP!Slots, Channels
<1> QED BY <1>1, <1>2

LEMMA SameEncoder ==
    /\ Enc!Init => EP!Init
    /\ Enc!LoadBlock => EP!LoadBlock
    /\ Enc!SendFrame => EP!SendFrame
    /\ Enc!vars = EP!vars
<1>1. Enc!Init => EP!Init
  BY DEF Enc!Init, EP!Init, Enc!Nothing, EP!Nothing, Enc!Channel, EP!Channel, Enc!Address, EP!Address,
         Enc!Slots, EP!Slots, Enc!Span, EP!Span
<1>2. Enc!LoadBlock => EP!LoadBlock
  BY DEF Enc!LoadBlock, EP!LoadBlock, Enc!Stored, EP!Stored, Enc!Address, EP!Address,
         Enc!Slots, EP!Slots, Enc!Span, EP!Span, Enc!Delay, EP!Delay
<1>3. Enc!SendFrame => EP!SendFrame
  BY DEF Enc!SendFrame, EP!SendFrame, Enc!ZIBit, EP!ZIBit, Enc!SABit, EP!SABit, Enc!Int32, EP!Int32,
         Enc!Channel, EP!Channel
<1>4. Enc!vars = EP!vars
  BY DEF Enc!vars, EP!vars
<1> QED BY <1>1, <1>2, <1>3, <1>4

\* The whole encoder implements the encoder of which samples are only known by name: what
\* the scales, the values and the frames add is outside its state (dsr.c:274-393).
THEOREM EncoderImplemented == Spec => Enc!Spec
<1>1. Init => Enc!Init
  BY DEF Init
<1>2. [Next]_vars => [Enc!Next]_(Enc!vars)
  <2> SUFFICES ASSUME [Next]_vars PROVE [Enc!Next]_(Enc!vars)
    OBVIOUS
  <2>1. CASE LoadBlock
    BY <2>1 DEF LoadBlock, Enc!Next
  <2>2. CASE SendFrame
    BY <2>2 DEF SendFrame, Enc!Next
  <2>3. CASE MakeFrame \/ Receive \/ Finished \/ UNCHANGED vars
    BY <2>3 DEF MakeFrame, Receive, Finished, vars, pathVars, Enc!vars
  <2> QED BY <2>1, <2>2, <2>3 DEF Next
<1> QED BY <1>1, <1>2, PTL DEF Spec, Enc!Spec

\* So what is proved about that encoder holds here.
LEMMA EncoderInvHere == Spec => []EP!EncoderInv
<1>1. Enc!Init => EP!Init
  BY SameEncoder
<1>2. [Enc!Next]_(Enc!vars) => [EP!Next]_(EP!vars)
  <2>1. Enc!Finished => UNCHANGED Enc!vars
    BY DEF Enc!Finished
  <2> QED BY <2>1, SameEncoder DEF Enc!Next, EP!Next, Enc!vars, EP!vars
<1>3. EP!Spec => []EP!EncoderInv
  BY EncoderConstants, EP!EncoderInvHolds, Zenon
<1> QED BY <1>1, <1>2, <1>3, EncoderImplemented, PTL DEF Enc!Spec, EP!Spec

\* What is proved about the companding, of the block's channel.
LEMMA ShiftHolds ==
    ASSUME pattern \in Patterns, NEW m \in 0..MaxBlocks, NEW c \in Channels, NEW x \in 0..63
    PROVE  /\ ShiftOf(m, c) \in 0..7
           /\ Audio(pattern, m, c, x) \in Int
           /\ Audio(pattern, m, c, x) * Scaling!Factor(7 - ShiftOf(m, c)) \in Scaling!Int16
           /\ Scaling!Coded(Audio(pattern, m, c, x), 7 - ShiftOf(m, c)) \in Int
           /\ 4 * Scaling!Coded(Audio(pattern, m, c, x), 7 - ShiftOf(m, c))
                 <= Audio(pattern, m, c, x) * Scaling!Factor(7 - ShiftOf(m, c))
           /\ Audio(pattern, m, c, x) * Scaling!Factor(7 - ShiftOf(m, c))
                 < 4 * Scaling!Coded(Audio(pattern, m, c, x), 7 - ShiftOf(m, c)) + 4
<1>1. EP!Int16 = Scaling!Int16
  BY DEF EP!Int16, Scaling!Int16
<1>2. \A y \in 0..63 : Audio(pattern, m, c, y) \in EP!Int16
  BY <1>1, PathAssumption
<1>3. PICK B : B = {Audio(pattern, m, c, y) : y \in 0..63}
  OBVIOUS
<1>4. B \in SUBSET EP!Int16
  BY <1>2, <1>3
<1>5. EP!RangeOf(B) \in 0..7 /\ EP!FirstThatHolds(EP!RangeOf(B), B)
  BY <1>4, EncoderConstants, EP!RangeOfHolds, Zenon
<1>6. PICK r \in 0..7 : r = EP!RangeOf(B)
  BY <1>5
<1>7. ShiftOf(m, c) = 7 - r
  <2>1. EP!RangeOf(B) = Scaling!RangeOf(B)
    BY DEF EP!RangeOf, Scaling!RangeOf, EP!FirstThatHolds, Scaling!FirstThatHolds, EP!Limit, Scaling!Limit,
           EP!Magnitude, Scaling!Magnitude
  <2> QED BY <1>3, <1>6, <2>1 DEF ShiftOf, Scaling!Shift
<1>8. PICK s \in EP!Int16 : s = Audio(pattern, m, c, x)
  BY <1>2
<1>9. s \in B
  BY <1>3, <1>8
<1>10. EP!Magnitude(s) < EP!Limit(r)
  BY <1>5, <1>6, <1>9 DEF EP!FirstThatHolds
<1>11. s * EP!Factor(r) \in EP!Int16
  BY <1>10, EncoderConstants, EP!FitsRange
<1>12. /\ 4 * EP!Coded(s, r) <= s * EP!Factor(r)
       /\ s * EP!Factor(r) < 4 * EP!Coded(s, r) + 4
  BY <1>11, EncoderConstants, EP!CodedBounds
<1>13. EP!Factor(r) = Scaling!Factor(r) /\ EP!Coded(s, r) = Scaling!Coded(s, r)
  BY DEF EP!Factor, Scaling!Factor, EP!Coded, Scaling!Coded, EP!Wrap16, Scaling!Wrap16
<1>14. Scaling!Coded(s, r) \in Int
  <2>1. PICK v \in Int : v = s * Scaling!Factor(r)
    BY <1>11, <1>13 DEF EP!Int16
  <2>2. Scaling!Coded(s, r) = Scaling!Wrap16(v) \div 4
    BY <2>1 DEF Scaling!Coded
  <2>3. Scaling!Wrap16(v) \in Int
    BY DEF Scaling!Wrap16
  <2> QED BY <2>2, <2>3
<1>15. 7 - (7 - r) = r /\ 7 - r \in 0..7 /\ s \in Int
  BY DEF EP!Int16
<1> QED BY <1>1, <1>7, <1>8, <1>11, <1>12, <1>13, <1>14, <1>15

LEMMA CodedIs14 ==
    ASSUME pattern \in Patterns, NEW m \in 0..MaxBlocks, NEW c \in Channels, NEW x \in 0..63
    PROVE  Scaling!Coded(Audio(pattern, m, c, x), 7 - ShiftOf(m, c)) \in Sample14
<1>1. PICK v \in Int : v = Audio(pattern, m, c, x) * Scaling!Factor(7 - ShiftOf(m, c)) /\ -32768 <= v /\ v <= 32767
  BY ShiftHolds DEF Scaling!Int16
<1>2. PICK u \in Int : u = Scaling!Coded(Audio(pattern, m, c, x), 7 - ShiftOf(m, c))
  BY ShiftHolds
<1>3. 4 * u <= v /\ v < 4 * u + 4
  BY <1>1, <1>2, ShiftHolds
<1> QED BY <1>1, <1>2, <1>3 DEF Sample14

\* What the encoder's invariant says of the calls and of the samples sent.
EncoderFacts ==
    /\ count \in Nat /\ scale \in [Channels -> 0..7] /\ announced \in Seq([Channels -> 0..7])
    /\ epc \in {"call", "frames"}
    /\ epc = "call" => count = 64 * Len(announced)
    /\ epc = "frames" => /\ Len(announced) > 0 /\ round \in 0..63
                         /\ count = 64 * (Len(announced) - 1) + round
                         /\ scale = announced[Len(announced)]
    /\ count > 0 => \A c \in Channels :
           IF (count - 1) \div 64 < 2 THEN tx.samples[c] = Enc!Nothing
           ELSE /\ tx.samples[c].block = (count - 1) \div 64 - 2
                /\ tx.samples[c].channel = c /\ tx.samples[c].x = (count - 1) % 64
                /\ tx.samples[c].shift = announced[(count - 1) \div 64 - 2 + 1][c]

LEMMA EncoderInvSays == EP!EncoderInv => EncoderFacts
<1> SUFFICES ASSUME EP!EncoderInv PROVE EncoderFacts
  OBVIOUS
<1>1. EP!Channel = Channels /\ EP!Position = 0..63
  BY DEF EP!Channel, EP!Position, Channels
<1>2. /\ count \in Nat /\ scale \in [Channels -> 0..7] /\ announced \in Seq([Channels -> 0..7])
      /\ epc \in {"call", "frames"}
  BY <1>1 DEF EP!EncoderInv, EP!EncoderTypeOK, EP!Shifts
<1>3. epc = "call" => count = 64 * Len(announced)
  BY DEF EP!EncoderInv, EP!PhaseOK, EP!Blocks
<1>4. epc = "frames" => /\ Len(announced) > 0 /\ round \in 0..63
                        /\ count = 64 * (Len(announced) - 1) + round
                        /\ scale = announced[Len(announced)]
  BY <1>1 DEF EP!EncoderInv, EP!PhaseOK, EP!Blocks
<1>5. ASSUME count > 0, NEW c \in Channels
      PROVE  IF (count - 1) \div 64 < 2 THEN tx.samples[c] = Enc!Nothing
             ELSE /\ tx.samples[c].block = (count - 1) \div 64 - 2
                  /\ tx.samples[c].channel = c /\ tx.samples[c].x = (count - 1) % 64
                  /\ tx.samples[c].shift = announced[(count - 1) \div 64 - 2 + 1][c]
  <2>1. EP!DelayedByTwoBlocks /\ EP!ScaleAnnouncedBefore
    BY DEF EP!EncoderInv, EP!TxOK
  <2>2. PICK n \in Nat : n = (count - 1) \div 64
    BY <1>2, <1>5
  <2>3. /\ IF n < 2 THEN tx.samples[c] = EP!Nothing
           ELSE tx.samples[c].block = n - 2 /\ tx.samples[c].channel = c /\ tx.samples[c].x = (count - 1) % 64
        /\ n >= 2 => tx.samples[c].shift = announced[n - 2 + 1][c]
    BY <1>1, <1>5, <2>1, <2>2 DEF EP!DelayedByTwoBlocks, EP!ScaleAnnouncedBefore, EP!n, EP!k, EP!Delay
  <2>4. EP!Nothing = Enc!Nothing
    BY DEF EP!Nothing, Enc!Nothing
  <2> QED BY <2>2, <2>3, <2>4
<1> QED BY <1>2, <1>3, <1>4, <1>5 DEF EncoderFacts

\* The value that stands for a sample of a block, and silence before the first.
Sent(m, c, x) == IF m < 0 THEN 0 ELSE Scaling!Coded(Audio(pattern, m, c, x), 7 - ShiftOf(m, c))

\* The bits of the ZI frames that announce block m, and how many of them have been received.
ZiAt(m, q, y) == y < 42 /\ (y % 14) \in ZiWord(announced[m][2 * q], announced[m][2 * q + 1])
SoFar(m) == IF m < Len(announced) THEN 64
            ELSE IF pc = "idle" THEN count - 64 * (m - 1) ELSE input.frame

\* Every scale is the one of its block.
AnnouncedOK ==
    /\ Len(announced) <= MaxBlocks
    /\ \A m \in 1..Len(announced) : \A c \in Channels : announced[m][c] = ShiftOf(m - 1, c)

\* The frames that are being made are those of the latest samples sent.
LinkOK ==
    pc # "idle" =>
        /\ Len(announced) > 0 /\ count = 64 * (Len(announced) - 1) + input.frame + 1
        /\ input.scale = announced[Len(announced)]
        /\ \A c \in Channels : input.audio[c] = Sent(Len(announced) - 3, c, input.frame)

\* The receiver has heard the scale factors of all blocks, of the latest as far as it was sent.
HeardOK ==
    /\ heard \in Seq([0..15 -> SUBSET Int]) /\ Len(heard) = Len(announced)
    /\ \A m \in 1..Len(announced) : \A q \in 0..15 : \A y \in Int :
           y \in heard[m][q] <=> y \in 0 .. SoFar(m) - 1 /\ ZiAt(m, q, y)

PathInv == FrameInv /\ pattern \in Patterns /\ AnnouncedOK /\ LinkOK /\ HeardOK

LEMMA InitPathInv == Init => PathInv
<1> SUFFICES ASSUME Init PROVE PathInv
  OBVIOUS
<1>1. pc = "idle" /\ announced = <<>> /\ heard = <<>> /\ pattern \in Patterns
  BY DEF Init, FrameInit, Enc!Init
<1>2. InputOK(input)
  <2>1. 0 \in Sample14 /\ 7 \in 0..7
    BY DEF Sample14
  <2> QED BY <2>1 DEF Init, FrameInit, InputOK
<1>3. FrameInv
  BY <1>1, <1>2 DEF FrameInv
<1> QED BY <1>1, <1>3, PathAssumption DEF PathInv, AnnouncedOK, LinkOK, HeardOK

LEMMA LoadBlockKeeps == ASSUME PathInv, EncoderFacts, EncoderFacts', LoadBlock PROVE PathInv'
<1>1. /\ pc = "idle" /\ scale' = [c \in Channels |-> ShiftOf(Len(announced), c)]
      /\ heard' = Append(heard, [q \in 0..15 |-> {}])
      /\ UNCHANGED frameVars /\ pattern' = pattern
  BY DEF LoadBlock
<1>2. /\ epc = "call" /\ Len(announced) < MaxBlocks /\ announced' = Append(announced, scale') /\ count' = count
  BY DEF LoadBlock, Enc!LoadBlock
<1>3. pc' = pc /\ input' = input
  BY <1>1 DEF frameVars
<1>4. FrameInv'
  BY <1>1 DEF PathInv, FrameInv, frameVars
<1>5. PICK L \in Nat : L = Len(announced)
  BY DEF EncoderFacts
<1>6. /\ Len(announced') = L + 1 /\ announced'[L + 1] = scale'
      /\ \A m \in 1..L : announced'[m] = announced[m]
  BY <1>2, <1>5 DEF EncoderFacts
<1>7. AnnouncedOK'
  <2>1. ASSUME NEW m \in 1 .. L + 1, NEW c \in Channels
        PROVE  announced'[m][c] = ShiftOf(m - 1, c)
    <3>1. CASE m = L + 1
      <4>1. m - 1 = L
        BY <3>1
      <4> QED BY <1>1, <1>5, <1>6, <3>1, <4>1
    <3>2. CASE m # L + 1
      <4>1. m \in 1..L
        BY <3>2
      <4> QED BY <1>5, <1>6, <4>1 DEF PathInv, AnnouncedOK
    <3> QED BY <3>1, <3>2
  <2>2. \A m, c : ShiftOf(m, c)' = ShiftOf(m, c)
    BY <1>1 DEF ShiftOf
  <2>3. L + 1 <= MaxBlocks
    BY <1>2, <1>5, PathAssumption
  <2> QED BY <1>6, <2>1, <2>2, <2>3 DEF AnnouncedOK
<1>8. LinkOK'
  BY <1>1, <1>3 DEF LinkOK
<1>9. HeardOK'
  <2>1. /\ heard \in Seq([0..15 -> SUBSET Int]) /\ Len(heard) = L
        /\ \A m \in 1..L : \A q \in 0..15 : \A y \in Int :
              y \in heard[m][q] <=> y \in 0 .. SoFar(m) - 1 /\ ZiAt(m, q, y)
    BY <1>5 DEF PathInv, HeardOK
  <2>2. PICK none \in [0..15 -> SUBSET Int] : none = [q \in 0..15 |-> {}]
    OBVIOUS
  <2>3. /\ heard' \in Seq([0..15 -> SUBSET Int]) /\ Len(heard') = L + 1
        /\ heard'[L + 1] = none /\ \A m \in 1..L : heard'[m] = heard[m]
    BY <1>1, <2>1, <2>2
  <2>4. count = 64 * L
    BY <1>2, <1>5 DEF EncoderFacts
  <2>5. ASSUME NEW m \in 1 .. L + 1, NEW q \in 0..15, NEW y \in Int
        PROVE  y \in heard'[m][q] <=> y \in 0 .. SoFar(m)' - 1 /\ ZiAt(m, q, y)'
    <3>1. CASE m = L + 1
      <4>1. SoFar(m)' = 0
        BY <1>1, <1>2, <1>3, <1>6, <2>4, <3>1 DEF SoFar
      <4>2. y \notin heard'[m][q]
        BY <2>2, <2>3, <3>1
      <4> QED BY <4>1, <4>2
    <3>2. CASE m \in 1..L
      <4>1. SoFar(m)' = 64
        BY <1>6, <3>2 DEF SoFar
      <4>2. SoFar(m) = 64
        <5>1. CASE m < L
          BY <1>5, <5>1 DEF SoFar
        <5>2. CASE m = L
          <6>1. count - 64 * (m - 1) = 64 /\ ~(m < Len(announced))
            BY <1>5, <2>4, <5>2
          <6> QED BY <1>1, <6>1 DEF SoFar
        <5> QED BY <3>2, <5>1, <5>2
      <4>3. ZiAt(m, q, y)' <=> ZiAt(m, q, y)
        BY <1>6, <3>2 DEF ZiAt
      <4> QED BY <2>1, <2>3, <3>2, <4>1, <4>2, <4>3
    <3> QED BY <3>1, <3>2
  <2> QED BY <1>6, <2>3, <2>5 DEF HeardOK
<1> QED BY <1>1, <1>4, <1>7, <1>8, <1>9 DEF PathInv

\* The value of what is sent.
LEMMA ValueSent ==
    ASSUME pattern \in Patterns, AnnouncedOK, NEW L \in Nat, L = Len(announced), NEW s, NEW c \in Channels,
           NEW x \in 0..63,
           IF L < 3 THEN s = Enc!Nothing
           ELSE s.block = L - 3 /\ s.channel = c /\ s.x = x /\ s.shift = announced[L - 2][c]
    PROVE  Value(s) = Sent(L - 3, c, x) /\ Value(s) \in Sample14
<1>1. CASE L < 3
  <2>1. 0 \in Sample14
    BY DEF Sample14
  <2> QED BY <1>1, <2>1 DEF Value, Sent
<1>2. CASE L >= 3
  <2>1. s.block = L - 3 /\ s.channel = c /\ s.x = x /\ s.shift = announced[L - 2][c]
    BY <1>2
  <2>2. s # Enc!Nothing
    BY <1>2, <2>1 DEF Enc!Nothing
  <2>3. announced[L - 2][c] = ShiftOf(L - 3, c)
    <3>1. L - 2 \in 1..L /\ (L - 2) - 1 = L - 3
      BY <1>2
    <3> QED BY <3>1 DEF AnnouncedOK
  <2>4. L - 3 \in 0..MaxBlocks
    BY <1>2, PathAssumption DEF AnnouncedOK
  <2>5. Value(s) = Scaling!Coded(Audio(pattern, L - 3, c, x), 7 - ShiftOf(L - 3, c))
    BY <2>1, <2>2, <2>3 DEF Value
  <2>6. ~(L - 3 < 0)
    BY <1>2
  <2> QED BY <2>4, <2>5, <2>6, CodedIs14 DEF Sent
<1> QED BY <1>1, <1>2

LEMMA SendFrameKeeps == ASSUME PathInv, EncoderFacts, EncoderFacts', SendFrame PROVE PathInv'
<1>1. PICK in : /\ in = [audio |-> [c \in Channels |-> Value(tx'.samples[c])], scale |-> scale,
                         frame |-> round, sa |-> IF tx'.sa.bit \in SATable[tx'.sa.row] THEN 1 ELSE 0]
                /\ StartFrame(in)
  BY DEF SendFrame
<1>2. pattern' = pattern /\ heard' = heard /\ pattern \in Patterns
  BY DEF SendFrame, PathInv
<1>3. epc = "frames" /\ count' = count + 1 /\ announced' = announced /\ scale' = scale
  BY DEF SendFrame, Enc!SendFrame
<1>4. pc = "idle" /\ pc' = "clear" /\ input' = in
  BY <1>1 DEF StartFrame
<1>5. PICK L \in Nat : L = Len(announced)
  BY DEF EncoderFacts
<1>6. PICK x \in 0..63 : x = round
  BY <1>3 DEF EncoderFacts
<1>7. L > 0 /\ count = 64 * (L - 1) + x /\ scale = announced[L] /\ scale \in [Channels -> 0..7]
  BY <1>3, <1>5, <1>6 DEF EncoderFacts
<1>8. ASSUME NEW c \in Channels
      PROVE  Value(tx'.samples[c]) = Sent(L - 3, c, x) /\ Value(tx'.samples[c]) \in Sample14
  <2>1. (count' - 1) \div 64 = L - 1 /\ (count' - 1) % 64 = x /\ count' > 0
    BY <1>3, <1>7
  <2>2. PICK s : s = tx'.samples[c]
    OBVIOUS
  <2>3. IF L - 1 < 2 THEN s = Enc!Nothing
        ELSE s.block = L - 1 - 2 /\ s.channel = c /\ s.x = x /\ s.shift = announced[L - 1 - 2 + 1][c]
    <3>1. Enc!Nothing' = Enc!Nothing
      BY DEF Enc!Nothing
    <3> QED BY <1>3, <2>1, <2>2, <3>1, SMTT(40) DEF EncoderFacts
  <2>4. IF L < 3 THEN s = Enc!Nothing
        ELSE s.block = L - 3 /\ s.channel = c /\ s.x = x /\ s.shift = announced[L - 2][c]
    <3>1. L - 1 - 2 = L - 3 /\ L - 1 - 2 + 1 = L - 2 /\ (L - 1 < 2 <=> L < 3)
      OBVIOUS
    <3> QED BY <2>3, <3>1
  <2> QED BY <1>2, <1>5, <2>2, <2>4, ValueSent DEF PathInv
<1>9. InputOK(in)
  BY <1>1, <1>6, <1>7, <1>8 DEF InputOK
<1>10. FrameInv'
  BY <1>1, <1>9, StartFrameKeeps
<1>11. \A m, c : ShiftOf(m, c)' = ShiftOf(m, c)
  BY <1>2 DEF ShiftOf
<1>12. AnnouncedOK'
  BY <1>3, <1>11 DEF PathInv, AnnouncedOK
<1>13. LinkOK'
  <2>1. count' = 64 * (L - 1) + x + 1
    BY <1>3, <1>7
  <2>2. in.frame = x /\ in.scale = announced[L]
    BY <1>1, <1>6, <1>7
  <2>3. \A c \in Channels : in.audio[c] = Sent(L - 3, c, x)
    BY <1>1, <1>8
  <2>4. \A m, c, y : Sent(m, c, y)' = Sent(m, c, y)
    BY <1>2, <1>11 DEF Sent
  <2> QED BY <1>3, <1>4, <1>5, <1>7, <2>1, <2>2, <2>3, <2>4 DEF LinkOK
<1>14. HeardOK'
  <2>1. \A m \in 1..L : SoFar(m)' = SoFar(m)
    BY <1>1, <1>3, <1>4, <1>5, <1>6, <1>7 DEF SoFar
  <2>2. \A m, q, y : ZiAt(m, q, y)' = ZiAt(m, q, y)
    BY <1>3 DEF ZiAt
  <2> QED BY <1>2, <1>3, <1>5, <2>1, <2>2 DEF PathInv, HeardOK
<1> QED BY <1>2, <1>10, <1>12, <1>13, <1>14 DEF PathInv

LEMMA MakeFrameKeeps == ASSUME PathInv, MakeFrame PROVE PathInv'
<1>1. FrameStep /\ UNCHANGED pathVars
  BY DEF MakeFrame
<1>2. FrameInv'
  BY <1>1, FrameStepKeeps DEF PathInv
<1>3. pc # "idle" /\ pc' # "idle" /\ input' = input
  BY <1>1 DEF FrameStep, Clear, Generate, Insert, Shape, Emit
<1>4. /\ pattern' = pattern /\ announced' = announced /\ count' = count /\ heard' = heard
      /\ pattern \in Patterns
  BY <1>1 DEF pathVars, PathInv
<1>5. \A m, c : ShiftOf(m, c)' = ShiftOf(m, c)
  BY <1>4 DEF ShiftOf
<1>6. \A m, c, y : Sent(m, c, y)' = Sent(m, c, y)
  BY <1>4, <1>5 DEF Sent
<1>7. AnnouncedOK'
  BY <1>4, <1>5 DEF PathInv, AnnouncedOK
<1>8. LinkOK'
  BY <1>3, <1>4, <1>6 DEF PathInv, LinkOK
<1>9. HeardOK'
  <2>1. \A m : SoFar(m)' = SoFar(m)
    BY <1>3, <1>4 DEF SoFar
  <2>2. \A m, q, y : ZiAt(m, q, y)' = ZiAt(m, q, y)
    BY <1>4 DEF ZiAt
  <2> QED BY <1>4, <2>1, <2>2 DEF PathInv, HeardOK
<1> QED BY <1>2, <1>4, <1>7, <1>8, <1>9 DEF PathInv

\* The bit of each ZI frame is heard.
LEMMA ReceiveKeeps == ASSUME PathInv, EncoderFacts, Receive PROVE PathInv'
<1>1. PICK frames : frames = FramesOf(block)
  OBVIOUS
<1>2. pc = "done" /\ pc' = "idle"
  BY DEF Receive
<1>3. /\ input' = input /\ a' = a /\ b' = b /\ block' = block /\ blocks' = blocks /\ pattern' = pattern
      /\ announced' = announced /\ count' = count
  BY DEF Receive
<1>4. FrameInv'
  BY <1>2, <1>3 DEF PathInv, FrameInv
<1>5. \A m, c : ShiftOf(m, c)' = ShiftOf(m, c)
  BY <1>3 DEF ShiftOf
<1>6. AnnouncedOK'
  BY <1>3, <1>5 DEF PathInv, AnnouncedOK
<1>7. LinkOK'
  BY <1>2 DEF LinkOK
<1>8. PICK L \in Nat : L = Len(announced)
  BY DEF EncoderFacts
<1>9. PICK x \in 0..63 : x = input.frame
  BY DEF PathInv, FrameInv, InputOK
<1>10. /\ L > 0 /\ count = 64 * (L - 1) + x + 1 /\ input.scale = announced[L]
       /\ count \in Nat
  BY <1>2, <1>8, <1>9 DEF PathInv, LinkOK, EncoderFacts
<1>11. (count - 1) % 64 = x
  BY <1>10
<1>12. ASSUME NEW q \in 0..15
       PROVE  63 + (q % 2) \in BlockAt(frames, q \div 2) <=> ZiAt(L, q, x)
  <2>1. PICK A, B : Framed(input, A, B) /\ frames = <<A, B>>
    BY <1>1, <1>2 DEF PathInv, FrameInv
  <2>2. PICK j \in 0..7, o \in 0..1 : j = q \div 2 /\ o = q % 2 /\ q = 2 * j + o
    <3>1. q \div 2 \in 0..7 /\ q % 2 \in 0..1 /\ q = 2 * (q \div 2) + (q % 2)
      OBVIOUS
    <3> QED BY <3>1
  <2>3. 63 + o \in BlockAt(frames, j) <=> ZiOf(input, 2 * j + o)
    BY <2>1 DEF Framed, BlockOf
  <2>4. ZiOf(input, q) <=> ZiAt(L, q, x)
    BY <1>9, <1>10 DEF ZiOf, ZiAt
  <2> QED BY <2>2, <2>3, <2>4
<1>13. HeardOK'
  <2>1. /\ heard \in Seq([0..15 -> SUBSET Int]) /\ Len(heard) = L
        /\ \A m \in 1..L : \A q \in 0..15 : \A y \in Int :
              y \in heard[m][q] <=> y \in 0 .. SoFar(m) - 1 /\ ZiAt(m, q, y)
    BY <1>8 DEF PathInv, HeardOK
  <2>2. PICK old \in [0..15 -> SUBSET Int] : old = heard[L]
    <3>1. heard \in Seq([0..15 -> SUBSET Int]) /\ Len(heard) = L
      BY <2>1
    <3>2. L \in 1..Len(heard)
      BY <1>10, <3>1
    <3>3. heard[L] \in [0..15 -> SUBSET Int]
      BY <3>1, <3>2
    <3> QED BY <3>3
  <2>3. PICK new : new = [q \in 0..15 |-> IF 63 + (q % 2) \in BlockAt(frames, q \div 2)
                                          THEN old[q] \cup {x} ELSE old[q]]
    OBVIOUS
  <2>4. new \in [0..15 -> SUBSET Int]
    BY <2>3
  <2>5. heard' = [heard EXCEPT ![L] = new]
    BY <1>1, <1>11, <2>1, <2>2, <2>3 DEF Receive
  <2>6. /\ heard' \in Seq([0..15 -> SUBSET Int]) /\ Len(heard') = L /\ heard'[L] = new
        /\ \A m \in 1..L : m # L => heard'[m] = heard[m]
    BY <1>10, <2>1, <2>4, <2>5
  <2>7. \A m, q, y : ZiAt(m, q, y)' = ZiAt(m, q, y)
    BY <1>3 DEF ZiAt
  <2>8. ASSUME NEW m \in 1..L, NEW q \in 0..15, NEW y \in Int
        PROVE  y \in heard'[m][q] <=> y \in 0 .. SoFar(m)' - 1 /\ ZiAt(m, q, y)
    <3>1. CASE m = L
      <4>1. SoFar(m) = x /\ SoFar(m)' = x + 1
        <5>1. count - 64 * (m - 1) = x + 1 /\ ~(m < Len(announced))
          BY <1>8, <1>10, <3>1
        <5> QED BY <1>2, <1>3, <1>9, <5>1 DEF SoFar
      <4>2. y \in old[q] <=> y \in 0 .. x - 1 /\ ZiAt(L, q, y)
        BY <1>10, <2>1, <2>2, <3>1, <4>1
      <4>3. y \in new[q] <=> y \in old[q] \/ (y = x /\ ZiAt(L, q, x))
        BY <1>12, <2>3
      <4>4. y \in 0 .. (x + 1) - 1 <=> y \in 0 .. x - 1 \/ y = x
        OBVIOUS
      <4> QED BY <2>6, <3>1, <4>1, <4>2, <4>3, <4>4
    <3>2. CASE m # L
      <4>1. SoFar(m) = 64 /\ SoFar(m)' = 64
        BY <1>3, <1>8, <3>2 DEF SoFar
      <4>2. heard'[m] = heard[m]
        BY <2>6, <3>2
      <4>3. y \in heard[m][q] <=> y \in 0 .. SoFar(m) - 1 /\ ZiAt(m, q, y)
        BY <2>1
      <4> QED BY <4>1, <4>2, <4>3
    <3> QED BY <3>1, <3>2
  <2> QED BY <1>3, <1>8, <2>6, <2>7, <2>8 DEF HeardOK
<1> QED BY <1>3, <1>4, <1>6, <1>7, <1>13 DEF PathInv

LEMMA StutterKeeps == ASSUME PathInv, UNCHANGED vars PROVE PathInv'
<1>1. UNCHANGED frameVars /\ UNCHANGED pathVars
  BY DEF vars
<1>2. /\ input' = input /\ pc' = pc /\ a' = a /\ b' = b /\ block' = block /\ blocks' = blocks
      /\ pattern' = pattern /\ announced' = announced /\ count' = count /\ heard' = heard
  BY <1>1 DEF frameVars, pathVars
<1>3. FrameInv'
  BY <1>2 DEF PathInv, FrameInv
<1>4. \A m, c : ShiftOf(m, c)' = ShiftOf(m, c)
  BY <1>2 DEF ShiftOf
<1>5. AnnouncedOK'
  BY <1>2, <1>4 DEF PathInv, AnnouncedOK
<1>6. LinkOK'
  <2>1. \A m, c, y : Sent(m, c, y)' = Sent(m, c, y)
    BY <1>2, <1>4 DEF Sent
  <2> QED BY <1>2, <2>1 DEF PathInv, LinkOK
<1>7. HeardOK'
  <2>1. \A m : SoFar(m)' = SoFar(m)
    BY <1>2 DEF SoFar
  <2>2. \A m, q, y : ZiAt(m, q, y)' = ZiAt(m, q, y)
    BY <1>2 DEF ZiAt
  <2> QED BY <1>2, <2>1, <2>2 DEF PathInv, HeardOK
<1> QED BY <1>2, <1>3, <1>5, <1>6, <1>7 DEF PathInv

\* In every state of the whole encoder the frames are those of the samples sent, these are
\* the samples given, scaled with the factors announced, and the receiver has heard these.
THEOREM PathInvHolds == Spec => [](PathInv /\ EncoderFacts)
<1>1. Spec => []EncoderFacts
  BY EncoderInvHere, EncoderInvSays, PTL
<1>2. PathInv /\ EncoderFacts /\ EncoderFacts' /\ [Next]_vars => PathInv'
  <2> SUFFICES ASSUME PathInv, EncoderFacts, EncoderFacts', [Next]_vars PROVE PathInv'
    OBVIOUS
  <2>1. CASE LoadBlock
    BY <2>1, LoadBlockKeeps
  <2>2. CASE SendFrame
    BY <2>2, SendFrameKeeps
  <2>3. CASE MakeFrame
    BY <2>3, MakeFrameKeeps
  <2>4. CASE Receive
    BY <2>4, ReceiveKeeps
  <2>5. CASE Finished \/ UNCHANGED vars
    BY <2>5, StutterKeeps DEF Finished
  <2> QED BY <2>1, <2>2, <2>3, <2>4, <2>5 DEF Next
<1> QED BY <1>1, <1>2, InitPathInv, PTL DEF Spec

\* Whatever the programme, a receiver that undoes the interleaving and the scrambling finds
\* both sync words and the special service bit, no error in any block, the 14 bits of all
\* samples and the bit of each ZI frame, in every pair of frames (dsr.c:211-272, 338-389).
THEOREM FramesReceived == Spec => []Received
<1>1. PathInv => Received
  BY FrameInvReceived DEF PathInv
<1> QED BY <1>1, PathInvHolds, PTL

-----------------------------------------------------------------------------
(* What the receiver makes of the frames *)

\* The word of a pair begins with its two scale factors.
LEMMA ZiWordRead ==
    ASSUME NEW l \in 0..7, NEW r \in 0..7
    PROVE  Number(ZiWord(l, r), 0, 6) = l * 8 + r
<1>1. PICK c \in 0..63 : c = l * 8 + r
  OBVIOUS
<1>2. PICK W : W = ZiWord(l, r)
  OBVIOUS
<1>3. PICK Z : Z = ZiBch(c)
  OBVIOUS
<1>4. Z \subseteq 0..7
  BY <1>3 DEF ZiBch
<1>5. W = BitsWrite({}, 0, c, 6) \cup {13 - k : k \in Z}
  BY <1>1, <1>2, <1>3 DEF ZiWord
<1>6. ASSUME NEW y \in 0..5
      PROVE  0 + y \in W <=> Bit(c, 6 - 1 - y) = 1
  <2>1. y \in 0 .. 0 + 6 - 1 /\ 0 + 6 - 1 - y = 6 - 1 - y /\ 0 + y = y
    OBVIOUS
  <2>2. y \in BitsWrite({}, 0, c, 6) <=> Bit(c, 0 + 6 - 1 - y) = 1
    BY <2>1, BitsWriteIs
  <2>3. y \notin {13 - k : k \in Z}
    BY <1>4
  <2>4. y \in W <=> Bit(c, 0 + 6 - 1 - y) = 1
    BY <1>5, <2>2, <2>3, Zenon
  <2> QED BY <2>1, <2>4
<1>7. Holds(W, 0, 6, c)
  BY <1>6 DEF Holds
<1>8. Number(W, 0, 6) = c % Two(6)
  BY <1>7, NumberRead
<1> QED BY <1>1, <1>2, <1>8, Powers

\* The factor that belongs to a shift.
LEMMA FactorIs == ASSUME NEW s \in 0..7 PROVE 2 ^ s = Scaling!Factor(7 - s) /\ 2 ^ s \in Nat
<1> DEFINE Power(t) == 2 ^ t
<1>1. /\ Power(0) = 1 /\ Power(1) = 2 /\ Power(2) = 4 /\ Power(3) = 8
      /\ Power(4) = 16 /\ Power(5) = 32 /\ Power(6) = 64 /\ Power(7) = 128
  OBVIOUS
<1> HIDE DEF Power
<1>2. s \in {0, 1, 2, 3, 4, 5, 6, 7}
  OBVIOUS
<1>3. Power(s) = Scaling!Factor(7 - s) /\ Power(s) \in Nat
  BY <1>1, <1>2 DEF Scaling!Factor
<1> QED BY <1>3 DEF Power

\* Any of the three copies in the ZI bits of a block that is complete gives its factors.
LEMMA ShiftHeard ==
    ASSUME HeardOK, announced \in Seq([Channels -> 0..7]), NEW m \in Nat \ {0}, m < Len(announced),
           NEW c \in Channels, NEW copy \in 0..2
    PROVE  HeardShift(m, c, copy) = announced[m][c]
<1>1. PICK q \in 0..15 : q = c \div 2
  BY DEF Channels
<1>2. 2 * q \in Channels /\ 2 * q + 1 \in Channels
  BY DEF Channels
<1>3. m \in 1..Len(announced)
  OBVIOUS
<1>4. announced[m] \in [Channels -> 0..7]
  BY <1>3
<1>5. PICK l \in 0..7, r \in 0..7 : l = announced[m][2 * q] /\ r = announced[m][2 * q + 1]
  BY <1>2, <1>4
<1>6. PICK W \in SUBSET (0..13) : W = ZiWord(l, r)
  BY ZiWordType
<1>7. SoFar(m) = 64
  BY DEF SoFar
<1>8. PICK H : H = heard[m][q]
  OBVIOUS
<1>9. ASSUME NEW y \in Int
      PROVE  y \in H <=> y \in 0 .. 64 - 1 /\ y < 42 /\ y % 14 \in W
  <2>1. y \in heard[m][q] <=> y \in 0 .. SoFar(m) - 1 /\ ZiAt(m, q, y)
    BY <1>3 DEF HeardOK
  <2>2. ZiAt(m, q, y) <=> y < 42 /\ y % 14 \in W
    BY <1>5, <1>6 DEF ZiAt
  <2> QED BY <1>7, <1>8, <2>1, <2>2
<1>10. PICK base \in {0, 14, 28} : base = 14 * copy
  OBVIOUS
<1>11. ASSUME NEW p \in 0..13
       PROVE  base + p \in H <=> p \in W
  <2>1. PICK y \in Int : y = base + p
    OBVIOUS
  <2>2. y % 14 = p /\ y \in 0 .. 64 - 1 /\ y < 42
    <3>1. PICK u \in Nat \ {0} : u = 14
      OBVIOUS
    <3>2. y = u * copy + p /\ p \in 0 .. u - 1 /\ copy \in Int
      BY <1>10, <2>1, <3>1
    <3>4. y % u = p
      BY <3>2, DivModUnique
    <3>3. y \in 0 .. 64 - 1 /\ y < 42
      BY <2>1
    <3> QED BY <3>1, <3>3, <3>4
  <2>3. y \in H <=> y \in 0 .. 64 - 1 /\ y < 42 /\ y % 14 \in W
    BY <1>9
  <2> QED BY <2>1, <2>2, <2>3, Zenon
<1>12. PICK part : part = H \cap base .. base + 13
  OBVIOUS
<1>13. {k - base : k \in part} = W
  <2>1. ASSUME NEW k \in part
        PROVE  k - base \in W
    <3>1. k \in H /\ k \in base .. base + 13
      BY <1>12
    <3>2. PICK p \in 0..13 : p = k - base /\ base + p = k
      BY <3>1
    <3> QED BY <1>11, <3>1, <3>2
  <2>2. ASSUME NEW p \in W
        PROVE  p \in {k - base : k \in part}
    <3>1. p \in 0..13
      BY <1>6
    <3>2. base + p \in H
      BY <1>11, <3>1
    <3>3. base + p \in base .. base + 13 /\ (base + p) - base = p
      BY <3>1
    <3>4. base + p \in part
      BY <1>12, <3>2, <3>3
    <3> QED BY <3>3, <3>4
  <2>3. {k - base : k \in part} \subseteq W
    BY <2>1
  <2>4. W \subseteq {k - base : k \in part}
    BY <2>2
  <2> QED BY <2>3, <2>4
<1>14. PICK word : word = Number({k - 14 * copy : k \in heard[m][c \div 2] \cap 14 * copy .. 14 * copy + 13}, 0, 6)
  OBVIOUS
<1>15. word = l * 8 + r
  <2>1. word = Number({k - base : k \in part}, 0, 6)
    BY <1>1, <1>8, <1>10, <1>12, <1>14
  <2> QED BY <1>6, <1>13, <2>1, ZiWordRead
<1>16. word \div 8 = l /\ word % 8 = r
  BY <1>15
<1>17. HeardShift(m, c, copy) = IF c % 2 = 0 THEN l ELSE r
  BY <1>14, <1>16 DEF HeardShift
<1>18. IF c % 2 = 0 THEN c = 2 * q ELSE c = 2 * q + 1
  BY <1>1 DEF Channels
<1> QED BY <1>5, <1>17, <1>18

\* When a pair of frames is done, the sample of a channel that a receiver finds in it, and
\* the factor heard with the block it is of, give what was given.
LEMMA AudioHeard ==
    ASSUME PathInv, EncoderFacts, pc = "done"
    PROVE  AudioReceived
<1>1. PICK frames : frames = FramesOf(block)
  OBVIOUS
<1>2. PICK n \in Nat : n = Len(announced) /\ n = Len(heard) /\ n > 0 /\ n <= MaxBlocks
  BY DEF PathInv, AnnouncedOK, HeardOK, LinkOK, EncoderFacts
<1>3. PICK x \in 0..63 : x = input.frame
  BY DEF PathInv, FrameInv, InputOK
<1>4. (count - 1) % 64 = x
  <2>1. PICK N \in Nat : N = count /\ N = 64 * (n - 1) + x + 1
    BY <1>2, <1>3 DEF PathInv, LinkOK, EncoderFacts
  <2> QED BY <2>1
<1>5. ASSUME NEW c \in Channels
      PROVE  SampleOf(BlockAt(frames, c \div 4), c % 4) = Sent(n - 3, c, x)
  <2>1. PICK A, B : Framed(input, A, B) /\ frames = <<A, B>>
    BY <1>1 DEF PathInv, FrameInv
  <2>2. PICK j \in 0..7, k \in 0..3 : j = c \div 4 /\ k = c % 4 /\ 4 * j + k = c
    <3>1. c \div 4 \in 0..7 /\ c % 4 \in 0..3 /\ 4 * (c \div 4) + (c % 4) = c
      BY DEF Channels
    <3> QED BY <3>1
  <2>3. input.audio[4 * j + k] = SampleOf(BlockAt(frames, j), k)
    BY <2>1 DEF Framed, BlockOf
  <2>4. input.audio[c] = Sent(n - 3, c, x)
    BY <1>2, <1>3 DEF PathInv, LinkOK
  <2> QED BY <2>2, <2>3, <2>4
<1>6. ASSUME NEW c \in Channels, n <= 2
      PROVE  Sent(n - 3, c, x) = 0
  BY <1>6 DEF Sent
<1>7. ASSUME NEW c \in Channels, ~(n <= 2), NEW copy \in 0..2
      PROVE  /\ 4 * Sent(n - 3, c, x) <= Audio(pattern, n - 3, c, x) * 2 ^ HeardShift(n - 2, c, copy)
             /\ Audio(pattern, n - 3, c, x) * 2 ^ HeardShift(n - 2, c, copy) < 4 * Sent(n - 3, c, x) + 4
  <2>1. PICK m \in 0..MaxBlocks : m = n - 3 /\ m + 1 = n - 2 /\ ~(m < 0)
    BY <1>2, <1>7, PathAssumption
  <2>2. m + 1 \in Nat \ {0} /\ m + 1 < Len(announced) /\ m + 1 \in 1..Len(announced) /\ (m + 1) - 1 = m
    BY <1>2, <2>1
  <2>3. HeardShift(m + 1, c, copy) = announced[m + 1][c]
    BY <2>2, ShiftHeard DEF PathInv, EncoderFacts
  <2>4. announced[m + 1][c] = ShiftOf(m, c)
    BY <2>2 DEF PathInv, AnnouncedOK
  <2>5. PICK s \in 0..7 : s = ShiftOf(m, c)
    BY ShiftHolds DEF PathInv
  <2>6. 2 ^ s = Scaling!Factor(7 - s)
    BY FactorIs
  <2>7. Sent(m, c, x) = Scaling!Coded(Audio(pattern, m, c, x), 7 - s)
    BY <2>1, <2>5 DEF Sent
  <2>8. /\ 4 * Scaling!Coded(Audio(pattern, m, c, x), 7 - s) <= Audio(pattern, m, c, x) * Scaling!Factor(7 - s)
        /\ Audio(pattern, m, c, x) * Scaling!Factor(7 - s) < 4 * Scaling!Coded(Audio(pattern, m, c, x), 7 - s) + 4
    BY <2>5, ShiftHolds DEF PathInv
  <2>9. HeardShift(m + 1, c, copy) = s
    BY <2>3, <2>4, <2>5
  <2> QED BY <2>1, <2>6, <2>7, <2>8, <2>9
<1> QED BY <1>1, <1>2, <1>4, <1>5, <1>6, <1>7 DEF AudioReceived

\* Whatever the programme, with each pair of frames and any copy of the factors it has heard
\* a receiver has the sample of two blocks ago, but for the low bits that were dropped, and
\* silence in the first two blocks (dsr.c:274-393).
THEOREM AudioReceivedHolds == Spec => []AudioReceived
<1>1. PathInv /\ EncoderFacts => AudioReceived
  <2>1. CASE pc = "done"
    BY <2>1, AudioHeard
  <2>2. CASE pc # "done"
    BY <2>2 DEF AudioReceived
  <2> QED BY <2>1, <2>2
<1> QED BY <1>1, PathInvHolds, PTL
=============================================================================
