--------------------------- MODULE TxOutputProofs ----------------------------
(***************************************************************************)
(* Proofs about TxOutput for every number of samples per symbol, every     *)
(* pulse that leaves headroom, all blocks and every sink: the modulator's  *)
(* ring holds the rest of the convolution and never wraps, and what the    *)
(* sink has got is that convolution, or the octets, without a gap.         *)
(***************************************************************************)
EXTENDS TxOutput, NumberLemmas, SequenceTheorems

-----------------------------------------------------------------------------
(* The convolution *)

\* f runs through the sums of the first symbols.
Adds(f, turns, n, t, c) == f[0] = 0 /\ \A k \in 1..n : f[k] = f[k - 1] + Part(turns, k, t, c)
Sums(f, turns, n, t, c) == f \in [0 .. n -> Int] /\ Adds(f, turns, n, t, c)

LEMMA TapTyped ==
    ASSUME NEW p \in 0..3, NEW a \in Slots, NEW c \in 1..2
    PROVE  Tap(p, a, c) \in Int /\ Abs(Tap(p, a, c)) = Abs(Shape[a]) /\ Abs(Shape[a]) \in Nat
<1>1. PICK v \in Int : v = Shape[a]
  BY ModulatorAssumption
<1>2. Point[p][c] \in {-1, 1}
  <2>1. Point[p][c] = IF c = 1 THEN (<<-1, -1, 1, 1>>)[p + 1] ELSE (<<-1, 1, 1, -1>>)[p + 1]
    BY DEF Point
  <2>2. p = 0 \/ p = 1 \/ p = 2 \/ p = 3
    OBVIOUS
  <2> QED BY <2>1, <2>2
<1>3. CASE Point[p][c] = 1
  BY <1>1, <1>3 DEF Tap, Abs
<1>4. CASE Point[p][c] = -1
  BY <1>1, <1>4 DEF Tap, Abs
<1> QED BY <1>2, <1>3, <1>4

LEMMA PartTyped ==
    ASSUME NEW turns \in Seq(0..3), NEW k \in 1 .. Len(turns), NEW t \in Int, NEW c \in 1..2
    PROVE  Part(turns, k, t, c) \in Int
<1>1. turns[k] \in 0..3
  OBVIOUS
<1>2. CASE t - (k - 1) * Interpolation \in Slots
  BY <1>1, <1>2, TapTyped DEF Part
<1>3. CASE t - (k - 1) * Interpolation \notin Slots
  BY <1>3 DEF Part
<1> QED BY <1>2, <1>3

\* Sums are determined.
LEMMA SumsUnique ==
    ASSUME NEW turns, NEW n \in Nat, NEW t, NEW c, NEW f, NEW g,
           Adds(f, turns, n, t, c), Adds(g, turns, n, t, c)
    PROVE  f[n] = g[n]
<1>1. PICK T : T = {k \in 0..n : f[k] = g[k]}
  OBVIOUS
<1>2. 0 \in T
  BY <1>1 DEF Adds
<1>3. ASSUME NEW k \in 0 .. n - 1, k \in T
      PROVE  k + 1 \in T
  <2>1. k + 1 \in 1..n /\ (k + 1) - 1 = k
    OBVIOUS
  <2> QED BY <1>1, <1>3, <2>1 DEF Adds
<1>4. \A k \in 0..n : k \in T
  BY <1>2, <1>3, InductionUpTo
<1> QED BY <1>1, <1>4

LEMMA SumsExist ==
    ASSUME NEW turns \in Seq(0..3), NEW t \in Int, NEW c \in 1..2
    PROVE  \E f : Sums(f, turns, Len(turns), t, c)
<1>1. PICK N \in Nat : N = Len(turns)
  OBVIOUS
<1>2. PICK G : G = [n \in Nat |-> [v \in Int |-> IF n \in 1..N THEN v + Part(turns, n, t, c) ELSE v]]
  OBVIOUS
<1>3. G \in [Nat -> [Int -> Int]]
  <2>1. ASSUME NEW n \in Nat
        PROVE  [v \in Int |-> IF n \in 1..N THEN v + Part(turns, n, t, c) ELSE v] \in [Int -> Int]
    <3>1. CASE n \in 1..N
      <4>1. PICK y \in Int : y = Part(turns, n, t, c)
        BY <1>1, <3>1, PartTyped
      <4> QED BY <3>1, <4>1
    <3>2. CASE n \notin 1..N
      BY <3>2
    <3> QED BY <3>1, <3>2
  <2> QED BY <1>2, <2>1
<1>4. PICK g \in [0..N -> Int] : g[0] = 0 /\ \A n \in 1..N : g[n] = G[n][g[n - 1]]
  <2>1. 0 \in Int
    OBVIOUS
  <2>2. Recursion(N, Int, 0, G)
    BY <1>1, <1>3, <2>1, RecursiveFunction
  <2> QED BY <2>2 DEF Recursion
<1>5. ASSUME NEW k \in 1..N
      PROVE  g[k] = g[k - 1] + Part(turns, k, t, c)
  <2>1. k \in Nat /\ k - 1 \in 0..N
    OBVIOUS
  <2>2. g[k - 1] \in Int /\ g[k] = G[k][g[k - 1]]
    BY <1>4, <2>1
  <2> QED BY <1>2, <2>1, <2>2
<1> QED BY <1>1, <1>4, <1>5 DEF Sums, Adds

\* The convolution is the last of the sums.
LEMMA ConvolutionIs ==
    ASSUME NEW turns \in Seq(0..3), NEW t \in Int, NEW c \in 1..2, NEW f, Sums(f, turns, Len(turns), t, c)
    PROVE  Convolution(turns, t, c) = f[Len(turns)]
<1>1. PICK N \in Nat : N = Len(turns)
  OBVIOUS
<1>2. f = [k \in 0..N |-> IF k = 0 THEN 0 ELSE f[k - 1] + Part(turns, k, t, c)]
  BY <1>1 DEF Sums, Adds
<1>3. PICK g : /\ g = [k \in 0..N |-> IF k = 0 THEN 0 ELSE g[k - 1] + Part(turns, k, t, c)]
               /\ Convolution(turns, t, c) = g[N]
  <2>1. PICK g : /\ g = CHOOSE h : h = [k \in 0..N |-> IF k = 0 THEN 0 ELSE h[k - 1] + Part(turns, k, t, c)]
                 /\ Convolution(turns, t, c) = g[N]
    BY <1>1 DEF Convolution
  <2> QED BY <1>2, <2>1
<1>4. Adds(g, turns, N, t, c)
  <2>1. g[0] = 0
    BY <1>1, <1>3
  <2>2. \A k \in 1..N : g[k] = g[k - 1] + Part(turns, k, t, c)
    BY <1>3
  <2> QED BY <2>1, <2>2 DEF Adds
<1>5. Adds(f, turns, N, t, c)
  BY <1>1 DEF Sums
<1>6. g[N] = f[N]
  BY <1>1, <1>4, <1>5, SumsUnique
<1> QED BY <1>1, <1>3, <1>6

\* One more symbol adds its own part.
LEMMA OneMoreSymbol ==
    ASSUME NEW turns \in Seq(0..3), NEW p \in 0..3, NEW t \in Int, NEW c \in 1..2
    PROVE  /\ Convolution(turns, t, c) \in Int
           /\ Convolution(Append(turns, p), t, c)
                 = Convolution(turns, t, c) + Part(Append(turns, p), Len(turns) + 1, t, c)
<1>1. PICK N \in Nat : N = Len(turns)
  OBVIOUS
<1>2. PICK all : /\ all = Append(turns, p) /\ all \in Seq(0..3) /\ Len(all) = N + 1
                 /\ \A k \in 1..N : all[k] = turns[k]
  <2>1. Append(turns, p) \in Seq(0..3) /\ Len(Append(turns, p)) = N + 1
    BY <1>1
  <2>2. \A k \in 1..N : Append(turns, p)[k] = turns[k]
    BY <1>1
  <2> QED BY <2>1, <2>2
<1>3. PICK f : Sums(f, all, N + 1, t, c)
  BY <1>2, SumsExist
<1>4. f \in [0 .. N + 1 -> Int] /\ f[0] = 0 /\ \A k \in 1 .. N + 1 : f[k] = f[k - 1] + Part(all, k, t, c)
  BY <1>3 DEF Sums, Adds
<1>5. Convolution(all, t, c) = f[N + 1]
  <2>1. Sums(f, all, Len(all), t, c)
    BY <1>2, <1>3
  <2>2. Convolution(all, t, c) = f[Len(all)]
    BY <1>2, <2>1, ConvolutionIs
  <2> QED BY <1>2, <2>2
<1>6. PICK g : g = [k \in 0..N |-> f[k]]
  OBVIOUS
<1>7. Sums(g, turns, N, t, c)
  <2>1. g \in [0..N -> Int] /\ g[0] = 0
    BY <1>1, <1>4, <1>6
  <2>2. ASSUME NEW k \in 1..N
        PROVE  g[k] = g[k - 1] + Part(turns, k, t, c)
    <3>1. k \in 1 .. N + 1 /\ k \in 0..N /\ k - 1 \in 0..N
      BY <1>1
    <3>2. Part(turns, k, t, c) = Part(all, k, t, c)
      BY <1>2 DEF Part
    <3> QED BY <1>4, <1>6, <3>1, <3>2
  <2> QED BY <2>1, <2>2 DEF Sums, Adds
<1>8. Convolution(turns, t, c) = f[N]
  <2>1. Convolution(turns, t, c) = g[N]
    BY <1>1, <1>7, ConvolutionIs
  <2> QED BY <1>1, <1>6, <2>1
<1>9. N + 1 \in 1 .. N + 1 /\ (N + 1) - 1 = N /\ N \in 0 .. N + 1
  BY <1>1
<1> QED BY <1>1, <1>2, <1>4, <1>5, <1>8, <1>9

\* Where no symbol reaches there is silence.
LEMMA Silence ==
    ASSUME NEW turns \in Seq(0..3), NEW t \in Int, NEW c \in 1..2,
           \A k \in 1 .. Len(turns) : Part(turns, k, t, c) = 0
    PROVE  Convolution(turns, t, c) = 0
<1>1. PICK N \in Nat : N = Len(turns)
  OBVIOUS
<1>2. PICK f : f = [k \in 0..N |-> 0]
  OBVIOUS
<1>3. Sums(f, turns, N, t, c)
  BY <1>1, <1>2 DEF Sums, Adds
<1> QED BY <1>1, <1>2, <1>3, ConvolutionIs
\* So a new symbol of phase p leaves alone what is before it.
LEMMA NewPart ==
    ASSUME NEW turns \in Seq(0..3), NEW p \in 0..3, NEW t \in Int, NEW c \in 1..2,
           NEW a \in Int, t = Len(turns) * Interpolation + a
    PROVE  /\ Convolution(turns, t, c) \in Int /\ Convolution(Append(turns, p), t, c) \in Int
           /\ a \in Slots => Convolution(Append(turns, p), t, c) = Convolution(turns, t, c) + Tap(p, a, c)
           /\ a \notin Slots => Convolution(Append(turns, p), t, c) = Convolution(turns, t, c)
<1>1. PICK n \in Nat : n = Len(turns)
  OBVIOUS
<1>2. Append(turns, p)[n + 1] = p
  BY <1>1
<1>3. t - ((n + 1) - 1) * Interpolation = a
  <2>1. PICK y \in Int : y = n * Interpolation
    BY <1>1, ModulatorAssumption
  <2>2. t = y + a /\ (n + 1) - 1 = n
    BY <1>1, <2>1
  <2> QED BY <2>1, <2>2
<1>4. a \in Slots => Part(Append(turns, p), n + 1, t, c) = Tap(p, a, c)
  BY <1>2, <1>3 DEF Part
<1>5. a \notin Slots => Part(Append(turns, p), n + 1, t, c) = 0
  BY <1>3 DEF Part
<1>6. PICK v \in Int : /\ v = Convolution(turns, t, c)
                       /\ Convolution(Append(turns, p), t, c) = v + Part(Append(turns, p), n + 1, t, c)
  BY <1>1, OneMoreSymbol
<1>7. a \in Slots => Tap(p, a, c) \in Int
  BY TapTyped
<1> QED BY <1>4, <1>5, <1>6, <1>7

LEMMA WithinPulse ==
    ASSUME NEW turns \in Seq(0..3), NEW p \in 0..3, NEW t \in Int, NEW c \in 1..2,
           NEW a \in Slots, t = Len(turns) * Interpolation + a
    PROVE  Convolution(Append(turns, p), t, c) = Convolution(turns, t, c) + Tap(p, a, c)
<1>1. a \in Int
  BY DEF Slots
<1> QED BY <1>1, NewPart, SMTT(30)

LEMMA BeforePulse ==
    ASSUME NEW turns \in Seq(0..3), NEW p \in 0..3, NEW t \in Int, NEW c \in 1..2,
           NEW a \in Int, a \notin Slots, t = Len(turns) * Interpolation + a
    PROVE  Convolution(Append(turns, p), t, c) = Convolution(turns, t, c)
BY NewPart, SMTT(30)

\* And no symbol reaches further than its pulse.
LEMMA BeyondReach ==
    ASSUME NEW turns \in Seq(0..3), NEW p \in 0..3, NEW a \in Nat, NEW t \in Int, NEW c \in 1..2,
           t = Len(turns) * Interpolation + (a + NTaps)
    PROVE  Convolution(Append(turns, p), t, c) = 0
<1>1. PICK n \in Nat, m \in Nat \ {0} : n = Len(turns) /\ m = Interpolation
  BY ModulatorAssumption
<1>2. PICK all : all = Append(turns, p) /\ all \in Seq(0..3) /\ Len(all) = n + 1
  <2>1. Append(turns, p) \in Seq(0..3) /\ Len(Append(turns, p)) = n + 1
    BY <1>1
  <2> QED BY <2>1
<1>3. ASSUME NEW k \in 1 .. n + 1
      PROVE  Part(all, k, t, c) = 0
  <2>1. PICK y \in Nat : y = (n - (k - 1)) * m
    <3>1. n - (k - 1) \in Nat
      BY <1>1
    <3> QED BY <3>1
  <2>2. t - (k - 1) * m = y + (a + NTaps)
    <3>1. PICK u \in Int, v \in Int : u = (k - 1) * m /\ v = n * m
      BY <1>1
    <3>2. y = v - u
      BY <1>1, <2>1, <3>1
    <3>3. PICK d \in Nat : d = a + NTaps
      BY <1>1 DEF NTaps
    <3>4. t = v + d
      BY <1>1, <3>1, <3>3
    <3>5. t - u = y + d
      BY <3>2, <3>4
    <3> QED BY <3>1, <3>3, <3>5
  <2>3. t - (k - 1) * m \notin Slots
    BY <1>1, <2>1, <2>2 DEF Slots, NTaps
  <2> QED BY <1>1, <2>3 DEF Part
<1>4. \A k \in 1 .. Len(all) : Part(all, k, t, c) = 0
  BY <1>2, <1>3
<1> QED BY <1>2, <1>4, Silence

-----------------------------------------------------------------------------
(* What may still come *)

Piled(h, r, n) ==
    \A q \in 0..n : h[q] = (IF q = 0 THEN 0 ELSE h[q - 1]) + Abs(Shape[r + q * Interpolation])
Piles(h, r, n) == h \in [0..n -> Nat] /\ Piled(h, r, n)

LEMMA PilesUnique ==
    ASSUME NEW r, NEW n \in Nat, NEW f, NEW g, Piled(f, r, n), Piled(g, r, n)
    PROVE  f[n] = g[n]
<1>1. PICK T : T = {k \in 0..n : f[k] = g[k]}
  OBVIOUS
<1>2. 0 \in T
  BY <1>1 DEF Piled
<1>3. ASSUME NEW k \in 0 .. n - 1, k \in T
      PROVE  k + 1 \in T
  <2>1. k + 1 \in 0..n /\ k + 1 # 0 /\ (k + 1) - 1 = k
    OBVIOUS
  <2> QED BY <1>1, <1>3, <2>1 DEF Piled
<1>4. \A k \in 0..n : k \in T
  BY <1>2, <1>3, InductionUpTo
<1> QED BY <1>1, <1>4

LEMMA PilesExist ==
    ASSUME NEW r \in Nat, NEW n \in Nat, \A q \in 0..n : r + q * Interpolation \in Slots
    PROVE  \E h : Piles(h, r, n)
<1>1. PICK P : P = [q \in 0..n |-> Abs(Shape[r + q * Interpolation])]
  OBVIOUS
<1>2. P \in [0..n -> Nat]
  <2>1. \A v \in Int : Abs(v) \in Nat
    BY DEF Abs
  <2>2. \A q \in 0..n : Shape[r + q * Interpolation] \in Int
    BY ModulatorAssumption
  <2> QED BY <1>1, <2>1, <2>2
<1>3. PICK G : G = [q \in Nat |-> [v \in Nat |-> IF q \in 0..n THEN v + P[q] ELSE v]]
  OBVIOUS
<1>4. G \in [Nat -> [Nat -> Nat]]
  <2>1. ASSUME NEW q \in Nat
        PROVE  [v \in Nat |-> IF q \in 0..n THEN v + P[q] ELSE v] \in [Nat -> Nat]
    <3>1. CASE q \in 0..n
      <4>1. P[q] \in Nat
        BY <1>2, <3>1
      <4> QED BY <3>1, <4>1
    <3>2. CASE q \notin 0..n
      BY <3>2
    <3> QED BY <3>1, <3>2
  <2> QED BY <1>3, <2>1
<1>5. PICK h \in [0..n -> Nat] : h[0] = P[0] /\ \A q \in 1..n : h[q] = G[q][h[q - 1]]
  <2>1. P[0] \in Nat
    BY <1>2
  <2>2. Recursion(n, Nat, P[0], G)
    BY <1>4, <2>1, RecursiveFunction
  <2> QED BY <2>2 DEF Recursion
<1>6. ASSUME NEW q \in 0..n
      PROVE  h[q] = (IF q = 0 THEN 0 ELSE h[q - 1]) + P[q]
  <2>1. CASE q = 0
    BY <1>2, <1>5, <2>1
  <2>2. CASE q # 0
    <3>1. q \in 1..n /\ q - 1 \in 0..n /\ q \in Nat
      BY <2>2
    <3>2. h[q - 1] \in Nat /\ h[q] = G[q][h[q - 1]]
      BY <1>5, <3>1
    <3> QED BY <1>3, <2>2, <3>1, <3>2
  <2> QED BY <2>1, <2>2
<1> QED BY <1>1, <1>5, <1>6 DEF Piles, Piled

\* Reach goes back by a symbol at a time.
LEMMA ReachIs ==
    ASSUME NEW a \in Slots, NEW q \in Nat, NEW r \in 0 .. Interpolation - 1, a = q * Interpolation + r
    PROVE  \E h : Piles(h, r, q) /\ Reach(a) = h[q] /\ \A g : Piles(g, r, q) => g[q] = h[q]
<1>1. PICK m \in Nat \ {0} : m = Interpolation
  BY ModulatorAssumption
<1>2. a \div m = q /\ a % m = r /\ a \in Nat
  <2>1. a \in Int /\ a \in Nat /\ a = m * q + r /\ r \in 0 .. m - 1 /\ q \in Int
    BY <1>1 DEF Slots
  <2> QED BY <1>1, <2>1, DivModUnique
<1>3. ASSUME NEW k \in 0..q
      PROVE  r + k * m \in Slots
  <2>1. PICK y \in Nat, z \in Nat : y = k * m /\ z = (q - k) * m
    <3>1. q - k \in Nat /\ k \in Nat
      OBVIOUS
    <3> QED BY <1>1, <3>1
  <2>2. a = (y + z) + r /\ a \in 0 .. NTaps - 1
    BY <1>1, <2>1 DEF Slots
  <2> QED BY <1>1, <2>1, <2>2 DEF Slots, NTaps
<1>4. PICK h : Piles(h, r, q)
  <2>1. r \in Nat /\ \A k \in 0..q : r + k * Interpolation \in Slots
    BY <1>1, <1>3
  <2>2. \E h : Piles(h, r, q)
    BY <2>1, PilesExist
  <2> QED BY <2>2
<1>5. h = [k \in 0..q |-> (IF k = 0 THEN 0 ELSE h[k - 1]) + Abs(Shape[r + k * m])]
  BY <1>1, <1>4 DEF Piles, Piled
<1>6. PICK g : /\ g = [k \in 0..q |-> (IF k = 0 THEN 0 ELSE g[k - 1]) + Abs(Shape[r + k * m])]
               /\ Reach(a) = g[q]
  <2>1. PICK g : /\ g = CHOOSE f : f = [k \in 0..q |-> (IF k = 0 THEN 0 ELSE f[k - 1])
                                                         + Abs(Shape[r + k * m])]
                 /\ Reach(a) = g[q]
    BY <1>1, <1>2 DEF Reach
  <2> QED BY <1>5, <2>1
<1>7. Piled(g, r, q)
  BY <1>1, <1>6 DEF Piled
<1>8. g[q] = h[q]
  BY <1>4, <1>7, PilesUnique DEF Piles
<1>9. \A f : Piles(f, r, q) => f[q] = h[q]
  BY <1>4, PilesUnique DEF Piles
<1> QED BY <1>4, <1>6, <1>8, <1>9
LEMMA ReachStep ==
    ASSUME NEW a \in Slots
    PROVE  /\ Reach(a) \in Nat /\ Abs(Shape[a]) \in Nat /\ Abs(Shape[a]) <= Reach(a)
           /\ a >= Interpolation => /\ a - Interpolation \in Slots
                                    /\ Reach(a) = Reach(a - Interpolation) + Abs(Shape[a])
<1>1. PICK m \in Nat \ {0} : m = Interpolation
  BY ModulatorAssumption
<1>2. a \in Nat /\ a \in Int /\ Abs(Shape[a]) \in Nat
  <2>1. Shape[a] \in Int
    BY ModulatorAssumption
  <2> QED BY <2>1 DEF Slots, Abs
<1>3. PICK q \in Nat, r \in 0 .. m - 1 : a = q * m + r
  <2>1. a \div m \in Int /\ a % m \in 0 .. m - 1 /\ a = m * (a \div m) + (a % m)
    BY <1>2, DivMod
  <2>2. a \div m \in Nat
    BY <1>2, <2>1
  <2>3. PICK d \in Nat, e \in 0 .. m - 1 : d = a \div m /\ e = a % m /\ a = m * d + e
    BY <2>1, <2>2, Zenon
  <2>4. a = d * m + e
    BY <2>3
  <2> QED BY <2>4
<1>4. r \in Nat /\ r \in 0 .. Interpolation - 1 /\ a = q * Interpolation + r
  BY <1>1, <1>3
<1>5. PICK h : Piles(h, r, q) /\ Reach(a) = h[q] /\ \A g : Piles(g, r, q) => g[q] = h[q]
  BY <1>4, ReachIs
<1>6. h \in [0..q -> Nat] /\ h[q] = (IF q = 0 THEN 0 ELSE h[q - 1]) + Abs(Shape[a])
  <2>1. q \in 0..q /\ r + q * Interpolation = a
    BY <1>1, <1>3, <1>4
  <2> QED BY <1>5, <2>1 DEF Piles, Piled
<1>7. CASE q = 0
  <2>1. ~(a >= Interpolation)
    BY <1>1, <1>3, <1>7
  <2>2. Reach(a) = Abs(Shape[a])
    BY <1>2, <1>5, <1>6, <1>7
  <2> QED BY <1>2, <2>1, <2>2
<1>8. CASE q # 0
  <2>1. PICK k \in Nat : q = k + 1
    <3>1. q - 1 \in Nat /\ q = (q - 1) + 1
      BY <1>8
    <3> QED BY <3>1
  <2>2. a - m = k * m + r /\ a - m \in Nat
    <3>1. q * m = k * m + m /\ k * m \in Nat
      BY <2>1
    <3>2. PICK y \in Nat : y = k * m
      BY <3>1
    <3>3. a = (y + m) + r /\ r \in Nat
      BY <1>3, <1>4, <3>1, <3>2
    <3> QED BY <3>2, <3>3
  <2>3. a - m \in Slots
    <3>1. a \in 0 .. NTaps - 1 /\ NTaps \in Nat
      BY <1>1 DEF Slots, NTaps
    <3> QED BY <1>1, <2>2, <3>1 DEF Slots
  <2>4. PICK g : Piles(g, r, k) /\ Reach(a - m) = g[k] /\ \A f : Piles(f, r, k) => f[k] = g[k]
    BY <1>1, <1>4, <2>2, <2>3, ReachIs
  <2>5. PICK f : f = [j \in 0..k |-> h[j]]
    OBVIOUS
  <2>6. Piles(f, r, k)
    <3>1. \A j \in 0..k : j \in 0..q /\ f[j] = h[j] /\ (j # 0 => j - 1 \in 0..k)
      BY <2>1, <2>5
    <3>2. f \in [0..k -> Nat]
      BY <1>6, <2>5, <3>1
    <3>3. \A j \in 0..k : f[j] = (IF j = 0 THEN 0 ELSE f[j - 1]) + Abs(Shape[r + j * Interpolation])
      BY <1>5, <3>1 DEF Piles, Piled
    <3> QED BY <3>2, <3>3 DEF Piles, Piled
  <2>7. h[k] = Reach(a - m) /\ h[k] \in Nat /\ k \in 0..k /\ k \in 0..q
    BY <1>6, <2>1, <2>4, <2>5, <2>6
  <2>8. Reach(a) = Reach(a - m) + Abs(Shape[a])
    BY <1>5, <1>6, <1>8, <2>1, <2>7
  <2> QED BY <1>1, <1>2, <2>3, <2>7, <2>8
<1> QED BY <1>7, <1>8

-----------------------------------------------------------------------------
(* The ring *)

LEMMA ModOnce ==
    ASSUME NEW m \in Nat \ {0}, NEW v \in 0 .. 2 * m - 1
    PROVE  v % m = IF v < m THEN v ELSE v - m
<1>1. CASE v < m
  <2>1. v \in Int /\ v \in 0 .. m - 1 /\ v = m * 0 + v
    BY <1>1
  <2> QED BY <1>1, <2>1, DivModUnique
<1>2. CASE ~(v < m)
  <2>1. v \in Int /\ v - m \in 0 .. m - 1 /\ v = m * 1 + (v - m)
    BY <1>2
  <2> QED BY <1>2, <2>1, DivModUnique
<1> QED BY <1>1, <1>2

\* How old a slot is.
LEMMA AgeIs ==
    ASSUME NEW w \in Slots, NEW i \in Slots
    PROVE  (i - w + NTaps) % NTaps = IF i >= w THEN i - w ELSE (i - w) + NTaps
<1>1. NTaps \in Nat \ {0}
  BY ModulatorAssumption DEF NTaps
<1>2. i \in 0 .. NTaps - 1 /\ w \in 0 .. NTaps - 1
  BY DEF Slots
<1>3. (i - w) + NTaps \in 0 .. 2 * NTaps - 1
  BY <1>1, <1>2
<1>4. ((i - w) + NTaps) % NTaps = IF (i - w) + NTaps < NTaps THEN (i - w) + NTaps
                                  ELSE ((i - w) + NTaps) - NTaps
  BY <1>1, <1>3, ModOnce
<1> QED BY <1>1, <1>2, <1>4

\* A symbol later the slots that stay are a symbol older, and the others the youngest.
LEMMA AgeStep ==
    ASSUME NEW w \in Slots, NEW i \in Slots, NEW u, u = (w + Interpolation) % NTaps,
           NEW a, a = (i - w + NTaps) % NTaps
    PROVE  /\ u \in Slots /\ a \in Slots
           /\ (i - u + NTaps) % NTaps = IF a >= Interpolation THEN a - Interpolation
                                        ELSE a + (NTaps - Interpolation)
<1>1. PICK m \in Nat \ {0}, n \in Nat \ {0} : m = Interpolation /\ n = NTaps /\ n = 10 * m + 1
  BY ModulatorAssumption DEF NTaps
<1>2. i \in 0 .. n - 1 /\ w \in 0 .. n - 1 /\ Slots = 0 .. n - 1
  BY <1>1 DEF Slots
<1>3. u = IF w + m < n THEN w + m ELSE (w + m) - n
  <2>1. w + m \in 0 .. 2 * n - 1
    BY <1>1, <1>2
  <2> QED BY <1>1, <2>1, ModOnce
<1>4. u \in 0 .. n - 1
  BY <1>1, <1>2, <1>3
<1>5. a = IF i >= w THEN i - w ELSE (i - w) + n
  BY <1>1, <1>2, AgeIs
<1>6. a \in 0 .. n - 1
  BY <1>1, <1>2, <1>5
<1>7. (i - u + n) % n = IF i >= u THEN i - u ELSE (i - u) + n
  BY <1>1, <1>2, <1>4, AgeIs
<1>8. (IF i >= u THEN i - u ELSE (i - u) + n) = IF a >= m THEN a - m ELSE a + (n - m)
  <2>1. CASE i >= w /\ w + m < n
    BY <1>1, <1>2, <1>3, <1>5, <2>1
  <2>2. CASE i >= w /\ ~(w + m < n)
    BY <1>1, <1>2, <1>3, <1>5, <2>2
  <2>3. CASE ~(i >= w) /\ w + m < n
    BY <1>1, <1>2, <1>3, <1>5, <2>3
  <2>4. CASE ~(i >= w) /\ ~(w + m < n)
    BY <1>1, <1>2, <1>3, <1>5, <2>4
  <2> QED BY <2>1, <2>2, <2>3, <2>4
<1> QED BY <1>1, <1>2, <1>4, <1>6, <1>7, <1>8

\* The slots the samples are taken from.
LEMMA AgeOfTaken ==
    ASSUME NEW w \in Slots, NEW j \in Slots
    PROVE  /\ (w + j) % NTaps \in Slots
           /\ ((((w + j) % NTaps) - w) + NTaps) % NTaps = j
<1>1. PICK n \in Nat \ {0} : n = NTaps
  BY ModulatorAssumption DEF NTaps
<1>2. j \in 0 .. n - 1 /\ w \in 0 .. n - 1 /\ Slots = 0 .. n - 1
  BY <1>1 DEF Slots
<1>3. PICK i : i = (w + j) % n
  OBVIOUS
<1>4. i = IF w + j < n THEN w + j ELSE (w + j) - n
  <2>1. w + j \in 0 .. 2 * n - 1
    BY <1>1, <1>2
  <2> QED BY <1>1, <1>3, <2>1, ModOnce
<1>5. i \in 0 .. n - 1
  BY <1>1, <1>2, <1>4
<1>6. (i - w + n) % n = IF i >= w THEN i - w ELSE (i - w) + n
  BY <1>1, <1>2, <1>5, AgeIs
<1> QED BY <1>1, <1>2, <1>3, <1>4, <1>5, <1>6

RingTypes ==
    /\ win \in [Slots -> [1..2 -> Int]] /\ winx \in Slots /\ sym \in 0..3
    /\ x \in Nat /\ iq \in Seq([1..2 -> Int]) /\ phases \in Seq(0..3)

\* Every slot holds what the symbols so far still have to give at its time,
HoldsRest ==
    \A i \in Slots, c \in 1..2 :
        win[i][c] = Convolution(phases, Len(phases) * Interpolation + Age(i), c)

\* stays below full scale whatever comes,
NeverWraps == \A i \in Slots, c \in 1..2 : Abs(win[i][c]) + Reach(Age(i)) <= 32767

\* and the samples of the block so far are those of the convolution.
Complete ==
    /\ x <= Len(phases) /\ Len(iq) = x * Interpolation
    /\ \A n \in 1 .. Len(iq), c \in 1..2 :
           iq[n][c] = Convolution(phases, (Len(phases) - x) * Interpolation + n - 1, c)

RingOK == HoldsRest /\ NeverWraps /\ Complete

LEMMA AgeTyped ==
    ASSUME winx \in Slots, NEW i \in Slots
    PROVE  Age(i) \in Slots /\ Age(i) \in Nat
<1>1. PICK u : u = (winx + Interpolation) % NTaps
  OBVIOUS
<1>2. (i - winx + NTaps) % NTaps \in Slots
  BY <1>1, AgeStep
<1> QED BY <1>2 DEF Age, Slots

\* The 16-bit sums of the ring do not wrap, and leave room for what may still come.
LEMMA NoWrap ==
    ASSUME RingTypes, NeverWraps, NEW p \in 0..3, NEW i \in Slots, NEW c \in 1..2
    PROVE  /\ Added(p)[i][c] = win[i][c] + Tap(p, Age(i), c)
           /\ Added(p)[i][c] \in Int
           /\ Age(i) >= Interpolation =>
                  Abs(Added(p)[i][c]) + Reach(Age(i) - Interpolation) <= 32767
<1>1. Age(i) \in Slots
  BY AgeTyped DEF RingTypes
<1>2. PICK v \in Int, y \in Int : v = win[i][c] /\ y = Tap(p, Age(i), c)
  BY <1>1, TapTyped DEF RingTypes
<1>3. PICK r \in Nat, s \in Nat : /\ r = Reach(Age(i)) /\ s = Abs(Shape[Age(i)]) /\ s <= r
                                  /\ Age(i) >= Interpolation => Reach(Age(i) - Interpolation) = r - s
  <2>1. /\ Reach(Age(i)) \in Nat /\ Abs(Shape[Age(i)]) \in Nat
        /\ Abs(Shape[Age(i)]) <= Reach(Age(i))
    BY <1>1, ReachStep
  <2>2. ASSUME Age(i) >= Interpolation
        PROVE  Reach(Age(i) - Interpolation) = Reach(Age(i)) - Abs(Shape[Age(i)])
    <3>1. /\ Age(i) - Interpolation \in Slots
          /\ Reach(Age(i)) = Reach(Age(i) - Interpolation) + Abs(Shape[Age(i)])
      BY <1>1, <2>2, ReachStep
    <3>2. Reach(Age(i) - Interpolation) \in Nat
      BY <3>1, ReachStep
    <3>3. PICK d \in Nat : d = Reach(Age(i) - Interpolation)
      BY <3>2
    <3> QED BY <2>1, <3>1, <3>3
  <2> QED BY <2>1, <2>2
<1>4. PICK a \in Nat : a = Abs(v) /\ -a <= v /\ v <= a /\ a + r <= 32767
  <2>1. Abs(v) + r <= 32767
    BY <1>2, <1>3 DEF NeverWraps
  <2>2. Abs(v) \in Nat /\ -Abs(v) <= v /\ v <= Abs(v)
    BY DEF Abs
  <2> QED BY <2>1, <2>2
<1>5. -s <= y /\ y <= s
  <2>1. Abs(y) = s
    BY <1>1, <1>2, <1>3, TapTyped
  <2> QED BY <2>1 DEF Abs
<1>6. PICK z \in Int : z = v + y /\ -(a + s) <= z /\ z <= a + s
  BY <1>4, <1>5
<1>7. Wrap16(v + y) = v + y
  <2>1. a + s <= 32767
    BY <1>3, <1>4
  <2>2. PICK u \in Nat : u = z + 32768 /\ u < 65536
    <3>1. z + 32768 >= 0 /\ z + 32768 < 65536
      BY <1>6, <2>1
    <3> QED BY <3>1
  <2>3. u % 65536 = u
    <3>1. PICK m \in Nat \ {0} : m = 65536
      OBVIOUS
    <3>2. u \in Nat /\ u < m
      BY <2>2, <3>1
    <3>3. u % m = u
      <4>1. u \in 0 .. 2 * m - 1
        BY <3>2
      <4> QED BY <3>2, <4>1, ModOnce
    <3> QED BY <3>1, <3>3
  <2>4. u - 32768 = z
    BY <2>2
  <2> QED BY <1>6, <2>2, <2>3, <2>4 DEF Wrap16
<1>8. Added(p)[i][c] = v + y
  BY <1>2, <1>7 DEF Added
<1>9. PICK e \in Nat : e = Abs(z) /\ e <= a + s
  <2>1. Abs(z) \in Nat /\ Abs(z) <= a + s
    BY <1>6 DEF Abs
  <2> QED BY <2>1
<1>10. e + (r - s) <= 32767
  BY <1>3, <1>4, <1>9
<1> QED BY <1>2, <1>3, <1>6, <1>8, <1>9, <1>10

LEMMA OctetTyped == \A o \in Octet : o \in Nat
BY DEF Octet

\* What the two steps of a symbol do.
LEMMA SymbolStep ==
    ASSUME RingTypes, NEW block \in Seq(Octet), Symbol(block)
    PROVE  /\ sym' \in 0..3 /\ winx' \in Slots /\ x' = x + 1
           /\ winx' = (winx + Interpolation) % NTaps
           /\ win' = Cleared(Added(sym')) /\ iq' = iq \o Emitted(Added(sym'))
           /\ \A i \in Slots : Age(i)' = IF Age(i) >= Interpolation THEN Age(i) - Interpolation
                                         ELSE Age(i) + (NTaps - Interpolation)
<1>1. Step[Dibit(block, x)] \in 0..3
  <2>1. PICK v \in Int : v = block[x \div 4 + 1] \div (<<64, 16, 4, 1>>)[(x % 4) + 1]
    <3>1. x \div 4 \in 0 .. Len(block) - 1 /\ x % 4 \in 0..3
      BY DEF Symbol, RingTypes
    <3>2. block[x \div 4 + 1] \in Int
      <4>1. PICK k \in 1 .. Len(block) : k = x \div 4 + 1
        BY <3>1
      <4>2. block[k] \in Octet
        OBVIOUS
      <4> QED BY <4>1, <4>2, OctetTyped
    <3>3. PICK d \in 0..3 : d = x % 4
      BY <3>1
    <3>4. (<<64, 16, 4, 1>>)[d + 1] \in Nat \ {0}
      <4>1. d = 0 \/ d = 1 \/ d = 2 \/ d = 3
        OBVIOUS
      <4> QED BY <4>1
    <3> QED BY <3>2, <3>3, <3>4, DivMod
  <2>2. PICK d \in 0..3 : d = Dibit(block, x)
    BY <2>1 DEF Dibit
  <2>3. d = 0 \/ d = 1 \/ d = 2 \/ d = 3
    OBVIOUS
  <2> QED BY <2>2, <2>3 DEF Step
<1>2. sym' \in 0..3
  <2>1. PICK d \in 0..3 : d = Step[Dibit(block, x)]
    BY <1>1
  <2>2. sym' = (sym + d) % 4
    BY <2>1 DEF Symbol
  <2>3. PICK s \in Nat : s = sym + d
    <3>1. sym \in 0..3
      BY DEF RingTypes
    <3> QED BY <3>1
  <2>4. s % 4 \in 0..3
    OBVIOUS
  <2> QED BY <2>2, <2>3, <2>4
<1>3. winx' \in Slots
  <2>1. PICK w \in Slots : w = winx
    BY DEF RingTypes
  <2>2. PICK u : u = (w + Interpolation) % NTaps /\ winx' = u
    BY <2>1 DEF Symbol
  <2>3. PICK a : a = (w - w + NTaps) % NTaps
    OBVIOUS
  <2>4. u \in Slots
    BY <2>2, <2>3, AgeStep
  <2> QED BY <2>2, <2>4
<1>4. ASSUME NEW i \in Slots
      PROVE  Age(i)' = IF Age(i) >= Interpolation THEN Age(i) - Interpolation
                       ELSE Age(i) + (NTaps - Interpolation)
  <2>1. PICK u : u = (winx + Interpolation) % NTaps /\ winx' = u
    BY DEF Symbol
  <2>2. winx \in Slots
    BY DEF RingTypes
  <2>3. (i - u + NTaps) % NTaps = IF Age(i) >= Interpolation THEN Age(i) - Interpolation
                                  ELSE Age(i) + (NTaps - Interpolation)
    BY <2>1, <2>2, AgeStep DEF Age
  <2> QED BY <2>1, <2>3 DEF Age
<1> QED BY <1>2, <1>3, <1>4 DEF Symbol

\* The slots after a symbol.
LEMMA SymbolSlots ==
    ASSUME RingTypes, HoldsRest, NeverWraps, NEW block \in Seq(Octet), Symbol(block),
           phases' = Append(phases, sym'), NEW i \in Slots, NEW c \in 1..2
    PROVE  /\ win'[i][c] \in Int
           /\ win'[i][c] = Convolution(phases', Len(phases') * Interpolation + Age(i)', c)
           /\ Abs(win'[i][c]) + Reach(Age(i)') <= 32767
<1>1. PICK p \in 0..3 : p = sym' /\ phases' = Append(phases, p) /\ win' = Cleared(Added(p))
  BY SymbolStep
<1>2. Age(i) \in Slots /\ Age(i) \in Nat
  BY AgeTyped DEF RingTypes
<1>3. PICK n \in Nat, m \in Nat \ {0} : n = Len(phases) /\ m = Interpolation
  BY ModulatorAssumption DEF RingTypes
<1>4. Len(phases') = n + 1 /\ phases \in Seq(0..3) /\ NTaps = 10 * m + 1 /\ NTaps \in Nat
  BY <1>1, <1>3 DEF RingTypes, NTaps
<1>5. PICK y \in Nat : y = n * m /\ (n + 1) * m = y + m
  BY <1>3
<1>6. CASE Age(i) >= m
  <2>1. Age(i)' = Age(i) - m
    BY <1>3, <1>6, SymbolStep
  <2>2. (n + 1) * m + Age(i)' = y + Age(i)
    BY <1>2, <1>5, <2>1
  <2>3. win'[i][c] = win[i][c] + Tap(p, Age(i), c) /\ win'[i][c] \in Int
    <3>1. win'[i][c] = Added(p)[i][c]
      BY <1>1, <1>2, <1>3, <1>6 DEF Cleared
    <3> QED BY <3>1, NoWrap
  <2>4. PICK t \in Int : t = y + Age(i)
    BY <1>2
  <2>5. t = Len(phases) * Interpolation + Age(i)
    BY <1>3, <1>5, <2>4
  <2>6. Convolution(Append(phases, p), t, c) = Convolution(phases, t, c) + Tap(p, Age(i), c)
    <3>1. PICK a \in Int : a = Age(i) /\ a \in Slots
      BY <1>2
    <3>2. t = Len(phases) * Interpolation + a
      BY <2>5, <3>1
    <3> QED BY <1>4, <3>1, <3>2, WithinPulse
  <2>7. win[i][c] = Convolution(phases, t, c)
    BY <2>5 DEF HoldsRest
  <2>8. win'[i][c] = Convolution(phases', (n + 1) * m + Age(i)', c)
    BY <1>1, <2>2, <2>3, <2>4, <2>6, <2>7
  <2>9. Abs(win'[i][c]) + Reach(Age(i)') <= 32767
    <3>1. win'[i][c] = Added(p)[i][c]
      BY <1>1, <1>2, <1>3, <1>6 DEF Cleared
    <3> QED BY <1>3, <1>6, <2>1, <3>1, NoWrap
  <2> QED BY <1>3, <1>4, <2>3, <2>8, <2>9
<1>7. CASE ~(Age(i) >= m)
  <2>1. Age(i)' = Age(i) + (NTaps - m)
    BY <1>3, <1>7, SymbolStep
  <2>2. Age(i)' \in Slots
    BY <1>2, <1>3, <1>4, <1>7, <2>1 DEF Slots
  <2>3. win'[i][c] = 0
    BY <1>1, <1>2, <1>3, <1>7 DEF Cleared, Zero
  <2>4. (n + 1) * m + Age(i)' = y + (Age(i) + NTaps)
    BY <1>2, <1>4, <1>5, <2>1
  <2>5. PICK t \in Int : t = y + (Age(i) + NTaps)
    BY <1>2, <1>4
  <2>6. t = Len(phases) * Interpolation + (Age(i) + NTaps)
    BY <1>3, <1>5, <2>5
  <2>7. Convolution(Append(phases, p), t, c) = 0
    BY <1>2, <1>4, <2>6, BeyondReach, ZenonT(40)
  <2>8. Reach(Age(i)') <= 32767 /\ Reach(Age(i)') \in Nat
    BY <2>2, PulseAssumption, ReachStep
  <2>9. Abs(win'[i][c]) + Reach(Age(i)') <= 32767
    BY <2>3, <2>8 DEF Abs
  <2> QED BY <1>1, <1>3, <1>4, <2>3, <2>4, <2>5, <2>7, <2>9
<1> QED BY <1>2, <1>3, <1>6, <1>7

\* The samples it puts out, and those of the symbols before it.
LEMMA SymbolSamples ==
    ASSUME RingTypes, HoldsRest, NeverWraps, Complete, NEW block \in Seq(Octet), Symbol(block),
           phases' = Append(phases, sym')
    PROVE  /\ iq' \in Seq([1..2 -> Int]) /\ Complete'
           /\ Len(iq') = Len(iq) + Interpolation /\ \A n \in 1 .. Len(iq) : iq'[n] = iq[n]
<1>1. PICK p \in 0..3 : p = sym' /\ phases' = Append(phases, p) /\ iq' = iq \o Emitted(Added(p))
  BY SymbolStep
<1>2. PICK n \in Nat, m \in Nat \ {0}, l \in Nat : n = Len(phases) /\ m = Interpolation /\ l = Len(iq)
  <2>1. Len(phases) \in Nat /\ Len(iq) \in Nat
    BY DEF RingTypes
  <2> QED BY <2>1, ModulatorAssumption
<1>3. Len(phases') = n + 1 /\ phases \in Seq(0..3) /\ x' = x + 1 /\ x \in Nat /\ iq \in Seq([1..2 -> Int])
  BY <1>1, <1>2, SymbolStep DEF RingTypes
<1>4. PICK y \in Nat, z \in Nat : /\ y = (n - x) * m /\ z = x * m /\ l = z
                                  /\ n * m = y + z /\ (x + 1) * m = z + m
  <2>1. n - x \in Nat /\ l = x * m
    BY <1>2, <1>3 DEF Complete
  <2>2. PICK d \in Nat : d = n - x /\ n = d + x
    BY <1>3, <2>1
  <2>3. (d + x) * m = d * m + x * m /\ (x + 1) * m = x * m + m /\ d * m \in Nat /\ x * m \in Nat
    BY <1>3
  <2> QED BY <2>1, <2>2, <2>3
\* A sample put out stands at the place of its age.
<1>5. ASSUME NEW j \in 1..m
      PROVE  /\ Emitted(Added(p))[j] \in [1..2 -> Int]
             /\ \A c \in 1..2 : Emitted(Added(p))[j][c] = Convolution(phases', n * m + (j - 1), c)
  <2>1. PICK a \in Int : a = j - 1 /\ a \in Slots /\ winx + j - 1 = winx + a
    <3>1. j - 1 \in Slots
      BY <1>2 DEF Slots, NTaps
    <3>2. winx \in Nat
      BY DEF RingTypes, Slots
    <3> QED BY <3>1, <3>2
  <2>2. PICK i \in Slots : i = (winx + a) % NTaps /\ Age(i) = a
    BY <2>1, AgeOfTaken DEF RingTypes, Age
  <2>3. Emitted(Added(p))[j] = Added(p)[i]
    BY <1>2, <2>1, <2>2 DEF Emitted
  <2>4. ASSUME NEW c \in 1..2
        PROVE  /\ Added(p)[i][c] \in Int
               /\ Added(p)[i][c] = Convolution(phases', n * m + (j - 1), c)
    <3>1. Added(p)[i][c] = win[i][c] + Tap(p, a, c) /\ Added(p)[i][c] \in Int
      BY <2>2, NoWrap
    <3>2. PICK t \in Int : t = n * m + a
      BY <1>2
    <3>3. t = Len(phases) * Interpolation + a
      BY <1>2, <3>2
    <3>4. Convolution(Append(phases, p), t, c) = Convolution(phases, t, c) + Tap(p, a, c)
      BY <1>3, <2>1, <3>3, WithinPulse
    <3>5. win[i][c] = Convolution(phases, t, c)
      BY <2>2, <3>3 DEF HoldsRest
    <3> QED BY <1>1, <2>1, <3>1, <3>2, <3>4, <3>5
  <2>5. Added(p)[i] = [c \in 1..2 |-> Added(p)[i][c]]
    BY DEF Added
  <2> QED BY <2>3, <2>4, <2>5
<1>6. PICK e \in Seq([1..2 -> Int]) : e = Emitted(Added(p)) /\ Len(e) = m
  <2>1. Emitted(Added(p)) \in [1..m -> [1..2 -> Int]]
    BY <1>2, <1>5 DEF Emitted
  <2>2. PICK f \in [1..m -> [1..2 -> Int]] : f = Emitted(Added(p))
    BY <2>1
  <2>3. f \in Seq([1..2 -> Int]) /\ Len(f) = m
    OBVIOUS
  <2> QED BY <2>2, <2>3
<1>7. /\ iq' \in Seq([1..2 -> Int]) /\ Len(iq') = l + m
      /\ \A k \in 1..l : iq'[k] = iq[k]
      /\ \A j \in 1..m : iq'[l + j] = e[j]
  <2>1. iq' = iq \o e
    BY <1>1, <1>6
  <2>2. PICK S : S = [1..2 -> Int]
    OBVIOUS
  <2>3. PICK s \in Seq(S) : s = iq /\ Len(s) = l
    BY <1>2, <1>3, <2>2
  <2>4. e \in Seq(S)
    BY <2>2
  <2>5. /\ s \o e \in Seq(S) /\ Len(s \o e) = l + m
        /\ \A k \in 1..l : (s \o e)[k] = s[k]
        /\ \A j \in 1..m : (s \o e)[l + j] = e[j]
    <3>1. /\ s \o e \in Seq(S) /\ Len(s \o e) = Len(s) + Len(e)
          /\ \A k \in 1 .. Len(s) + Len(e) :
                (s \o e)[k] = IF k <= Len(s) THEN s[k] ELSE e[k - Len(s)]
      BY <2>4, ConcatProperties
    <3>2. \A j \in 1..m : l + j \in 1 .. l + m /\ ~(l + j <= l) /\ (l + j) - l = j
      OBVIOUS
    <3>3. Len(s) = l /\ Len(e) = m
      BY <1>6, <2>3
    <3>4. /\ s \o e \in Seq(S) /\ Len(s \o e) = l + m
          /\ \A k \in 1 .. l + m : (s \o e)[k] = IF k <= l THEN s[k] ELSE e[k - l]
      BY <3>1, <3>3
    <3>5. \A k \in 1..l : k \in 1 .. l + m /\ k <= l
      OBVIOUS
    <3>6. ASSUME NEW j \in 1..m
          PROVE  (s \o e)[l + j] = e[j]
      BY <3>2, <3>4
    <3> QED BY <3>4, <3>5, <3>6
  <2> QED BY <2>1, <2>2, <2>3, <2>5
<1>8. ((n + 1) - (x + 1)) * m = y
  <2>1. (n + 1) - (x + 1) = n - x
    BY <1>3
  <2> QED BY <1>4, <2>1
<1>9. ASSUME NEW k \in 1 .. Len(iq'), NEW c \in 1..2
      PROVE  iq'[k][c] = Convolution(phases', y + (k - 1), c)
  <2>1. CASE k \in 1..l
    <3>1. iq'[k][c] = iq[k][c]
      BY <1>7, <2>1
    <3>2. iq[k][c] = Convolution(phases, y + (k - 1), c)
      <4>1. (Len(phases) - x) * Interpolation + k - 1 = y + (k - 1)
        BY <1>2, <1>4
      <4> QED BY <1>2, <2>1, <4>1 DEF Complete
    <3>3. PICK a \in Int, t \in Int : a = (k - 1) - z /\ t = y + (k - 1)
      BY <2>1
    <3>4. a \notin Slots
      <4>1. k - 1 < z
        BY <1>4, <2>1
      <4>2. a < 0
        BY <3>3, <4>1
      <4> QED BY <4>2 DEF Slots
    <3>5. t = Len(phases) * Interpolation + a
      <4>1. PICK h \in Int : h = n * m /\ h = y + z
        BY <1>2, <1>4
      <4>2. t = h + a
        BY <3>3, <4>1
      <4> QED BY <1>2, <4>1, <4>2
    <3>6. Convolution(Append(phases, p), t, c) = Convolution(phases, t, c)
      BY <1>3, <3>4, <3>5, BeforePulse
    <3> QED BY <1>1, <3>1, <3>2, <3>3, <3>6
  <2>2. CASE k \notin 1..l
    <3>1. PICK j \in 1..m : k = l + j
      <4>1. k \in 1 .. l + m
        BY <1>7
      <4>2. k - l \in 1..m /\ k = l + (k - l)
        BY <2>2, <4>1
      <4> QED BY <4>2
    <3>2. iq'[k][c] = Convolution(phases', n * m + (j - 1), c)
      <4>1. iq'[k] = e[j]
        BY <1>7, <3>1
      <4>2. Emitted(Added(p))[j][c] = Convolution(phases', n * m + (j - 1), c)
        BY <1>5
      <4> QED BY <1>6, <4>1, <4>2
    <3>3. n * m + (j - 1) = y + (k - 1)
      <4>1. PICK h \in Int : h = n * m /\ h = y + z
        BY <1>2, <1>4
      <4>2. k = z + j
        BY <1>4, <3>1
      <4>3. h + (j - 1) = y + (k - 1)
        BY <4>1, <4>2
      <4> QED BY <4>1, <4>3
    <3> QED BY <3>2, <3>3
  <2> QED BY <2>1, <2>2
<1>10. Complete'
  <2>1. x + 1 <= n + 1
    BY <1>2, <1>3 DEF Complete
  <2>2. \A k \in 1 .. Len(iq'), c \in 1..2 :
            iq'[k][c] = Convolution(phases', ((n + 1) - (x + 1)) * m + k - 1, c)
    <3>1. ASSUME NEW k \in 1 .. Len(iq')
          PROVE  ((n + 1) - (x + 1)) * m + k - 1 = y + (k - 1)
      BY <1>8
    <3> QED BY <1>9, <3>1
  <2>3. Len(iq') = (x + 1) * m
    BY <1>2, <1>4, <1>7
  <2> QED BY <1>2, <1>3, <2>1, <2>2, <2>3 DEF Complete
<1> QED BY <1>2, <1>7, <1>10

-----------------------------------------------------------------------------
(* The inductive invariant *)

\* What the output consists of.
Item == IF Modulated THEN [1..2 -> Int] ELSE IF data_type = "unmod_uint8" THEN Octet ELSE Seq(Octet)

Types ==
    /\ RingTypes
    /\ pc \in {"encode", "modulate", "write"}
    /\ data_type \in IQTypes \cup RawTypes \cup {"soapysdr"}
    /\ off \in Nat /\ written \in Seq(Item) /\ failed \in BOOLEAN
    /\ sent \in Seq(Seq(Octet) \ {<<>>}) /\ taken \in Seq(Nat) /\ lost \in Seq(BOOLEAN)
    /\ marks \in Seq([symbols : Nat, items : Nat])

\* How far a block in work has come.
Progress ==
    /\ Len(taken) = Len(lost) /\ Len(marks) = Len(taken) + 1
    /\ Len(sent) = IF pc = "encode" THEN Len(taken) ELSE Len(marks)
    /\ pc = "modulate" => Modulated /\ off = 0 /\ ~failed
    /\ IF ~Modulated THEN x = 0
       ELSE Len(sent) > 0 /\ pc # "modulate" => x = 4 * Len(Block)
    /\ pc = "write" => /\ off <= Size(Len(sent))
                       /\ data_type = "unmod_uint8" => off \in {0, Len(Block)} \/ failed
                       /\ data_type = "unmod_udp" /\ off < Len(Block) => off % Payload = 0

\* The phase of the last symbol.
LastPhase == sym = IF phases = <<>> THEN 0 ELSE phases[Len(phases)]

\* Finished blocks follow each other, and the one in work follows them.
Chain ==
    /\ marks[1] = [symbols |-> 0, items |-> 0]
    /\ \A b \in DOMAIN marks : marks[b].symbols <= Len(phases) /\ marks[b].items <= Len(written)
    /\ \A b \in DOMAIN taken :
          /\ marks[b + 1].symbols = marks[b].symbols + IF Modulated THEN 4 * Len(sent[b]) ELSE 0
          /\ marks[b + 1].items = marks[b].items + Items(taken[b])
          /\ taken[b] <= Size(b) /\ (~lost[b] => taken[b] = Size(b))
    /\ IF pc = "encode" THEN marks[Len(marks)] = Mark
       ELSE /\ marks[Len(marks)].symbols + x = Len(phases)
            /\ marks[Len(marks)].items + Items(off) = Len(written)

\* What the sink has got of each is right.
Filed(b, n) == IF Modulated THEN SamplesFiled(b, n) ELSE OctetsFiled(b, n)
AllFiled ==
    /\ \A b \in DOMAIN taken : Filed(b, taken[b])
    /\ pc # "encode" => Filed(Len(sent), off)

\* A preview stands before it, once.
PreviewOK ==
    /\ OnePreview
    /\ data_type \in {"unmod_udp", "soapysdr"} => ~stdout
    /\ data_type \notin {"unmod_udp", "soapysdr"} =>
          /\ ~once_printed => written = <<>>
          /\ shown = IF stdout /\ once_printed THEN <<0>> ELSE <<>>

OutInv ==
    /\ Types /\ RingOK /\ LastPhase /\ Progress /\ Chain
    /\ (Modulated => Turned) /\ AllFiled /\ PreviewOK

-----------------------------------------------------------------------------
(* What is written stays *)

LEMMA ItemsTyped ==
    ASSUME NEW n \in Nat
    PROVE  /\ Items(n) \in Nat
           /\ data_type # "unmod_udp" => Items(n) = n
           /\ data_type = "unmod_udp" => \A i \in 1..n : (i - 1) \div Payload + 1 \in 1 .. Items(n)
<1>1. PICK m \in Nat \ {0} : m = Payload
  BY SinkAssumption
<1>2. CASE data_type # "unmod_udp"
  BY <1>2 DEF Items
<1>3. CASE data_type = "unmod_udp"
  <2>1. PICK d \in Int, r \in 0 .. m - 1 : Items(n) = d /\ n + m - 1 = m * d + r
    <3>1. n + m - 1 \in Int
      BY <1>1
    <3>2. PICK u \in Int : u = n + m - 1
      BY <3>1
    <3>3. u \div m \in Int /\ u % m \in 0 .. m - 1 /\ u = m * (u \div m) + (u % m)
      BY DivMod
    <3> QED BY <1>1, <1>3, <3>2, <3>3 DEF Items
  <2>2. ASSUME NEW q \in Nat, m * q <= n - 1
        PROVE  q + 1 <= d
    <3>1. SUFFICES ASSUME q >= d
                   PROVE  FALSE
      BY <3>1
    <3>2. PICK e \in Nat : q = d + e
      <4>1. q - d \in Nat /\ q = d + (q - d)
        BY <3>1
      <4> QED BY <4>1
    <3>3. PICK y \in Int, z \in Nat : y = m * d /\ z = m * e /\ m * q = y + z
      <4>1. m * (d + e) = m * d + m * e /\ m * d \in Int /\ m * e \in Nat
        OBVIOUS
      <4> QED BY <3>2, <4>1
    <3>4. y + z <= n - 1 /\ n + m - 1 = y + r
      BY <2>1, <2>2, <3>3
    <3> QED BY <3>4
  <2>3. d \in Nat
    <3>1. CASE n = 0
      <4>1. d = 0
        <5>1. m - 1 = m * 0 + (m - 1) /\ m - 1 \in 0 .. m - 1 /\ m - 1 \in Int
          OBVIOUS
        <5>2. (m - 1) \div m = 0
          BY <5>1, DivModUnique
        <5>3. (0 + m) - 1 = m - 1 /\ n + m - 1 = m - 1
          BY <3>1
        <5> QED BY <1>1, <1>3, <2>1, <5>2, <5>3 DEF Items
      <4> QED BY <4>1
    <3>2. CASE n # 0
      <4>1. m * 0 <= n - 1
        BY <3>2
      <4>2. 0 + 1 <= d
        BY <2>2, <4>1
      <4> QED BY <4>2
    <3> QED BY <3>1, <3>2
  <2>4. ASSUME NEW i \in 1..n
        PROVE  (i - 1) \div m + 1 \in 1..d
    <3>1. PICK u \in Nat : u = i - 1
      OBVIOUS
    <3>2. u \div m \in Int /\ u % m \in 0 .. m - 1 /\ u = m * (u \div m) + (u % m)
      BY DivMod
    <3>3. PICK q \in Int, s \in 0 .. m - 1 : q = u \div m /\ u = m * q + s
      BY <3>2
    <3>4. q \in Nat
      BY <3>1, <3>3
    <3>5. m * q <= n - 1
      <4>1. PICK y \in Nat : y = m * q
        BY <3>4
      <4> QED BY <3>1, <3>3, <4>1
    <3>6. q + 1 <= d
      BY <2>2, <3>4, <3>5
    <3> QED BY <2>3, <3>1, <3>3, <3>4, <3>6
  <2> QED BY <1>1, <1>3, <2>1, <2>3, <2>4
<1> QED BY <1>2, <1>3

\* Storing a value in a type loses less than the precision of the type.
LEMMA Stored ==
    ASSUME NEW v \in Int, data_type \in IQTypes
    PROVE  Convert(data_type, v) \in Int /\ v - Decoded(data_type, Convert(data_type, v)) \in 0 .. Quantum(data_type) - 1
<1>1. CASE data_type = "uint8"
  <2>1. PICK u \in Int : u = v + 32768
    OBVIOUS
  <2>2. PICK m \in Nat \ {0} : m = 256
    OBVIOUS
  <2>3. u \div m \in Int /\ u % m \in 0 .. m - 1 /\ u = m * (u \div m) + (u % m)
    BY DivMod
  <2>4. PICK d \in Int, r \in 0 .. m - 1 : d = u \div m /\ u = m * d + r
    BY <2>3
  <2>5. Convert(data_type, v) = d
    BY <1>1, <2>1, <2>2, <2>4 DEF Convert, ToUint8
  <2>6. Decoded(data_type, d) = d * 256 - 32768 /\ Quantum(data_type) = 256
    BY <1>1 DEF Decoded, Quantum
  <2>7. v - Decoded(data_type, d) = r
    BY <2>1, <2>2, <2>4, <2>6
  <2> QED BY <2>2, <2>5, <2>6, <2>7
<1>2. CASE data_type = "int8"
  <2>1. PICK m \in Nat \ {0} : m = 256
    OBVIOUS
  <2>2. v \div m \in Int /\ v % m \in 0 .. m - 1 /\ v = m * (v \div m) + (v % m)
    BY DivMod
  <2>3. PICK d \in Int, r \in 0 .. m - 1 : d = v \div m /\ v = m * d + r
    BY <2>2
  <2>4. Convert(data_type, v) = d
    BY <1>2, <2>1, <2>3 DEF Convert, ToInt8
  <2>5. Decoded(data_type, d) = d * 256 /\ Quantum(data_type) = 256
    BY <1>2 DEF Decoded, Quantum
  <2>6. v - Decoded(data_type, d) = r
    BY <2>1, <2>3, <2>5
  <2> QED BY <2>1, <2>4, <2>5, <2>6
<1>3. CASE data_type = "int32"
  <2>1. PICK m \in Nat \ {0} : m = 65537
    OBVIOUS
  <2>2. PICK u \in Int : u = v * 65536 + v /\ u = m * v + 0
    BY <2>1
  <2>3. u \div m = v
    <3>1. 0 \in 0 .. m - 1
      OBVIOUS
    <3> QED BY <2>2, <3>1, DivModUnique
  <2>4. Convert(data_type, v) = u
    BY <1>3, <2>2 DEF Convert, ToInt32
  <2>5. Decoded(data_type, u) = v /\ Quantum(data_type) = 1
    BY <1>3, <2>1, <2>3 DEF Decoded, Quantum
  <2> QED BY <2>4, <2>5
<1>4. CASE data_type = "uint16"
  BY <1>4 DEF Convert, ToUint16, Decoded, Quantum
<1>5. CASE data_type = "float"
  BY <1>5 DEF Convert, ToFloat, Decoded, Quantum
<1>6. CASE data_type = "int16"
  BY <1>6 DEF Convert, Decoded, Quantum
<1> QED BY <1>1, <1>2, <1>3, <1>4, <1>5, <1>6 DEF IQTypes

LEMMA MarkTyped ==
    ASSUME Types, NEW b \in DOMAIN marks
    PROVE  marks[b].symbols \in Nat /\ marks[b].items \in Nat
<1>1. PICK S : S = [symbols : Nat, items : Nat]
  OBVIOUS
<1>2. marks \in Seq(S)
  BY <1>1 DEF Types
<1>3. marks[b] \in S
  BY <1>2
<1> QED BY <1>1, <1>3

LEMMA WrittenTyped ==
    ASSUME Types
    PROVE  Len(written) \in Nat /\ DOMAIN written = 1 .. Len(written)
<1>1. PICK S : S = Item
  OBVIOUS
<1>2. written \in Seq(S)
  BY <1>1 DEF Types
<1> QED BY <1>2

LEMMA LengthsTyped ==
    ASSUME Types
    PROVE  /\ Len(taken) \in Nat /\ DOMAIN taken = 1 .. Len(taken)
           /\ Len(marks) \in Nat /\ DOMAIN marks = 1 .. Len(marks)
           /\ Len(sent) \in Nat /\ DOMAIN sent = 1 .. Len(sent)
           /\ Len(lost) \in Nat /\ Len(phases) \in Nat /\ Len(iq) \in Nat
<1>1. Len(taken) \in Nat /\ DOMAIN taken = 1 .. Len(taken)
  BY DEF Types
<1>2. Len(marks) \in Nat /\ DOMAIN marks = 1 .. Len(marks)
  BY DEF Types
<1>3. Len(sent) \in Nat /\ DOMAIN sent = 1 .. Len(sent)
  BY DEF Types
<1>4. Len(lost) \in Nat /\ Len(phases) \in Nat /\ Len(iq) \in Nat
  BY DEF Types, RingTypes
<1> QED BY <1>1, <1>2, <1>3, <1>4

LEMMA SentTyped ==
    ASSUME Types, NEW b \in DOMAIN sent
    PROVE  sent[b] \in Seq(Octet) /\ Len(sent[b]) \in Nat \ {0}
<1>1. PICK S : S = Seq(Octet) \ {<<>>}
  OBVIOUS
<1>2. sent[b] \in S
  BY <1>1 DEF Types
<1>3. sent[b] \in Seq(Octet) /\ sent[b] # <<>>
  BY <1>1, <1>2
<1> QED BY <1>3

\* The output only grows, and so do the symbols.
Grows ==
    /\ Len(written) <= Len(written') /\ \A k \in 1 .. Len(written) : written'[k] = written[k]
    /\ data_type' = data_type
GrowsBySymbols == phases' = phases \/ \E p \in 0..3 : phases' = Append(phases, p)

LEMMA SamplesStay ==
    ASSUME Types, Grows, GrowsBySymbols, Modulated, NEW b \in DOMAIN marks, NEW n \in Nat,
           SamplesFiled(b, n), marks'[b] = marks[b],
           marks[b].symbols * Interpolation + n <= Len(phases) * Interpolation,
           marks[b].items + n <= Len(written)
    PROVE  SamplesFiled(b, n)'
<1>1. PICK s \in Nat, o \in Nat : s = marks[b].symbols /\ o = marks[b].items
  BY MarkTyped
<1>2. PICK y \in Nat, z \in Nat, h \in Nat : /\ y = s * Interpolation /\ h = Len(phases)
                                             /\ z = h * Interpolation /\ y + n <= z
  <2>1. Len(phases) \in Nat
    BY DEF Types, RingTypes
  <2>2. PICK h \in Nat : h = Len(phases)
    BY <2>1
  <2>3. s * Interpolation \in Nat /\ h * Interpolation \in Nat
    BY ModulatorAssumption
  <2> QED BY <1>1, <2>2, <2>3
<1>3. ASSUME NEW i \in 1..n, NEW c \in 1..2
      PROVE  Convolution(phases', y + (i - 1), c) = Sample(y + (i - 1), c)
  <2>1. PICK t \in Int, a \in Int : t = y + (i - 1) /\ a = t - z
    BY <1>2
  <2>2. a \notin Slots /\ t = z + a
    <3>1. y + (i - 1) < z
      BY <1>2
    <3>2. a < 0 /\ t = z + a
      BY <2>1, <3>1
    <3> QED BY <3>2 DEF Slots
  <2>3. phases \in Seq(0..3) /\ t = Len(phases) * Interpolation + a
    BY <1>2, <2>2 DEF Types, RingTypes
  <2>4. ASSUME NEW p \in 0..3
        PROVE  Convolution(Append(phases, p), t, c) = Convolution(phases, t, c)
    BY <2>2, <2>3, BeforePulse
  <2>5. Convolution(phases', t, c) = Convolution(phases, t, c)
    <3>1. CASE phases' = phases
      BY <3>1
    <3>2. CASE \E p \in 0..3 : phases' = Append(phases, p)
      <4>1. PICK p \in 0..3 : phases' = Append(phases, p)
        BY <3>2
      <4> QED BY <2>4, <4>1
    <3> QED BY <3>1, <3>2 DEF GrowsBySymbols
  <2> QED BY <2>1, <2>5 DEF Sample
<1>4. ASSUME NEW i \in 1..n, NEW c \in 1..2
      PROVE  Convolution(phases', marks'[b].symbols * Interpolation + i - 1, c)
                 - Decoded(data_type, written'[marks'[b].items + i][c]) \in 0 .. Quantum(data_type) - 1
  <2>1. marks[b].symbols * Interpolation + i - 1 = y + (i - 1)
    BY <1>1, <1>2
  <2>2. Sample(y + (i - 1), c) - Decoded(data_type, written[o + i][c]) \in 0 .. Quantum(data_type) - 1
    BY <1>1, <2>1 DEF SamplesFiled
  <2>3. written'[o + i] = written[o + i]
    <3>1. PICK l \in Nat : l = Len(written) /\ o + n <= l
      BY <1>1, WrittenTyped
    <3>2. o + i \in 1 .. Len(written)
      BY <3>1
    <3> QED BY <3>2 DEF Grows
  <2> QED BY <1>1, <1>3, <2>1, <2>2, <2>3
<1>5. data_type' = data_type
  BY DEF Grows
<1>6. ASSUME NEW i \in 1..n, NEW c \in 1..2
      PROVE  (Sample(marks[b].symbols * Interpolation + i - 1, c)
                  - Decoded(data_type, written[marks[b].items + i][c]) \in 0 .. Quantum(data_type) - 1)'
  BY <1>4, <1>5 DEF Sample
<1> QED BY <1>6 DEF SamplesFiled

LEMMA OctetsStay ==
    ASSUME Types, Grows, ~Modulated, NEW b \in DOMAIN marks, NEW n \in Nat,
           OctetsFiled(b, n), marks'[b] = marks[b], sent'[b] = sent[b],
           marks[b].items + Items(n) <= Len(written)
    PROVE  OctetsFiled(b, n)'
<1>1. PICK o \in Nat, h \in Nat : o = marks[b].items /\ h = Len(written)
  <2>1. Len(written) \in Nat
    BY WrittenTyped
  <2> QED BY <2>1, MarkTyped
<1>2. CASE data_type = "unmod_uint8"
  <2>1. Items(n) = n /\ data_type' = "unmod_uint8"
    BY <1>2, ItemsTyped DEF Grows
  <2>2. ASSUME NEW i \in 1..n
        PROVE  written'[o + i] = sent'[b][i]
    <3>1. o + i \in 1..h
      BY <1>1, <2>1
    <3>2. written[o + i] = sent[b][i]
      BY <1>1, <1>2 DEF OctetsFiled
    <3> QED BY <1>1, <3>1, <3>2 DEF Grows
  <2> QED BY <1>1, <2>1, <2>2 DEF OctetsFiled
<1>3. CASE data_type = "unmod_udp"
  <2>1. ASSUME NEW i \in 1..n
        PROVE  written'[o + (i - 1) \div Payload + 1] = written[o + (i - 1) \div Payload + 1]
    <3>1. (i - 1) \div Payload + 1 \in 1 .. Items(n) /\ Items(n) \in Nat
      BY <1>3, ItemsTyped
    <3>2. PICK d \in Int : d = (i - 1) \div Payload
      <4>1. PICK u \in Int : u = i - 1
        OBVIOUS
      <4>2. u \div Payload \in Int
        BY SinkAssumption, DivMod
      <4> QED BY <4>1, <4>2
    <3>3. o + d + 1 \in 1..h
      BY <1>1, <3>1, <3>2
    <3> QED BY <1>1, <3>2, <3>3 DEF Grows
  <2>2. data_type' = "unmod_udp"
    BY <1>3 DEF Grows
  <2> QED BY <1>1, <1>3, <2>1, <2>2 DEF OctetsFiled
<1> QED BY <1>2, <1>3 DEF Modulated, RawTypes

LEMMA FiledStays ==
    ASSUME Types, Chain, Len(marks) = Len(taken) + 1, Len(taken) <= Len(sent), Grows, GrowsBySymbols,
           NEW b \in DOMAIN taken, Filed(b, taken[b]),
           marks'[b] = marks[b], sent'[b] = sent[b], taken'[b] = taken[b]
    PROVE  Filed(b, taken[b])'
<1>1. PICK n \in Nat : n = taken[b]
  BY DEF Types
<1>2. b \in DOMAIN marks /\ b + 1 \in DOMAIN marks
  <2>1. PICK l \in Nat : l = Len(taken) /\ b \in 1..l /\ Len(marks) = l + 1
    BY LengthsTyped
  <2>2. DOMAIN marks = 1 .. l + 1
    BY <2>1, LengthsTyped
  <2> QED BY <2>1, <2>2
<1>3. /\ marks[b + 1].symbols = marks[b].symbols + IF Modulated THEN 4 * Len(sent[b]) ELSE 0
      /\ marks[b + 1].items = marks[b].items + Items(n) /\ n <= Size(b)
      /\ marks[b + 1].symbols <= Len(phases) /\ marks[b + 1].items <= Len(written)
  BY <1>1, <1>2 DEF Chain
<1>4. data_type' = data_type
  BY DEF Grows
<1>5. CASE Modulated
  <2>1. Items(n) = n
    BY <1>5, ItemsTyped DEF Modulated, RawTypes
  <2>2. marks[b].symbols * Interpolation + n <= Len(phases) * Interpolation
    <3>1. PICK s \in Nat, k \in Nat, h \in Nat, m \in Nat : /\ s = marks[b].symbols /\ k = 4 * Len(sent[b])
                                                            /\ h = Len(phases) /\ m = Interpolation
      <4>1. Len(sent[b]) \in Nat
        <5>1. b \in DOMAIN sent
          BY LengthsTyped
        <5> QED BY <5>1, SentTyped
      <4>2. PICK e \in Nat : e = Len(sent[b])
        BY <4>1
      <4>3. Len(phases) \in Nat /\ 4 * e \in Nat
        BY DEF Types, RingTypes
      <4> QED BY <1>2, <4>2, <4>3, MarkTyped, ModulatorAssumption
    <3>2. s + k <= h /\ n <= k * m
      BY <1>3, <1>5, <3>1 DEF Size
    <3>3. PICK d \in Nat : h = (s + k) + d
      <4>1. h - (s + k) \in Nat /\ h = (s + k) + (h - (s + k))
        BY <3>2
      <4> QED BY <4>1
    <3>4. h * m = s * m + k * m + d * m /\ s * m \in Nat /\ k * m \in Nat /\ d * m \in Nat
      BY <3>3
    <3>5. PICK y \in Nat, z \in Nat, w \in Nat : /\ y = s * m /\ z = k * m /\ w = d * m
                                                 /\ h * m = y + z + w
      BY <3>4
    <3>6. y + n <= y + z + w
      BY <3>2, <3>5
    <3> QED BY <3>1, <3>5, <3>6
  <2>3. marks[b].items + n <= Len(written)
    BY <1>3, <2>1
  <2>4. SamplesFiled(b, n)
    BY <1>1, <1>5 DEF Filed
  <2>5. SamplesFiled(b, n)'
    BY <1>2, <1>5, <2>2, <2>3, <2>4, SamplesStay
  <2> QED BY <1>1, <1>4, <1>5, <2>5 DEF Filed, Modulated, SamplesFiled
<1>6. CASE ~Modulated
  <2>1. OctetsFiled(b, n)
    BY <1>1, <1>6 DEF Filed
  <2>2. OctetsFiled(b, n)'
    BY <1>2, <1>3, <1>6, <2>1, OctetsStay
  <2> QED BY <1>1, <1>4, <1>6, <2>2 DEF Filed, Modulated, OctetsFiled
<1> QED BY <1>5, <1>6

\* Any round of the sink's loop keeps the invariant that appends what it has dealt with.
LEMMA WriteKeeps ==
    ASSUME OutInv, pc = "write", Grows, written' \in Seq(Item), off' \in Nat, failed' \in BOOLEAN,
           UNCHANGED <<modVars, pc, sent, lost, taken, phases, marks, stdout>>,
           off' <= Size(Len(sent)),
           data_type = "unmod_uint8" => off' \in {0, Len(Block)} \/ failed',
           data_type = "unmod_udp" /\ off' < Len(Block) => off' % Payload = 0,
           marks[Len(marks)].items + Items(off') = Len(written'),
           Filed(Len(sent), off)', PreviewOK'
    PROVE  OutInv'
<1>1. data_type' = data_type
  BY DEF Grows
<1>2. Types'
  BY <1>1 DEF OutInv, Types, RingTypes, Item, Modulated, modVars
<1>3. RingOK' /\ LastPhase'
  BY DEF OutInv, RingOK, HoldsRest, NeverWraps, Complete, LastPhase, Age, modVars
<1>4. Progress'
  BY <1>1 DEF OutInv, Progress, Modulated, Block, Size, modVars
<1>5. Chain'
  <2>1. \A n : Items(n)' = Items(n)
    BY <1>1 DEF Items
  <2>2. /\ marks' = marks /\ phases' = phases /\ taken' = taken /\ lost' = lost /\ sent' = sent
        /\ x' = x /\ pc' = "write" /\ Modulated' = Modulated
    BY <1>1 DEF modVars, Modulated
  <2>3. \A b : Size(b)' = Size(b)
    BY <2>2 DEF Size
  <2>4. \A b \in DOMAIN marks : marks[b].items <= Len(written')
    <3>1. ASSUME NEW b \in DOMAIN marks
          PROVE  marks[b].items <= Len(written')
      <4>1. marks[b].items <= Len(written) /\ marks[b].items \in Nat
        BY MarkTyped DEF OutInv, Chain
      <4>2. Len(written) \in Nat /\ Len(written') \in Nat
        BY <1>2, WrittenTyped DEF OutInv, Types
      <4> QED BY <4>1, <4>2 DEF Grows
    <3> QED BY <3>1
  <2>5. marks[Len(marks)].items + Items(off') = Len(written')
    OBVIOUS
  <2> QED BY <2>1, <2>2, <2>3, <2>4, <2>5 DEF OutInv, Chain
<1>6. (Modulated => Turned)'
  BY <1>1 DEF OutInv, Turned, Modulated, modVars
<1>7. AllFiled'
  <2>1. ASSUME NEW b \in DOMAIN taken'
        PROVE  Filed(b, taken[b])'
    <3>1. Len(marks) = Len(taken) + 1 /\ Len(taken) <= Len(sent)
      BY DEF OutInv, Progress, Types
    <3>2. b \in DOMAIN taken /\ Filed(b, taken[b])
      BY DEF OutInv, AllFiled
    <3> QED BY <3>1, <3>2, FiledStays DEF OutInv, GrowsBySymbols
  <2> QED BY <2>1 DEF AllFiled
<1> QED BY <1>2, <1>3, <1>4, <1>5, <1>6, <1>7 DEF OutInv

\* The block in work.
LEMMA InWork ==
    ASSUME OutInv, pc # "encode", NEW l, l = Len(sent)
    PROVE  /\ l \in DOMAIN sent /\ l \in DOMAIN marks /\ l = Len(marks) /\ l = Len(taken) + 1
           /\ Block = sent[l] /\ Block \in Seq(Octet) /\ Len(Block) \in Nat \ {0}
           /\ marks[l].items + Items(off) = Len(written) /\ marks[l].symbols + x = Len(phases)
           /\ Filed(l, off)
           /\ Modulated /\ pc = "write" => x = 4 * Len(Block) /\ Size(l) = Len(iq)
           /\ ~Modulated => Size(l) = Len(Block)
<1>1. l = Len(marks) /\ Len(marks) = Len(taken) + 1
  BY DEF OutInv, Progress
<1>2. l \in DOMAIN sent /\ l \in DOMAIN marks
  <2>1. l \in Nat /\ l # 0
    BY <1>1, LengthsTyped DEF OutInv
  <2> QED BY <1>1, <2>1, LengthsTyped DEF OutInv
<1>3. Block = sent[l] /\ Block \in Seq(Octet) /\ Len(Block) \in Nat \ {0}
  BY <1>2, SentTyped DEF Block, OutInv
<1>4. marks[l].items + Items(off) = Len(written) /\ marks[l].symbols + x = Len(phases)
  BY <1>1 DEF OutInv, Chain
<1>5. Filed(l, off)
  BY DEF OutInv, AllFiled
<1>6. ASSUME Modulated, pc = "write"
      PROVE  x = 4 * Len(Block) /\ Size(l) = Len(iq)
  <2>1. l > 0
    BY <1>1, LengthsTyped DEF OutInv
  <2>2. x = 4 * Len(Block)
    BY <1>6, <2>1 DEF OutInv, Progress
  <2>3. Len(iq) = x * Interpolation
    BY DEF OutInv, RingOK, Complete
  <2> QED BY <1>3, <1>6, <2>2, <2>3 DEF Size
<1>7. ~Modulated => Size(l) = Len(Block)
  BY <1>3 DEF Size
<1> QED BY <1>1, <1>2, <1>3, <1>4, <1>5, <1>6, <1>7

\* Samples, stored to the precision of the type.
LEMMA SamplesPiece ==
    ASSUME OutInv, pc = "write", Modulated, NEW n \in Nat, off + n <= Len(iq),
           NEW e \in Seq([1..2 -> Int]), Len(e) = n,
           \A j \in 1..n, c \in 1..2 :
               iq[off + j][c] - Decoded(data_type, e[j][c]) \in 0 .. Quantum(data_type) - 1,
           written' = written \o e, off' = off + n,
           UNCHANGED <<modVars, pc, sent, lost, taken, phases, marks, stdout, data_type, failed>>,
           PreviewOK'
    PROVE  OutInv'
<1>1. PICK l : l = Len(sent)
  OBVIOUS
<1>2. /\ l \in DOMAIN marks /\ l = Len(marks) /\ marks[l].items + Items(off) = Len(written)
      /\ marks[l].symbols + x = Len(phases) /\ Filed(l, off) /\ Size(l) = Len(iq)
  BY <1>1, InWork
<1>3. \A k \in Nat : Items(k) = k
  BY ItemsTyped DEF Modulated, RawTypes
<1>4. PICK o \in Nat, f \in Nat, h \in Nat, s \in Nat :
          /\ o = marks[l].items /\ f = off /\ h = Len(written) /\ s = marks[l].symbols
          /\ o + f = h
  <2>1. off \in Nat
    BY DEF OutInv, Types
  <2> QED BY <1>2, <1>3, <2>1, MarkTyped, WrittenTyped DEF OutInv
<1>14. o + f = h
  BY <1>4
<1>5. PICK S : S = [1..2 -> Int]
  OBVIOUS
<1>6. written \in Seq(S) /\ Item = S
  BY <1>5 DEF OutInv, Types, Item
<1>7. /\ written' \in Seq(S) /\ Len(written') = h + n
      /\ \A k \in 1..h : written'[k] = written[k]
      /\ \A j \in 1..n : written'[h + j] = e[j]
  <2>1. e \in Seq(S)
    BY <1>5
  <2>2. /\ written \o e \in Seq(S) /\ Len(written \o e) = Len(written) + Len(e)
        /\ \A k \in 1 .. Len(written) + Len(e) :
              (written \o e)[k] = IF k <= Len(written) THEN written[k] ELSE e[k - Len(written)]
    BY <1>6, <2>1, ConcatProperties
  <2>3. \A j \in 1..n : h + j \in 1 .. h + n /\ ~(h + j <= h) /\ (h + j) - h = j
    OBVIOUS
  <2>4. Len(written) = h
    BY <1>4
  <2>5. /\ written' \in Seq(S) /\ Len(written') = h + n
        /\ \A k \in 1 .. h + n : written'[k] = IF k <= h THEN written[k] ELSE e[k - h]
    BY <2>2, <2>4
  <2>6. \A k \in 1..h : k \in 1 .. h + n /\ k <= h
    OBVIOUS
  <2> QED BY <2>3, <2>5, <2>6
<1>8. Grows
  BY <1>4, <1>7 DEF Grows
<1>9. ASSUME NEW i \in 1 .. f + n, NEW c \in 1..2
      PROVE  Sample(marks[l].symbols * Interpolation + i - 1, c)
                 - Decoded(data_type, written'[marks[l].items + i][c]) \in 0 .. Quantum(data_type) - 1
  <2>1. CASE i \in 1..f
    <3>1. SamplesFiled(l, f)
      BY <1>2, <1>4 DEF Filed
    <3>2. Sample(marks[l].symbols * Interpolation + i - 1, c)
              - Decoded(data_type, written[marks[l].items + i][c]) \in 0 .. Quantum(data_type) - 1
      BY <2>1, <3>1 DEF SamplesFiled
    <3>3. o + i \in 1..h
      BY <1>14, <2>1
    <3> QED BY <1>4, <1>7, <3>2, <3>3
  <2>2. CASE i \notin 1..f
    <3>1. PICK j \in 1..n : i = f + j
      <4>1. i > f /\ i <= f + n
        BY <2>2
      <4>2. i - f \in 1..n /\ i = f + (i - f)
        BY <4>1
      <4> QED BY <4>2
    <3>2. o + i = h + j
      BY <1>14, <3>1
    <3>3. written'[o + i] = e[j]
      BY <1>7, <3>2
    <3>4. f + j \in 1 .. Len(iq)
      <4>1. PICK g \in Nat : g = Len(iq) /\ f + n <= g
        BY <1>4, LengthsTyped DEF OutInv
      <4>2. j \in Nat /\ 1 <= j /\ j <= n
        BY <3>1
      <4>3. f + j <= f + n
        BY <4>2
      <4>4. f + j <= g /\ 1 <= f + j
        BY <4>1, <4>2, <4>3
      <4> QED BY <4>1, <4>4
    <3>5. Len(phases) - x = s
      <4>1. x \in Nat
        BY DEF OutInv, Types, RingTypes
      <4>2. PICK k \in Nat : k = x
        BY <4>1
      <4>3. s + k = Len(phases)
        BY <1>2, <1>4, <4>2
      <4>4. (s + k) - k = s
        OBVIOUS
      <4> QED BY <4>2, <4>3, <4>4
    <3>6. iq[f + j][c] = Sample(s * Interpolation + (f + j) - 1, c)
      BY <3>4, <3>5 DEF OutInv, RingOK, Complete, Sample
    <3> QED BY <1>4, <3>1, <3>3, <3>6
  <2> QED BY <2>1, <2>2
<1>10. Filed(Len(sent), off)'
  <2>1. SamplesFiled(l, f + n)'
    BY <1>9 DEF SamplesFiled, Sample
  <2>2. Modulated'
    BY DEF Modulated
  <2>3. Len(sent') = l /\ off' = f + n
    BY <1>1, <1>4
  <2>4. SamplesFiled(Len(sent), off)'
    BY <2>1, <2>3 DEF SamplesFiled
  <2> QED BY <2>2, <2>4 DEF Filed
<1>11. /\ off' \in Nat /\ off' <= Size(Len(sent))
       /\ marks[Len(marks)].items + Items(off') = Len(written')
  <2>1. f + n \in Nat /\ o + (f + n) = h + n
    BY <1>14
  <2> QED BY <1>1, <1>2, <1>3, <1>4, <1>7, <2>1
<1>12. data_type # "unmod_uint8" /\ data_type # "unmod_udp"
  BY DEF Modulated, RawTypes
<1>13. written' \in Seq(Item)
  BY <1>6, <1>7
<1>15. failed' \in BOOLEAN
  BY DEF OutInv, Types
<1> QED BY <1>8, <1>10, <1>11, <1>12, <1>13, <1>15, WriteKeeps

\* The first piece of all is the one that is shown.
LEMMA Previewed ==
    ASSUME OutInv, Preview, UNCHANGED <<data_type, stdout>>, data_type \notin {"unmod_udp", "soapysdr"}
    PROVE  PreviewOK'
<1>1. once_printed' = TRUE
  BY DEF Preview
<1>2. shown' = IF stdout THEN <<0>> ELSE <<>>
  <2>1. CASE ~once_printed
    <3>1. written = <<>> /\ shown = <<>>
      BY <2>1 DEF OutInv, PreviewOK
    <3>2. Len(written) = 0
      BY <3>1
    <3> QED BY <2>1, <3>1, <3>2 DEF Preview
  <2>2. CASE once_printed
    BY <2>2 DEF OutInv, PreviewOK, Preview
  <2> QED BY <2>1, <2>2
<1> QED BY <1>1, <1>2 DEF PreviewOK, OnePreview

LEMMA NoPreview ==
    ASSUME OutInv, UNCHANGED <<data_type, stdout, shown>>, data_type \in {"unmod_udp", "soapysdr"}
    PROVE  PreviewOK'
BY DEF OutInv, PreviewOK, OnePreview

LEMMA WriteIQKeeps ==
    ASSUME OutInv, pc = "write", WriteIQ(iq),
           UNCHANGED <<modVars, pc, sent, lost, taken, phases, marks>>
    PROVE  OutInv'
<1>1. Modulated /\ data_type \in IQTypes /\ data_type \notin {"unmod_udp", "soapysdr"}
  BY DEF WriteIQ, IQTypes, RawTypes, Modulated
<1>2. PICK f \in Nat, g \in Nat, n \in Nat : f = off /\ g = Len(iq) /\ n = Least(Room, g - f) /\ n # 0 /\ f + n <= g
  <2>1. off \in Nat /\ Len(iq) \in Nat /\ off < Len(iq)
    BY LengthsTyped DEF OutInv, Types, WriteIQ
  <2>2. PICK f \in Nat, g \in Nat : f = off /\ g = Len(iq) /\ f < g
    BY <2>1
  <2>3. Least(Room, g - f) \in Nat /\ Least(Room, g - f) # 0 /\ f + Least(Room, g - f) <= g
    BY <2>2, SinkAssumption DEF Least
  <2> QED BY <2>2, <2>3
<1>3. PICK e : e = [i \in 1..n |-> [c \in 1..2 |-> Convert(data_type, iq[off + i][c])]]
  OBVIOUS
<1>4. written' = written \o e /\ off' = off + n
  BY <1>2, <1>3 DEF WriteIQ
<1>5. ASSUME NEW j \in 1..n, NEW c \in 1..2
      PROVE  /\ Convert(data_type, iq[off + j][c]) \in Int
             /\ iq[off + j][c] - Decoded(data_type, Convert(data_type, iq[off + j][c]))
                    \in 0 .. Quantum(data_type) - 1
  <2>1. PICK k \in 1 .. Len(iq) : k = off + j
    <3>1. f + j \in 1..g
      BY <1>2
    <3> QED BY <1>2, <3>1
  <2>2. PICK S : S = [1..2 -> Int]
    OBVIOUS
  <2>3. iq[k] \in S
    BY <2>2 DEF OutInv, Types, RingTypes
  <2>4. PICK v \in Int : v = iq[off + j][c]
    BY <2>1, <2>2, <2>3
  <2> QED BY <1>1, <2>4, Stored
<1>6. e \in Seq([1..2 -> Int]) /\ Len(e) = n
  <2>1. \A j \in 1..n : [c \in 1..2 |-> Convert(data_type, iq[off + j][c])] \in [1..2 -> Int]
    BY <1>5
  <2>2. e \in [1..n -> [1..2 -> Int]]
    BY <1>3, <2>1
  <2>3. PICK d \in [1..n -> [1..2 -> Int]] : d = e
    BY <2>2
  <2>4. d \in Seq([1..2 -> Int]) /\ Len(d) = n
    OBVIOUS
  <2> QED BY <2>3, <2>4
<1>7. \A j \in 1..n, c \in 1..2 :
          iq[off + j][c] - Decoded(data_type, e[j][c]) \in 0 .. Quantum(data_type) - 1
  <2>1. \A j \in 1..n, c \in 1..2 : e[j][c] = Convert(data_type, iq[off + j][c])
    BY <1>3
  <2> QED BY <1>5, <2>1
<1>8. written' # <<>>
  <2>1. PICK S : S = [1..2 -> Int]
    OBVIOUS
  <2>2. written \in Seq(S) /\ e \in Seq(S)
    BY <1>1, <1>6, <2>1 DEF OutInv, Types, Item
  <2>3. Len(written \o e) = Len(written) + n /\ Len(written) \in Nat
    <3>1. Len(written \o e) = Len(written) + Len(e)
      BY <2>2, ConcatProperties
    <3> QED BY <1>6, <2>2, <3>1
  <2>4. Len(written') # 0
    BY <1>2, <1>4, <2>3
  <2> QED BY <2>4
<1>9. PreviewOK'
  BY <1>1, Previewed DEF WriteIQ
<1>10. off + n <= Len(iq)
  BY <1>2
<1> QED BY <1>1, <1>4, <1>6, <1>7, <1>9, <1>10, SamplesPiece DEF WriteIQ

LEMMA DeviceTakesKeeps ==
    ASSUME OutInv, pc = "write", DeviceTakes(iq),
           UNCHANGED <<modVars, pc, sent, lost, taken, phases, marks>>
    PROVE  OutInv'
<1>1. Modulated /\ data_type = "soapysdr"
  BY DEF DeviceTakes, RawTypes, Modulated
<1>2. PICK t \in Takes : LET r == Least(t, Len(iq) - off)
                         IN  written' = written \o SubSeq(iq, off + 1, off + r) /\ off' = off + r
  BY DEF DeviceTakes
<1>3. PICK f \in Nat, g \in Nat, n \in Nat : f = off /\ g = Len(iq) /\ n = Least(t, g - f) /\ n # 0 /\ f + n <= g
  <2>1. off \in Nat /\ Len(iq) \in Nat /\ off < Len(iq)
    BY LengthsTyped DEF OutInv, Types, DeviceTakes
  <2>2. PICK f \in Nat, g \in Nat : f = off /\ g = Len(iq) /\ f < g
    BY <2>1
  <2>3. Least(t, g - f) \in Nat /\ Least(t, g - f) # 0 /\ f + Least(t, g - f) <= g
    BY <2>2, SinkAssumption DEF Least
  <2> QED BY <2>2, <2>3
<1>4. PICK e : e = SubSeq(iq, f + 1, f + n)
  OBVIOUS
<1>5. written' = written \o e /\ off' = off + n
  BY <1>2, <1>3, <1>4
<1>6. e \in Seq([1..2 -> Int]) /\ Len(e) = n /\ \A j \in 1..n : e[j] = iq[f + j]
  <2>1. PICK S : S = [1..2 -> Int]
    OBVIOUS
  <2>2. PICK s \in Seq(S) : s = iq /\ Len(s) = g
    BY <1>3, <2>1 DEF OutInv, Types, RingTypes
  <2>3. \A i \in f + 1 .. f + n : s[i] \in S
    <3>1. ASSUME NEW i \in f + 1 .. f + n
          PROVE  i \in 1..g
      BY <1>3
    <3> QED BY <2>2, <3>1
  <2>4. SubSeq(s, f + 1, f + n) \in Seq(S) /\ Len(SubSeq(s, f + 1, f + n)) = n
    BY <1>3, <2>3, SubSeqProperties
  <2>5. \A j \in 1..n : SubSeq(s, f + 1, f + n)[j] = s[f + j]
    BY <1>3, <2>3, SubSeqProperties
  <2> QED BY <1>4, <2>1, <2>2, <2>4, <2>5
<1>7. \A j \in 1..n, c \in 1..2 :
          iq[off + j][c] - Decoded(data_type, e[j][c]) \in 0 .. Quantum(data_type) - 1
  <2>1. ASSUME NEW j \in 1..n, NEW c \in 1..2
        PROVE  iq[off + j][c] - Decoded(data_type, e[j][c]) \in 0 .. Quantum(data_type) - 1
    <3>1. PICK v \in Int : v = e[j][c] /\ v = iq[off + j][c]
      <4>1. PICK S : S = [1..2 -> Int]
        OBVIOUS
      <4>2. e[j] \in S
        BY <1>6, <4>1
      <4> QED BY <1>3, <1>6, <4>1, <4>2
    <3>2. Decoded(data_type, v) = v /\ Quantum(data_type) = 1
      BY <1>1 DEF Decoded, Quantum
    <3> QED BY <3>1, <3>2
  <2> QED BY <2>1
<1>8. PreviewOK'
  BY <1>1, NoPreview DEF DeviceTakes
<1>9. off + n <= Len(iq)
  BY <1>3
<1> QED BY <1>1, <1>5, <1>6, <1>7, <1>8, <1>9, SamplesPiece DEF DeviceTakes

\* Giving up changes nothing but the flag.
LEMMA FailsKeeps ==
    ASSUME OutInv, pc = "write", SendFails(Block) \/ DeviceFails(iq),
           UNCHANGED <<modVars, pc, sent, lost, taken, phases, marks>>
    PROVE  OutInv'
<1>1. /\ UNCHANGED <<data_type, stdout, off, written, shown>>
      /\ data_type \in {"unmod_udp", "soapysdr"}
  BY DEF SendFails, DeviceFails
<1>2. PreviewOK'
  BY <1>1, NoPreview
<1>3. Filed(Len(sent), off)'
  <2>1. PICK l \in Nat, f \in Nat : l = Len(sent) /\ f = off
    BY DEF OutInv, Types
  <2>2. Filed(l, f)
    BY <2>1, InWork
  <2>3. Filed(l, f)'
    BY <1>1, <2>2 DEF Filed, SamplesFiled, OctetsFiled, Sample, Modulated
  <2> QED BY <1>1, <2>1, <2>3 DEF Filed, SamplesFiled, OctetsFiled
<1>4. Grows /\ written' \in Seq(Item) /\ off' \in Nat
  <2>1. Len(written) <= Len(written)
    BY WrittenTyped DEF OutInv
  <2> QED BY <1>1, <2>1 DEF OutInv, Types, Grows
<1>5. /\ off' <= Size(Len(sent)) /\ (data_type = "unmod_uint8" => off' \in {0, Len(Block)} \/ failed')
      /\ (data_type = "unmod_udp" /\ off' < Len(Block) => off' % Payload = 0)
      /\ marks[Len(marks)].items + Items(off') = Len(written')
  BY <1>1 DEF OutInv, Progress, Chain
<1>6. failed' \in BOOLEAN
  BY DEF SendFails, DeviceFails
<1> QED BY <1>1, <1>2, <1>3, <1>4, <1>5, <1>6, WriteKeeps

\* An unmodulated block goes into the file, or the first n octets of it do.
LEMMA RawPiece ==
    ASSUME OutInv, pc = "write", off < Len(Block), ~failed, data_type = "unmod_uint8",
           UNCHANGED <<modVars, pc, sent, lost, taken, phases, marks, data_type, stdout>>,
           NEW n \in 0 .. Len(Block), NEW e \in Seq(Octet), Len(e) = n,
           \A j \in 1..n : e[j] = Block[j],
           written' = written \o e, off' = n, Preview, failed' \in BOOLEAN, n = Len(Block) \/ failed'
    PROVE  OutInv'
<1>1. ~Modulated /\ data_type' = data_type /\ Item = Octet
  BY DEF RawTypes, Modulated, Item
<1>2. PICK l : l = Len(sent)
  OBVIOUS
<1>3. /\ l \in DOMAIN marks /\ l = Len(marks) /\ marks[l].items + Items(off) = Len(written)
      /\ Block = sent[l] /\ Block \in Seq(Octet) /\ Len(Block) \in Nat \ {0} /\ Size(l) = Len(Block)
  BY <1>1, <1>2, InWork
<1>4. off = 0
  BY <1>1, <1>3 DEF OutInv, Progress
<1>5. \A k \in Nat : Items(k) = k
  BY <1>1, ItemsTyped
<1>6. PICK o \in Nat : o = marks[l].items /\ n \in Nat /\ Len(written) = o
  <2>1. marks[l].items \in Nat /\ Items(off) = 0
    BY <1>3, <1>4, <1>5, MarkTyped DEF OutInv
  <2> QED BY <1>3, <2>1
<1>7. /\ written' \in Seq(Octet) /\ Len(written') = o + n
      /\ \A k \in 1..o : written'[k] = written[k]
      /\ \A j \in 1..n : written'[o + j] = Block[j]
  <2>1. written \in Seq(Octet)
    BY <1>1 DEF OutInv, Types
  <2>2. /\ written \o e \in Seq(Octet) /\ Len(written \o e) = Len(written) + Len(e)
        /\ \A k \in 1 .. Len(written) + Len(e) :
              (written \o e)[k] = IF k <= Len(written) THEN written[k] ELSE e[k - Len(written)]
    BY <2>1, ConcatProperties
  <2>3. \A j \in 1..n : o + j \in 1 .. o + n /\ ~(o + j <= o) /\ (o + j) - o = j
    BY <1>6
  <2>4. /\ written' \in Seq(Octet) /\ Len(written') = o + n
        /\ \A k \in 1 .. o + n : written'[k] = IF k <= o THEN written[k] ELSE e[k - o]
    BY <1>6, <2>2
  <2>5. \A k \in 1..o : k \in 1 .. o + n /\ k <= o
    BY <1>6
  <2> QED BY <2>3, <2>4, <2>5
<1>8. Grows
  BY <1>1, <1>6, <1>7 DEF Grows
<1>9. Filed(Len(sent), off)'
  <2>1. OctetsFiled(l, n)'
    BY <1>1, <1>3, <1>6, <1>7 DEF OctetsFiled
  <2>2. ~Modulated'
    BY <1>1 DEF Modulated
  <2> QED BY <1>2, <2>1, <2>2 DEF Filed, OctetsFiled
<1>10. PreviewOK'
  BY Previewed
<1>11. /\ off' \in Nat /\ off' <= Size(Len(sent)) /\ (off' \in {0, Len(Block)} \/ failed')
       /\ marks[Len(marks)].items + Items(off') = Len(written')
  BY <1>2, <1>3, <1>5, <1>6, <1>7
<1>12. written' \in Seq(Item)
  BY <1>1, <1>7
<1> QED BY <1>8, <1>9, <1>10, <1>11, <1>12, WriteKeeps

LEMMA WriteRawKeeps ==
    ASSUME OutInv, pc = "write", WriteRaw(Block) \/ WriteRawShort(Block),
           UNCHANGED <<modVars, pc, sent, lost, taken, phases, marks>>
    PROVE  OutInv'
<1>1. /\ data_type = "unmod_uint8" /\ off < Len(Block) /\ ~failed
      /\ Preview /\ UNCHANGED <<data_type, stdout>>
  BY DEF WriteRaw, WriteRawShort
<1>2. Block \in Seq(Octet) /\ Len(Block) \in Nat
  <2>1. ~Modulated
    BY <1>1 DEF RawTypes, Modulated
  <2> QED BY <2>1, InWork
<1>3. CASE WriteRaw(Block)
  <2>1. written' = written \o Block /\ off' = Len(Block) /\ failed' \in BOOLEAN
    BY <1>3 DEF WriteRaw, OutInv, Types
  <2>2. Len(Block) \in 0 .. Len(Block)
    BY <1>2
  <2> QED BY <1>1, <1>2, <2>1, <2>2, RawPiece
<1>4. CASE WriteRawShort(Block)
  <2>1. PICK n \in 0 .. Len(Block) - 1 : written' = written \o SubSeq(Block, 1, n) /\ off' = n
    BY <1>4 DEF WriteRawShort
  <2>2. PICK e \in Seq(Octet) : e = SubSeq(Block, 1, n) /\ Len(e) = n /\ \A j \in 1..n : e[j] = Block[j]
    <3>1. \A j \in 1..n : Block[j] \in Octet
      <4>1. \A j \in 1..n : j \in 1 .. Len(Block)
        BY <1>2
      <4> QED BY <1>2, <4>1
    <3>2. SubSeq(Block, 1, n) \in Seq(Octet) /\ Len(SubSeq(Block, 1, n)) = n
      BY <1>2, <3>1, SubSeqProperties
    <3>3. \A j \in 1..n : SubSeq(Block, 1, n)[j] = Block[j]
      BY <1>2, <3>1, SubSeqProperties
    <3> QED BY <3>2, <3>3
  <2>3. n \in 0 .. Len(Block) /\ failed' = TRUE
    BY <1>2, <1>4 DEF WriteRawShort
  <2> QED BY <1>1, <2>1, <2>2, <2>3, RawPiece
<1> QED BY <1>3, <1>4

\* Where the next datagram starts, and where it ends.
LEMMA NextDatagram ==
    ASSUME data_type = "unmod_udp", NEW f \in Nat, f % Payload = 0, NEW n \in 1 .. Payload
    PROVE  /\ Items(f) \in Nat /\ Items(f + n) = Items(f) + 1
           /\ (n = Payload => (f + n) % Payload = 0)
           /\ \A j \in 1..n : (f + j - 1) \div Payload = Items(f) /\ (f + j - 1) % Payload = j - 1
<1>1. PICK m \in Nat \ {0} : m = Payload
  BY SinkAssumption
<1>2. PICK k \in Int : f = m * k
  <2>1. f \in Int
    OBVIOUS
  <2>2. f \div m \in Int /\ f = m * (f \div m) + (f % m)
    BY <2>1, DivMod, Zenon
  <2> QED BY <1>1, <2>2
<1>3. ASSUME NEW j \in 1..m
      PROVE  (f + j - 1) \div m = k /\ (f + j - 1) % m = j - 1
  <2>1. PICK a \in Int, r \in 0 .. m - 1 : a = f + j - 1 /\ r = j - 1 /\ a = m * k + r
    BY <1>2
  <2>2. a = m * k + r
    BY <2>1
  <2>3. a \div m = k /\ a % m = r
    BY <2>2, DivModOf
  <2> QED BY <2>1, <2>3
<1>4. Items(f) = k
  <2>1. (f + m - 1) \div m = k
    BY <1>3
  <2> QED BY <1>1, <2>1 DEF Items
<1>5. Items(f + n) = k + 1
  <2>1. PICK q \in Int, y \in Int : q = k + 1 /\ y = m * k /\ m * q = y + m
    OBVIOUS
  <2>2. PICK a \in Int, r \in 0 .. m - 1 : a = (f + n) + m - 1 /\ r = n - 1 /\ a = m * q + r
    BY <1>1, <1>2, <2>1
  <2>3. a \div m = q
    BY <2>2, DivModOf
  <2> QED BY <1>1, <2>1, <2>2, <2>3 DEF Items
<1>6. n = m => (f + n) % m = 0
  <2>1. ASSUME n = m
        PROVE  (f + n) % m = 0
    <3>1. PICK q \in Int, a \in Int, r \in 0 .. m - 1 : a = f + n /\ r = 0 /\ a = m * q + r
      <4>1. k + 1 \in Int /\ f + n = m * (k + 1) + 0 /\ f + n \in Int /\ 0 \in 0 .. m - 1
        BY <1>2, <2>1
      <4> QED BY <4>1
    <3>2. a = m * q + r
      BY <3>1
    <3>3. a % m = r
      BY <3>2, DivModOf
    <3> QED BY <3>1, <3>3
  <2> QED BY <2>1
<1>7. Items(f) \in Nat
  BY ItemsTyped
<1>8. \A j \in 1..n : j \in 1..m
  BY <1>1
<1> QED BY <1>1, <1>3, <1>4, <1>5, <1>6, <1>7, <1>8

LEMMA SendDatagramKeeps ==
    ASSUME OutInv, pc = "write", SendDatagram(Block),
           UNCHANGED <<modVars, pc, sent, lost, taken, phases, marks>>
    PROVE  OutInv'
<1>1. ~Modulated /\ data_type = "unmod_udp" /\ data_type' = data_type /\ Item = Seq(Octet)
  BY DEF SendDatagram, RawTypes, Modulated, Item
<1>2. PICK l : l = Len(sent)
  OBVIOUS
<1>3. /\ l \in DOMAIN marks /\ l = Len(marks) /\ marks[l].items + Items(off) = Len(written)
      /\ Block = sent[l] /\ Block \in Seq(Octet) /\ Len(Block) \in Nat \ {0} /\ Size(l) = Len(Block)
      /\ Filed(l, off)
  BY <1>1, <1>2, InWork
<1>4. PICK f \in Nat, g \in Nat, n \in Nat \ {0} :
          /\ f = off /\ g = Len(Block) /\ n = Least(Payload, g - f)
          /\ f + n <= g /\ n <= Payload /\ (f + n < g => n = Payload)
  <2>1. off \in Nat /\ off < Len(Block)
    BY DEF OutInv, Types, SendDatagram
  <2>2. PICK f \in Nat, g \in Nat : f = off /\ g = Len(Block) /\ f < g
    BY <1>3, <2>1
  <2>3. PICK n \in Nat \ {0} : /\ n = Least(Payload, g - f) /\ f + n <= g /\ n <= Payload
                               /\ f + n < g => n = Payload
    BY <2>2, SinkAssumption DEF Least
  <2> QED BY <2>2, <2>3
<1>5. f % Payload = 0 /\ n \in 1 .. Payload
  <2>1. f % Payload = 0
    BY <1>1, <1>4 DEF OutInv, Progress, SendDatagram
  <2> QED BY <1>4, <2>1, SinkAssumption
<1>6. PICK o \in Nat, k \in Nat, h \in Nat :
          /\ o = marks[l].items /\ k = Items(f) /\ h = Len(written)
          /\ o + k = h
  <2>1. Items(f) \in Nat /\ marks[l].items \in Nat /\ Len(written) \in Nat
    BY <1>3, ItemsTyped, MarkTyped, WrittenTyped DEF OutInv
  <2>2. marks[l].items + Items(f) = Len(written)
    BY <1>3, <1>4
  <2> QED BY <2>1, <2>2
<1>15. o + k = h
  BY <1>6
<1>7. /\ Items(f + n) = k + 1 /\ (n = Payload => (f + n) % Payload = 0)
      /\ \A j \in 1..n : (f + j - 1) \div Payload = k /\ (f + j - 1) % Payload = j - 1
  <2>1. /\ Items(f + n) = Items(f) + 1 /\ (n = Payload => (f + n) % Payload = 0)
        /\ \A j \in 1..n : (f + j - 1) \div Payload = Items(f) /\ (f + j - 1) % Payload = j - 1
    BY <1>1, <1>5, NextDatagram
  <2> QED BY <1>6, <2>1
<1>8. PICK d \in Seq(Octet) : /\ d = SubSeq(Block, f + 1, f + n) /\ Len(d) = n
                              /\ \A j \in 1..n : d[j] = Block[f + j]
  <2>1. \A i \in f + 1 .. f + n : Block[i] \in Octet
    <3>1. ASSUME NEW i \in f + 1 .. f + n
          PROVE  i \in 1 .. Len(Block)
      BY <1>4
    <3> QED BY <1>3, <3>1
  <2>2. SubSeq(Block, f + 1, f + n) \in Seq(Octet) /\ Len(SubSeq(Block, f + 1, f + n)) = n
    BY <1>4, <2>1, SubSeqProperties
  <2>3. \A j \in 1..n : SubSeq(Block, f + 1, f + n)[j] = Block[f + j]
    BY <1>4, <2>1, SubSeqProperties
  <2> QED BY <2>2, <2>3
<1>9. /\ written' \in Seq(Item) /\ Len(written') = h + 1
      /\ \A i \in 1..h : written'[i] = written[i]
      /\ written'[h + 1] = d /\ off' = f + n
  <2>1. written' = Append(written, d) /\ off' = f + n
    BY <1>4, <1>8 DEF SendDatagram
  <2>2. PICK S : S = Seq(Octet)
    OBVIOUS
  <2>3. written \in Seq(S) /\ d \in S
    BY <1>1, <1>8, <2>2 DEF OutInv, Types
  <2>4. /\ Append(written, d) \in Seq(S) /\ Len(Append(written, d)) = h + 1
        /\ \A i \in 1..h : Append(written, d)[i] = written[i]
        /\ Append(written, d)[h + 1] = d
    BY <1>6, <2>3
  <2> QED BY <1>1, <2>1, <2>2, <2>4
<1>10. Grows
  <2>1. h <= h + 1
    OBVIOUS
  <2> QED BY <1>1, <1>6, <1>9, <2>1 DEF Grows
<1>11. ASSUME NEW i \in 1 .. f + n
       PROVE  LET datagram == written'[o + (i - 1) \div Payload + 1]
                  at == ((i - 1) % Payload) + 1
              IN  datagram[at] = Block[i] /\ Len(datagram) <= Payload
                  /\ (i = f + n => Len(datagram) = at)
  <2>1. CASE i \in 1..f
    <3>1. (i - 1) \div Payload + 1 \in 1..k
      BY <1>1, <1>6, <2>1, ItemsTyped
    <3>2. PICK q \in Int : q = (i - 1) \div Payload /\ q + 1 \in 1..k
      BY <3>1, SinkAssumption
    <3>3. o + q + 1 \in 1..h
      BY <1>15, <3>2
    <3>4. written'[o + (i - 1) \div Payload + 1] = written[o + (i - 1) \div Payload + 1]
      BY <1>9, <3>2, <3>3
    <3>5. OctetsFiled(l, f)
      BY <1>1, <1>3, <1>4 DEF Filed
    <3>6. i # f + n
      BY <2>1
    <3> QED BY <1>1, <1>3, <1>6, <2>1, <3>4, <3>5, <3>6 DEF OctetsFiled
  <2>2. CASE i \notin 1..f
    <3>1. PICK j \in 1..n : i = f + j
      <4>1. i > f /\ i <= f + n
        BY <2>2
      <4>2. i - f \in 1..n /\ i = f + (i - f)
        BY <4>1
      <4> QED BY <4>2
    <3>2. (i - 1) \div Payload = k /\ (i - 1) % Payload = j - 1
      <4>1. i - 1 = f + j - 1
        BY <3>1
      <4>2. (f + j - 1) \div Payload = k /\ (f + j - 1) % Payload = j - 1
        BY <1>7
      <4> QED BY <4>1, <4>2
    <3>3. o + k + 1 = h + 1
      BY <1>15
    <3>4. written'[o + (i - 1) \div Payload + 1] = d /\ ((i - 1) % Payload) + 1 = j
      BY <1>9, <3>2, <3>3
    <3>5. d[j] = Block[i] /\ Len(d) <= Payload /\ (i = f + n => Len(d) = j)
      <4>1. i = f + n => n = j
        BY <3>1
      <4>2. Len(d) = n /\ n <= Payload /\ d[j] = Block[i]
        BY <1>4, <1>8, <3>1
      <4> QED BY <4>1, <4>2
    <3> QED BY <3>4, <3>5
  <2> QED BY <2>1, <2>2
<1>12. Filed(Len(sent), off)'
  <2>1. OctetsFiled(l, f + n)'
    BY <1>1, <1>3, <1>6, <1>11 DEF OctetsFiled
  <2>2. ~Modulated'
    BY <1>1 DEF Modulated
  <2> QED BY <1>2, <1>9, <2>1, <2>2 DEF Filed, OctetsFiled
<1>13. /\ off' \in Nat /\ off' <= Size(Len(sent))
       /\ (off' < Len(Block) => off' % Payload = 0)
       /\ marks[Len(marks)].items + Items(off') = Len(written')
  <2>1. f + n \in Nat /\ o + (k + 1) = h + 1
    BY <1>15
  <2> QED BY <1>2, <1>3, <1>4, <1>6, <1>7, <1>9, <2>1
<1>14. PreviewOK'
  BY <1>1, NoPreview DEF SendDatagram
<1>16. failed' \in BOOLEAN
  BY DEF OutInv, Types, SendDatagram
<1> QED BY <1>1, <1>9, <1>10, <1>12, <1>13, <1>14, <1>16, WriteKeeps DEF SendDatagram

LEMMA WriteActionKeeps ==
    ASSUME OutInv, Write
    PROVE  OutInv'
<1>1. pc = "write" /\ UNCHANGED <<modVars, pc, sent, lost, taken, phases, marks>>
  BY DEF Write
<1>2. CASE WriteIQ(iq)
  BY <1>1, <1>2, WriteIQKeeps
<1>3. CASE WriteRaw(Block) \/ WriteRawShort(Block)
  BY <1>1, <1>3, WriteRawKeeps
<1>4. CASE SendDatagram(Block)
  BY <1>1, <1>4, SendDatagramKeeps
<1>5. CASE DeviceTakes(iq)
  BY <1>1, <1>5, DeviceTakesKeeps
<1>6. CASE SendFails(Block) \/ DeviceFails(iq)
  BY <1>1, <1>6, FailsKeeps
<1> QED BY <1>2, <1>3, <1>4, <1>5, <1>6 DEF Write

LEMMA NoItems == Items(0) = 0
<1>1. CASE data_type # "unmod_udp"
  BY <1>1, ItemsTyped
<1>2. CASE data_type = "unmod_udp"
  <2>1. PICK m \in Nat \ {0} : m = Payload
    BY SinkAssumption
  <2>2. (m * 0 + (m - 1)) \div m = 0
    <3>1. m - 1 \in 0 .. m - 1 /\ 0 \in Int
      OBVIOUS
    <3> QED BY <3>1, DivModOf
  <2>3. 0 + m - 1 = m * 0 + (m - 1)
    OBVIOUS
  <2> QED BY <1>2, <2>1, <2>2, <2>3 DEF Items
<1> QED BY <1>1, <1>2

\* A new block.
LEMMA EncodeKeeps ==
    ASSUME OutInv, Encode
    PROVE  OutInv'
<1>1. PICK b \in Seq(Octet) \ {<<>>} : sent' = Append(sent, b)
  BY OutputAssumption DEF Encode
<1>2. /\ pc = "encode" /\ pc' = IF Modulated THEN "modulate" ELSE "write"
      /\ x' = 0 /\ iq' = <<>> /\ off' = 0 /\ failed' = FALSE
      /\ UNCHANGED <<win, winx, sym, lost, taken, phases, marks>>
      /\ UNCHANGED <<data_type, stdout, once_printed, written, shown>>
  BY DEF Encode, ModStart, SinkStart
<1>3. PICK l \in Nat : l = Len(sent) /\ l = Len(taken) /\ Len(marks) = l + 1
  BY <1>2, LengthsTyped DEF OutInv, Progress
<1>4. /\ sent' \in Seq(Seq(Octet) \ {<<>>}) /\ Len(sent') = l + 1
      /\ \A k \in 1..l : sent'[k] = sent[k]
      /\ sent'[l + 1] = b /\ Block' = b
  <2>1. PICK S : S = Seq(Octet) \ {<<>>}
    OBVIOUS
  <2>2. sent \in Seq(S) /\ b \in S
    BY <2>1 DEF OutInv, Types
  <2>3. Len(sent) = l
    BY <1>3
  <2>4. /\ Append(sent, b) \in Seq(S) /\ Len(Append(sent, b)) = l + 1
        /\ \A k \in 1..l : Append(sent, b)[k] = sent[k]
        /\ Append(sent, b)[l + 1] = b
    BY <2>2, <2>3
  <2> QED BY <1>1, <2>1, <2>4 DEF Block
<1>5. Len(b) \in Nat /\ Modulated' = Modulated
  BY <1>2 DEF Modulated
<1>6. Types'
  <2>1. RingTypes'
    BY <1>2 DEF OutInv, Types, RingTypes
  <2>2. written' \in Seq(Item') /\ data_type' \in IQTypes \cup RawTypes \cup {"soapysdr"}
    BY <1>2, <1>5 DEF OutInv, Types, Item
  <2>3. pc' \in {"encode", "modulate", "write"} /\ failed' \in BOOLEAN /\ off' \in Nat
    BY <1>2
  <2>4. taken' \in Seq(Nat) /\ lost' \in Seq(BOOLEAN) /\ marks' \in Seq([symbols : Nat, items : Nat])
    BY <1>2 DEF OutInv, Types
  <2> QED BY <1>4, <2>1, <2>2, <2>3, <2>4 DEF Types
<1>7. RingOK' /\ LastPhase'
  <2>1. HoldsRest' /\ NeverWraps' /\ LastPhase'
    BY <1>2 DEF OutInv, RingOK, HoldsRest, NeverWraps, LastPhase, Age
  <2>2. Complete'
    <3>1. Interpolation \in Nat /\ Len(phases') \in Nat
      BY <1>6, ModulatorAssumption, LengthsTyped DEF Types, RingTypes
    <3>2. Len(iq') = 0 /\ 0 * Interpolation = 0
      BY <1>2, <3>1
    <3> QED BY <1>2, <3>1, <3>2 DEF Complete
  <2> QED BY <2>1, <2>2 DEF RingOK
<1>8. Progress'
  <2>1. /\ Len(taken') = Len(lost') /\ Len(marks') = Len(taken') + 1
        /\ Len(sent') = IF pc' = "encode" THEN Len(taken') ELSE Len(marks')
    BY <1>2, <1>3, <1>4 DEF OutInv, Progress
  <2>2. pc' = "modulate" => Modulated' /\ off' = 0 /\ ~failed'
    BY <1>2, <1>5
  <2>3. IF ~Modulated' THEN x' = 0 ELSE Len(sent') > 0 /\ pc' # "modulate" => x' = 4 * Len(Block')
    BY <1>2, <1>5
  <2>4. pc' = "write" => /\ off' <= Size(Len(sent))'
                         /\ data_type' = "unmod_uint8" => off' \in {0, Len(Block')} \/ failed'
                         /\ data_type' = "unmod_udp" /\ off' < Len(Block') => off' % Payload = 0
    <3>1. ~Modulated => Size(Len(sent))' = Len(b)
      BY <1>4, <1>5 DEF Size
    <3>2. 0 % Payload = 0
      BY SinkAssumption
    <3> QED BY <1>2, <1>5, <3>1, <3>2
  <2> QED BY <2>1, <2>2, <2>3, <2>4 DEF Progress
<1>9. Chain'
  <2>1. \A n : Items(n)' = Items(n)
    BY <1>2 DEF Items
  <2>2. \A k \in DOMAIN taken : sent'[k] = sent[k] /\ Size(k)' = Size(k)
    <3>1. DOMAIN taken = 1..l
      BY <1>3, LengthsTyped DEF OutInv
    <3> QED BY <1>4, <1>5, <3>1 DEF Size
  <2>3. marks[Len(marks)].symbols + x' = Len(phases) /\ marks[Len(marks)].items + Items(off') = Len(written)
    <3>1. marks[Len(marks)] = Mark
      BY <1>2 DEF OutInv, Chain
    <3>2. Len(phases) \in Nat /\ Len(written) \in Nat
      BY LengthsTyped, WrittenTyped DEF OutInv
    <3> QED BY <1>2, <3>1, <3>2, NoItems DEF Mark
  <2>4. pc' # "encode"
    BY <1>2
  <2> QED BY <1>2, <1>5, <2>1, <2>2, <2>3, <2>4 DEF OutInv, Chain
<1>10. (Modulated => Turned)'
  <2>1. SUFFICES ASSUME Modulated, NEW k \in DOMAIN sent',
                        NEW n \in 0 .. (IF k = Len(sent') THEN x' ELSE 4 * Len(sent'[k])) - 1
                 PROVE  LET j == marks'[k].symbols + n
                        IN  phases'[j + 1] = ((IF j = 0 THEN 0 ELSE phases'[j])
                                                  + Step[Dibit(sent'[k], n)]) % 4
    BY <1>5 DEF Turned
  <2>2. k \in 1..l
    <3>1. k \in 1 .. l + 1
      BY <1>4
    <3>2. k # l + 1
      BY <1>2, <1>4, <2>1
    <3> QED BY <3>1, <3>2
  <2>3. k \in DOMAIN sent /\ n \in 0 .. (IF k = Len(sent) THEN x ELSE 4 * Len(sent[k])) - 1
    <3>1. n \in 0 .. 4 * Len(sent[k]) - 1
      BY <1>4, <2>2
    <3>2. k = Len(sent) => x = 4 * Len(sent[k])
      BY <1>2, <1>3, <2>1, <2>2 DEF OutInv, Progress, Block
    <3> QED BY <1>3, <2>2, <3>1, <3>2, LengthsTyped DEF OutInv
  <2> QED BY <1>2, <1>4, <2>1, <2>2, <2>3 DEF OutInv, Turned
<1>11. AllFiled'
  <2>1. ASSUME NEW k \in DOMAIN taken'
        PROVE  Filed(k, taken[k])'
    <3>1. Grows /\ GrowsBySymbols
      BY <1>2, WrittenTyped DEF OutInv, Grows, GrowsBySymbols
    <3>2. k \in DOMAIN taken /\ Filed(k, taken[k]) /\ k \in 1..l
      BY <1>2, <1>3, LengthsTyped DEF OutInv, AllFiled
    <3> QED BY <1>2, <1>3, <1>4, <3>1, <3>2, FiledStays DEF OutInv
  <2>2. Filed(Len(sent), off)'
    BY <1>2 DEF Filed, SamplesFiled, OctetsFiled
  <2> QED BY <2>1, <2>2 DEF AllFiled
<1>12. PreviewOK'
  BY <1>2 DEF OutInv, PreviewOK, OnePreview
<1> QED BY <1>6, <1>7, <1>8, <1>9, <1>10, <1>11, <1>12 DEF OutInv

\* The next symbol of the block in work.
LEMMA ModulateKeeps ==
    ASSUME OutInv, Modulate
    PROVE  OutInv'
<1>1. /\ pc = "modulate" /\ Symbol(Block) /\ phases' = Append(phases, sym')
      /\ pc' = IF x' = 4 * Len(Block) THEN "write" ELSE "modulate"
      /\ UNCHANGED <<data_type, stdout, once_printed, off, written, shown, failed, sent, lost, taken, marks>>
  BY DEF Modulate, sinkVars
<1>2. PICK l \in Nat : l = Len(sent) /\ l = Len(marks) /\ l = Len(taken) + 1
  <2>1. Len(sent) \in Nat
    BY LengthsTyped DEF OutInv
  <2> QED BY <1>1, <2>1, InWork
<1>3. /\ l \in DOMAIN sent /\ l \in DOMAIN marks /\ Block = sent[l] /\ Block \in Seq(Octet)
      /\ marks[l].items + Items(off) = Len(written) /\ marks[l].symbols + x = Len(phases)
  BY <1>1, <1>2, InWork
<1>4. Modulated /\ Modulated' /\ off = 0 /\ ~failed /\ RingTypes /\ HoldsRest /\ NeverWraps /\ Complete
  BY <1>1 DEF OutInv, Progress, Modulated, Types, RingOK
<1>5. /\ sym' \in 0..3 /\ winx' \in Slots /\ x' = x + 1 /\ x \in Nat
      /\ win' = Cleared(Added(sym'))
  BY <1>1, <1>3, <1>4, SymbolStep DEF RingTypes
<1>6. /\ phases' \in Seq(0..3) /\ Len(phases') = Len(phases) + 1 /\ Len(phases) \in Nat
      /\ \A k \in 1 .. Len(phases) : phases'[k] = phases[k]
      /\ phases'[Len(phases) + 1] = sym'
  <2>1. PICK s \in Seq(0..3), p \in 0..3 : s = phases /\ p = sym'
    BY <1>4, <1>5 DEF RingTypes
  <2>2. /\ Append(s, p) \in Seq(0..3) /\ Len(Append(s, p)) = Len(s) + 1 /\ Len(s) \in Nat
        /\ \A k \in 1 .. Len(s) : Append(s, p)[k] = s[k]
        /\ Append(s, p)[Len(s) + 1] = p
    OBVIOUS
  <2> QED BY <1>1, <2>1, <2>2
<1>7. /\ iq' \in Seq([1..2 -> Int]) /\ Complete'
  BY <1>1, <1>3, <1>4, SymbolSamples
<1>8. HoldsRest' /\ NeverWraps' /\ win' \in [Slots -> [1..2 -> Int]]
  <2>1. ASSUME NEW i \in Slots, NEW c \in 1..2
        PROVE  /\ win'[i][c] \in Int
               /\ win'[i][c] = Convolution(phases', Len(phases') * Interpolation + Age(i)', c)
               /\ Abs(win'[i][c]) + Reach(Age(i)') <= 32767
    BY <1>1, <1>3, <1>4, SymbolSlots
  <2>2. ASSUME NEW i \in Slots
        PROVE  win'[i] = [c \in 1..2 |-> win'[i][c]]
    <3>1. CASE Age(i) < Interpolation
      BY <1>5, <3>1 DEF Cleared, Zero
    <3>2. CASE ~(Age(i) < Interpolation)
      BY <1>5, <3>2 DEF Cleared, Added
    <3> QED BY <3>1, <3>2
  <2>3. win' = [i \in Slots |-> win'[i]]
    BY <1>5 DEF Cleared
  <2>4. ASSUME NEW i \in Slots
        PROVE  win'[i] \in [1..2 -> Int]
    <3>1. [c \in 1..2 |-> win'[i][c]] \in [1..2 -> Int]
      BY <2>1
    <3> QED BY <2>2, <3>1
  <2>5. win' \in [Slots -> [1..2 -> Int]]
    BY <2>3, <2>4
  <2> QED BY <2>1, <2>5 DEF HoldsRest, NeverWraps
<1>9. Types'
  <2>1. RingTypes'
    BY <1>5, <1>6, <1>7, <1>8 DEF RingTypes
  <2>2. pc' \in {"encode", "modulate", "write"}
    BY <1>1
  <2>3. Item' = Item
    BY <1>1 DEF Item, Modulated
  <2> QED BY <1>1, <2>1, <2>2, <2>3 DEF OutInv, Types
<1>10. RingOK' /\ LastPhase'
  <2>1. phases' # <<>> /\ phases'[Len(phases')] = sym'
    BY <1>6
  <2> QED BY <1>7, <1>8, <2>1 DEF RingOK, LastPhase
<1>11. Progress'
  <2>1. Block' = Block /\ pc' # "encode" /\ Len(sent') = Len(marks')
    BY <1>1, <1>2 DEF Block
  <2>2. pc' # "modulate" => x' = 4 * Len(Block')
    BY <1>1, <2>1
  <2>3. pc' = "write" => /\ off' <= Size(Len(sent))'
                         /\ data_type' = "unmod_uint8" => off' \in {0, Len(Block')} \/ failed'
                         /\ data_type' = "unmod_udp" /\ off' < Len(Block') => off' % Payload = 0
    <3>1. Size(Len(sent))' \in Nat
      <4>1. PICK n \in Nat, m \in Nat : n = Len(sent[l]) /\ m = Interpolation
        BY <1>3, SentTyped, ModulatorAssumption DEF OutInv
      <4>2. 4 * n * m \in Nat
        OBVIOUS
      <4> QED BY <1>1, <1>2, <1>4, <4>1, <4>2 DEF Size
    <3>2. data_type' # "unmod_uint8" /\ data_type' # "unmod_udp"
      BY <1>4 DEF Modulated, RawTypes
    <3> QED BY <1>1, <1>4, <3>1, <3>2
  <2>4. Len(taken') = Len(lost') /\ Len(marks') = Len(taken') + 1
    BY <1>1 DEF OutInv, Progress
  <2> QED BY <1>1, <1>4, <2>1, <2>2, <2>3, <2>4 DEF Progress
<1>12. Chain'
  <2>1. \A n : Items(n)' = Items(n)
    BY <1>1 DEF Items
  <2>2. \A b : Size(b)' = Size(b)
    BY <1>1, <1>4 DEF Size
  <2>3. \A b \in DOMAIN marks : marks[b].symbols <= Len(phases')
    <3>1. ASSUME NEW b \in DOMAIN marks
          PROVE  marks[b].symbols <= Len(phases')
      <4>1. marks[b].symbols \in Nat /\ marks[b].symbols <= Len(phases)
        BY MarkTyped DEF OutInv, Chain
      <4> QED BY <1>6, <4>1
    <3> QED BY <3>1
  <2>4. marks[Len(marks)].symbols + x' = Len(phases')
    <3>1. marks[l].symbols \in Nat
      BY <1>3, MarkTyped DEF OutInv
    <3>2. PICK s \in Nat, k \in Nat : s = marks[l].symbols /\ k = x
      BY <1>5, <3>1
    <3>3. s + k = Len(phases)
      BY <1>3, <3>2
    <3>4. s + (k + 1) = Len(phases) + 1
      BY <1>6, <3>3
    <3> QED BY <1>2, <1>5, <1>6, <3>2, <3>4
  <2>5. marks[Len(marks)].items + Items(off) = Len(written) /\ pc' # "encode"
    BY <1>1, <1>2, <1>3
  <2> QED BY <1>1, <1>4, <2>1, <2>2, <2>3, <2>4, <2>5 DEF OutInv, Chain
<1>13. (Modulated => Turned)'
  <2>1. ASSUME NEW b \in DOMAIN sent',
               NEW n \in 0 .. (IF b = Len(sent') THEN x' ELSE 4 * Len(sent'[b])) - 1
        PROVE  LET k == marks'[b].symbols + n
               IN  phases'[k + 1] = ((IF k = 0 THEN 0 ELSE phases'[k])
                                         + Step[Dibit(sent'[b], n)]) % 4
    <3>1. b \in DOMAIN sent /\ b \in 1..l /\ b \in DOMAIN marks /\ n \in Nat
      BY <1>1, <1>2, LengthsTyped DEF OutInv
    <3>2. PICK k \in Nat : k = marks[b].symbols + n
      BY <3>1, MarkTyped DEF OutInv
    <3>3. CASE b = l /\ n = x
      <4>1. k = Len(phases)
        BY <1>3, <3>2, <3>3
      <4>2. sym' = (sym + Step[Dibit(Block, x)]) % 4
        BY <1>1 DEF Symbol
      <4>3. sym = IF k = 0 THEN 0 ELSE phases[k]
        <5>1. k = 0 <=> phases = <<>>
          BY <1>4, <4>1 DEF RingTypes
        <5> QED BY <4>1, <5>1 DEF OutInv, LastPhase
      <4>4. phases'[k + 1] = sym' /\ (k # 0 => phases'[k] = phases[k])
        BY <1>6, <4>1
      <4> QED BY <1>1, <1>3, <3>2, <3>3, <4>2, <4>3, <4>4
    <3>4. CASE ~(b = l /\ n = x)
      <4>1. n \in 0 .. (IF b = Len(sent) THEN x ELSE 4 * Len(sent[b])) - 1
        BY <1>1, <1>2, <1>5, <3>1, <3>4
      <4>2. phases[k + 1] = ((IF k = 0 THEN 0 ELSE phases[k]) + Step[Dibit(sent[b], n)]) % 4
        BY <1>4, <3>1, <3>2, <4>1 DEF OutInv, Turned
      <4>3. k + 1 \in 1 .. Len(phases)
        <5>1. CASE b = l
          <6>1. n < x /\ marks[b].symbols + x = Len(phases) /\ marks[b].symbols \in Nat
            BY <1>2, <1>3, <1>5, <3>1, <4>1, <5>1, MarkTyped DEF OutInv
          <6>2. PICK s \in Nat, v \in Nat : s = marks[b].symbols /\ v = x
            BY <1>5, <6>1
          <6>3. k = s + n /\ n < v /\ s + v = Len(phases)
            BY <3>2, <6>1, <6>2
          <6> QED BY <3>1, <6>3
        <5>2. CASE b # l
          <6>1. b \in DOMAIN taken /\ b + 1 \in DOMAIN marks
            BY <1>2, <3>1, <5>2, LengthsTyped DEF OutInv
          <6>2. /\ marks[b + 1].symbols = marks[b].symbols + 4 * Len(sent[b])
                /\ marks[b + 1].symbols <= Len(phases)
            BY <1>4, <6>1 DEF OutInv, Chain
          <6>3. n < 4 * Len(sent[b])
            BY <1>2, <3>1, <4>1, <5>2, SentTyped DEF OutInv
          <6>4. PICK s \in Nat, e \in Nat, h \in Nat :
                    s = marks[b].symbols /\ e = 4 * Len(sent[b]) /\ h = Len(phases)
            <7>1. marks[b].symbols \in Nat
              BY <3>1, MarkTyped DEF OutInv
            <7>2. 4 * Len(sent[b]) \in Nat
              BY <3>1, SentTyped DEF OutInv
            <7>3. Len(phases) \in Nat
              BY <1>6
            <7> QED BY <7>1, <7>2, <7>3
          <6>5. s + e <= h /\ n < e /\ k = s + n
            BY <3>2, <6>2, <6>3, <6>4
          <6>6. k + 1 \in 1..h
            BY <3>1, <6>5
          <6> QED BY <6>4, <6>6
        <5> QED BY <5>1, <5>2
      <4>4. phases'[k + 1] = phases[k + 1] /\ (k # 0 => phases'[k] = phases[k])
        BY <1>6, <4>3
      <4> QED BY <1>1, <3>2, <4>2, <4>4
    <3> QED BY <3>3, <3>4
  <2> QED BY <2>1 DEF Turned
<1>14. AllFiled'
  <2>1. ASSUME NEW k \in DOMAIN taken'
        PROVE  Filed(k, taken[k])'
    <3>1. Grows /\ GrowsBySymbols
      BY <1>1, <1>5, WrittenTyped DEF OutInv, Grows, GrowsBySymbols
    <3>2. k \in DOMAIN taken /\ Filed(k, taken[k])
      BY <1>1 DEF OutInv, AllFiled
    <3>3. Len(marks) = Len(taken) + 1 /\ Len(taken) <= Len(sent)
      BY <1>2, LengthsTyped DEF OutInv
    <3> QED BY <1>1, <3>1, <3>2, <3>3, FiledStays DEF OutInv
  <2>2. Filed(Len(sent), off)'
    BY <1>1, <1>4 DEF Filed, SamplesFiled
  <2> QED BY <2>1, <2>2 DEF AllFiled
<1>15. PreviewOK'
  BY <1>1 DEF OutInv, PreviewOK, OnePreview
<1> QED BY <1>9, <1>10, <1>11, <1>12, <1>13, <1>14, <1>15 DEF OutInv

\* The sink is done with the block, or gives up in it.
LEMMA ReturnKeeps ==
    ASSUME OutInv, Return
    PROVE  OutInv'
<1>1. /\ pc = "write" /\ pc' = "encode"
      /\ off = (IF Modulated THEN Len(iq) ELSE Len(Block)) \/ failed
      /\ lost' = Append(lost, failed) /\ taken' = Append(taken, off) /\ marks' = Append(marks, Mark)
      /\ UNCHANGED <<win, winx, sym, x, iq, phases, sent>>
      /\ UNCHANGED <<data_type, stdout, once_printed, off, written, shown, failed>>
  BY DEF Return, WriteReturns, modVars, sinkVars
<1>2. PICK d \in Nat : /\ d = Len(taken) /\ d = Len(lost) /\ d + 1 = Len(marks) /\ d + 1 = Len(sent)
                       /\ DOMAIN taken = 1..d /\ DOMAIN marks = 1 .. d + 1 /\ DOMAIN sent = 1 .. d + 1
  <2>1. Len(taken) = Len(lost) /\ Len(marks) = Len(taken) + 1 /\ Len(sent) = Len(marks)
    BY <1>1 DEF OutInv, Progress
  <2> QED BY <2>1, LengthsTyped DEF OutInv
<1>3. /\ d + 1 \in DOMAIN sent /\ d + 1 \in DOMAIN marks /\ Block = sent[d + 1]
      /\ Len(Block) \in Nat \ {0}
      /\ marks[d + 1].items + Items(off) = Len(written) /\ marks[d + 1].symbols + x = Len(phases)
      /\ Filed(d + 1, off) /\ (Modulated => x = 4 * Len(Block) /\ Size(d + 1) = Len(iq))
      /\ (~Modulated => Size(d + 1) = Len(Block))
  BY <1>1, <1>2, InWork
<1>4. Modulated' = Modulated
  BY <1>1 DEF Modulated
<1>5. /\ Len(written) \in Nat /\ Len(phases) \in Nat /\ off \in Nat /\ failed \in BOOLEAN
      /\ Mark \in [symbols : Nat, items : Nat] /\ Mark.symbols = Len(phases) /\ Mark.items = Len(written)
  <2>1. Len(written) \in Nat /\ Len(phases) \in Nat
    BY LengthsTyped, WrittenTyped DEF OutInv
  <2> QED BY <2>1 DEF OutInv, Types, Mark
<1>6. /\ taken' \in Seq(Nat) /\ Len(taken') = d + 1 /\ DOMAIN taken' = 1 .. d + 1
      /\ \A b \in 1..d : taken'[b] = taken[b]
      /\ taken'[d + 1] = off
  <2>1. taken \in Seq(Nat) /\ Len(taken) = d
    BY <1>2 DEF OutInv, Types
  <2> QED BY <1>1, <1>5, <2>1
<1>7. /\ lost' \in Seq(BOOLEAN) /\ Len(lost') = d + 1
      /\ \A b \in 1..d : lost'[b] = lost[b]
      /\ lost'[d + 1] = failed
  <2>1. PICK S : S = BOOLEAN
    OBVIOUS
  <2>2. lost \in Seq(S) /\ Len(lost) = d /\ failed \in S
    BY <1>2, <1>5, <2>1 DEF OutInv, Types
  <2>3. PICK e \in S : e = failed
    BY <2>2
  <2>4. /\ Append(lost, e) \in Seq(S) /\ Len(Append(lost, e)) = d + 1
        /\ \A b \in 1..d : Append(lost, e)[b] = lost[b]
        /\ Append(lost, e)[d + 1] = e
    BY <2>2
  <2> QED BY <1>1, <2>1, <2>3, <2>4
<1>8. /\ marks' \in Seq([symbols : Nat, items : Nat]) /\ Len(marks') = d + 2
      /\ DOMAIN marks' = 1 .. d + 2
      /\ \A b \in 1 .. d + 1 : marks'[b] = marks[b]
      /\ marks'[d + 2] = Mark
  <2>1. PICK S : S = [symbols : Nat, items : Nat]
    OBVIOUS
  <2>2. marks \in Seq(S) /\ Len(marks) = d + 1 /\ Mark \in S
    BY <1>2, <1>5, <2>1 DEF OutInv, Types
  <2>3. /\ Append(marks, Mark) \in Seq(S) /\ Len(Append(marks, Mark)) = (d + 1) + 1
        /\ \A b \in 1 .. d + 1 : Append(marks, Mark)[b] = marks[b]
        /\ Append(marks, Mark)[(d + 1) + 1] = Mark
    BY <2>2
  <2> QED BY <1>1, <2>1, <2>3
<1>9. Types'
  <2>1. RingTypes'
    BY <1>1 DEF OutInv, Types, RingTypes
  <2>2. Item' = Item
    BY <1>1, <1>4 DEF Item
  <2> QED BY <1>1, <1>6, <1>7, <1>8, <2>1, <2>2 DEF OutInv, Types
<1>10. RingOK' /\ LastPhase'
  BY <1>1 DEF OutInv, RingOK, HoldsRest, NeverWraps, Complete, LastPhase, Age
<1>11. Progress'
  <2>1. IF ~Modulated THEN x = 0 ELSE x = 4 * Len(Block)
    BY <1>1, <1>3 DEF OutInv, Progress
  <2>2. Block' = Block
    BY <1>1 DEF Block
  <2> QED BY <1>1, <1>2, <1>4, <1>6, <1>7, <1>8, <2>1, <2>2 DEF Progress
<1>12. Chain'
  <2>1. \A n : Items(n)' = Items(n)
    BY <1>1 DEF Items
  <2>2. \A b : Size(b)' = Size(b)
    BY <1>1, <1>4 DEF Size
  <2>3. marks'[1] = [symbols |-> 0, items |-> 0]
    BY <1>8 DEF OutInv, Chain
  <2>4. \A b \in DOMAIN marks' : marks'[b].symbols <= Len(phases) /\ marks'[b].items <= Len(written)
    <3>1. ASSUME NEW b \in 1 .. d + 2
          PROVE  marks'[b].symbols <= Len(phases) /\ marks'[b].items <= Len(written)
      <4>1. CASE b = d + 2
        BY <1>5, <1>8, <4>1
      <4>2. CASE b # d + 2
        <5>1. b \in DOMAIN marks /\ marks'[b] = marks[b]
          BY <1>2, <1>8, <4>2
        <5> QED BY <5>1 DEF OutInv, Chain
      <4> QED BY <4>1, <4>2
    <3> QED BY <1>8, <3>1
  <2>5. ASSUME NEW b \in DOMAIN taken'
        PROVE  /\ marks'[b + 1].symbols = marks'[b].symbols + IF Modulated THEN 4 * Len(sent[b]) ELSE 0
               /\ marks'[b + 1].items = marks'[b].items + Items(taken'[b])
               /\ taken'[b] <= Size(b) /\ (~lost'[b] => taken'[b] = Size(b))
    <3>1. CASE b = d + 1
      <4>1. marks'[b] = marks[d + 1] /\ marks'[b + 1] = Mark
        BY <1>8, <3>1
      <4>2. x = IF Modulated THEN 4 * Len(sent[b]) ELSE 0
        BY <1>3, <3>1 DEF OutInv, Progress
      <4>3. marks'[b + 1].symbols = marks'[b].symbols + IF Modulated THEN 4 * Len(sent[b]) ELSE 0
        BY <1>3, <1>5, <4>1, <4>2
      <4>4. marks'[b + 1].items = marks'[b].items + Items(taken'[b])
        BY <1>3, <1>5, <1>6, <3>1, <4>1
      <4>5. off <= Size(b)
        BY <1>1, <1>2, <3>1 DEF OutInv, Progress
      <4>6. ~failed => off = Size(b)
        BY <1>1, <1>3, <3>1
      <4> QED BY <1>6, <1>7, <3>1, <4>3, <4>4, <4>5, <4>6
    <3>2. CASE b # d + 1
      <4>1. b \in 1..d /\ b \in 1 .. d + 1 /\ b + 1 \in 1 .. d + 1
        BY <1>6, <3>2
      <4>2. /\ marks'[b] = marks[b] /\ marks'[b + 1] = marks[b + 1]
            /\ taken'[b] = taken[b] /\ lost'[b] = lost[b]
        BY <1>6, <1>7, <1>8, <4>1
      <4> QED BY <1>2, <4>1, <4>2 DEF OutInv, Chain
    <3> QED BY <3>1, <3>2
  <2>6. marks'[Len(marks')] = Mark'
    BY <1>1, <1>8 DEF Mark
  <2> QED BY <1>1, <1>4, <2>1, <2>2, <2>3, <2>4, <2>5, <2>6 DEF Chain
<1>13. (Modulated => Turned)'
  <2>1. \A b \in DOMAIN sent : marks'[b] = marks[b]
    BY <1>2, <1>8
  <2>2. ASSUME Modulated, NEW b \in DOMAIN sent,
               NEW n \in 0 .. (IF b = Len(sent) THEN x ELSE 4 * Len(sent[b])) - 1
        PROVE  LET k == marks'[b].symbols + n
               IN  phases[k + 1] = ((IF k = 0 THEN 0 ELSE phases[k]) + Step[Dibit(sent[b], n)]) % 4
    BY <2>1, <2>2 DEF OutInv, Turned
  <2> QED BY <1>1, <1>4, <2>2 DEF Turned
<1>14. AllFiled'
  <2>1. ASSUME NEW b \in 1 .. d + 1
        PROVE  Filed(b, taken[b])'
    <3>1. CASE b = d + 1
      <4>1. marks'[b] = marks[b] /\ taken'[b] = off
        BY <1>6, <1>8, <3>1
      <4>2. Filed(b, off)
        BY <1>3, <3>1
      <4> QED BY <1>1, <1>4, <4>1, <4>2 DEF Filed, SamplesFiled, OctetsFiled, Sample
    <3>2. CASE b # d + 1
      <4>1. b \in DOMAIN taken /\ Filed(b, taken[b]) /\ taken'[b] = taken[b] /\ marks'[b] = marks[b]
        <5>1. b \in 1..d
          BY <3>2
        <5>2. Filed(b, taken[b])
          BY <1>2, <5>1 DEF OutInv, AllFiled
        <5> QED BY <1>2, <1>6, <1>8, <5>1, <5>2
      <4>2. Grows /\ GrowsBySymbols
        BY <1>1, <1>5 DEF Grows, GrowsBySymbols
      <4> QED BY <1>1, <1>2, <4>1, <4>2, FiledStays DEF OutInv
    <3> QED BY <3>1, <3>2
  <2> QED BY <1>1, <1>6, <2>1 DEF AllFiled
<1>15. PreviewOK'
  BY <1>1 DEF OutInv, PreviewOK, OnePreview
<1> QED BY <1>9, <1>10, <1>11, <1>12, <1>13, <1>14, <1>15 DEF OutInv

LEMMA InitOK ==
    ASSUME Init
    PROVE  OutInv
<1>1. /\ win = [i \in Slots |-> Zero] /\ winx = 0 /\ sym = 0 /\ x = 0 /\ iq = <<>>
      /\ data_type \in IQTypes \cup RawTypes \cup {"soapysdr"}
      /\ stdout \in IF data_type \in {"unmod_udp", "soapysdr"} THEN {FALSE} ELSE BOOLEAN
      /\ once_printed = FALSE /\ off = 0 /\ written = <<>> /\ shown = <<>> /\ failed = FALSE
      /\ pc = "encode" /\ sent = <<>> /\ lost = <<>> /\ taken = <<>> /\ phases = <<>>
      /\ marks = <<Mark>>
  BY DEF Init, ModInit, SinkInit
<1>2. Mark = [symbols |-> 0, items |-> 0]
  BY <1>1 DEF Mark
<1>3. 0 \in Slots /\ phases \in Seq(0..3) /\ Len(phases) = 0
  BY <1>1, ModulatorAssumption DEF Slots, NTaps
<1>4. Types
  <2>1. Zero \in [1..2 -> Int]
    BY DEF Zero
  <2>2. RingTypes
    BY <1>1, <1>3, <2>1 DEF RingTypes
  <2>3. marks \in Seq([symbols : Nat, items : Nat])
    <3>1. \A S : \A e \in S : <<e>> \in Seq(S)
      OBVIOUS
    <3>2. Mark \in [symbols : Nat, items : Nat]
      BY <1>2
    <3> QED BY <1>1, <3>1, <3>2
  <2>4. written \in Seq(Item)
    <3>1. \A S : <<>> \in Seq(S)
      OBVIOUS
    <3> QED BY <1>1, <3>1
  <2>5. /\ sent \in Seq(Seq(Octet) \ {<<>>}) /\ taken \in Seq(Nat) /\ lost \in Seq(BOOLEAN)
    BY <1>1
  <2>6. off \in Nat /\ failed \in BOOLEAN
    BY <1>1
  <2> QED BY <1>1, <2>2, <2>3, <2>4, <2>5, <2>6 DEF Types
<1>5. HoldsRest /\ NeverWraps
  <2>1. ASSUME NEW i \in Slots, NEW c \in 1..2
        PROVE  /\ win[i][c] = Convolution(phases, Len(phases) * Interpolation + Age(i), c)
               /\ Abs(win[i][c]) + Reach(Age(i)) <= 32767
    <3>1. win[i][c] = 0
      BY <1>1 DEF Zero
    <3>2. Age(i) \in Slots /\ Age(i) \in Nat
      BY <1>1, <1>3, AgeTyped
    <3>3. PICK t \in Int : t = Len(phases) * Interpolation + Age(i)
      <4>1. Len(phases) * Interpolation = 0
        BY <1>3, ModulatorAssumption
      <4> QED BY <3>2, <4>1
    <3>4. Convolution(phases, t, c) = 0
      <4>1. \A k \in 1 .. Len(phases) : Part(phases, k, t, c) = 0
        BY <1>3
      <4> QED BY <1>3, <4>1, Silence
    <3>5. Reach(Age(i)) <= 32767 /\ Reach(Age(i)) \in Nat
      BY <3>2, PulseAssumption, ReachStep
    <3> QED BY <3>1, <3>3, <3>4, <3>5 DEF Abs
  <2> QED BY <2>1 DEF HoldsRest, NeverWraps
<1>6. Complete
  <2>1. 0 * Interpolation = 0
    BY ModulatorAssumption
  <2> QED BY <1>1, <1>3, <2>1 DEF Complete
<1>7. LastPhase /\ Progress /\ PreviewOK /\ AllFiled
  <2>1. Len(sent) = 0 /\ Len(taken) = 0 /\ Len(lost) = 0 /\ Len(marks) = 1 /\ DOMAIN taken = {}
    BY <1>1
  <2>2. Progress
    BY <1>1, <2>1 DEF Progress
  <2> QED BY <1>1, <2>1, <2>2 DEF LastPhase, PreviewOK, OnePreview, AllFiled
<1>8. Chain
  <2>1. DOMAIN marks = {1} /\ Len(marks) = 1 /\ marks[1] = Mark /\ DOMAIN taken = {}
    BY <1>1
  <2>2. Len(phases) = 0 /\ Len(written) = 0
    BY <1>1
  <2> QED BY <1>1, <1>2, <2>1, <2>2 DEF Chain
<1>9. Turned
  BY <1>1 DEF Turned
<1> QED BY <1>4, <1>5, <1>6, <1>7, <1>8, <1>9 DEF OutInv, RingOK

-----------------------------------------------------------------------------
(* Theorems *)

\* The invariant holds: the ring, the histories, the borders of the blocks and what the
\* sink has got agree after every symbol, every buffer and every block (rf.c:142-205,
\* rf_file.c:41-439, rf_soapysdr.c:47-60).
THEOREM OutInvHolds == Spec => []OutInv
<1>1. Init => OutInv
  BY InitOK
<1>2. OutInv /\ [Next]_vars => OutInv'
  <2>1. SUFFICES ASSUME OutInv, [Next]_vars
                 PROVE  OutInv'
    OBVIOUS
  <2>2. CASE Encode
    BY <2>1, <2>2, EncodeKeeps
  <2>3. CASE Modulate
    BY <2>1, <2>3, ModulateKeeps
  <2>4. CASE Write
    BY <2>1, <2>4, WriteActionKeeps
  <2>5. CASE Return
    BY <2>1, <2>5, ReturnKeeps
  <2>6. CASE UNCHANGED vars
    <3>1. /\ UNCHANGED <<win, winx, sym, x, iq, data_type, stdout, once_printed, off, written>>
          /\ UNCHANGED <<shown, failed, pc, sent, lost, taken, phases, marks>>
      BY <2>6 DEF vars, modVars, sinkVars
    <3>2. Types' /\ RingOK' /\ LastPhase' /\ Progress'
      <4>1. Item' = Item /\ Modulated' = Modulated
        BY <3>1 DEF Item, Modulated
      <4>2. Types'
        BY <2>1, <3>1, <4>1 DEF OutInv, Types, RingTypes
      <4>3. RingOK'
        BY <2>1, <3>1 DEF OutInv, RingOK, HoldsRest, NeverWraps, Complete, Age
      <4>4. LastPhase'
        BY <2>1, <3>1 DEF OutInv, LastPhase
      <4>5. Progress'
        <5>1. Block' = Block /\ \A n : Size(n)' = Size(n)
          BY <3>1 DEF Block, Size, Modulated
        <5> QED BY <2>1, <3>1, <4>1, <5>1 DEF OutInv, Progress
      <4> QED BY <4>2, <4>3, <4>4, <4>5
    <3>3. Chain'
      <4>1. \A n : Items(n)' = Items(n) /\ Size(n)' = Size(n)
        BY <3>1 DEF Items, Size, Modulated
      <4> QED BY <2>1, <3>1, <4>1 DEF OutInv, Chain, Modulated, Mark
    <3>4. (Modulated => Turned)' /\ PreviewOK'
      BY <2>1, <3>1 DEF OutInv, Modulated, Turned, PreviewOK, OnePreview
    <3>5. AllFiled'
      BY <2>1, <3>1 DEF OutInv, AllFiled, Filed, SamplesFiled, OctetsFiled, Sample, Modulated
    <3> QED BY <3>2, <3>3, <3>4, <3>5 DEF OutInv
  <2>7. CASE Done
    BY <2>6, <2>7 DEF Done
  <2> QED BY <2>1, <2>2, <2>3, <2>4, <2>5, <2>6, <2>7 DEF Next
<1> QED BY <1>1, <1>2, PTL DEF Spec

\* After every symbol the ring holds the rest of the convolution, and the samples taken out
\* of it were complete (rf.c:178-204).
THEOREM WindowHoldsRestHolds == Spec => []WindowHoldsRest
<1>1. OutInv => WindowHoldsRest
  BY DEF OutInv, RingOK, HoldsRest, Complete, WindowHoldsRest, Sample
<1> QED BY <1>1, OutInvHolds, PTL

\* No 16-bit sum of the ring can wrap, whatever symbols come (rf.c:184-196).
THEOREM HeadroomHolds == Spec => []Headroom
<1>1. OutInv => Headroom
  BY DEF OutInv, RingOK, NeverWraps, Headroom
<1> QED BY <1>1, OutInvHolds, PTL

\* Between the blocks no block is in work.
LEMMA Settled ==
    ASSUME OutInv, pc = "encode"
    PROVE  OnePreview /\ Gapless /\ DOMAIN sent = DOMAIN taken
<1>1. DOMAIN sent = DOMAIN taken
  <2>1. Len(sent) = Len(taken)
    BY DEF OutInv, Progress
  <2> QED BY <2>1, LengthsTyped DEF OutInv
<1>2. Gapless
  BY <1>1 DEF OutInv, Chain, Gapless
<1> QED BY <1>1, <1>2 DEF OutInv, PreviewOK

\* What a file or a device has got is the convolution of all symbols with the pulse
\* (rf.c:173-205, rf_file.c:41-322, rf_soapysdr.c:47-60).
THEOREM StreamFiledHolds == Spec => []StreamFiled
<1>1. OutInv => StreamFiled
  <2>1. SUFFICES ASSUME OutInv, Modulated, pc = "encode"
                 PROVE  OnePreview /\ Gapless /\ Turned /\ \A b \in DOMAIN sent : SamplesFiled(b, taken[b])
    BY DEF StreamFiled
  <2> QED BY <2>1, Settled DEF OutInv, AllFiled, Filed
<1> QED BY <1>1, OutInvHolds, PTL

\* An unmodulated file or network gets the octets, and loses no more than the rest of a
\* block that was cut short or one of whose datagrams failed (rf_file.c:371-372, 420-432).
THEOREM OctetsSentHolds == Spec => []OctetsSent
<1>1. OutInv => OctetsSent
  <2>1. SUFFICES ASSUME OutInv, ~Modulated, pc = "encode"
                 PROVE  OnePreview /\ Gapless /\ \A b \in DOMAIN sent : OctetsFiled(b, taken[b])
    BY DEF OctetsSent
  <2> QED BY <2>1, Settled DEF OutInv, AllFiled, Filed
<1> QED BY <1>1, OutInvHolds, PTL
=============================================================================
