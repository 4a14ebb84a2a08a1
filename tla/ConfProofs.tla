------------------------------ MODULE ConfProofs -----------------------------
(***************************************************************************)
(* Proofs about the configuration and what is announced of it.             *)
(*                                                                         *)
(* Conf, for files of every length and content and for every lookup: the   *)
(* parser writes its list over the text it still reads without ever        *)
(* leaving the memory of the file, and a lookup walks over that list and   *)
(* never behind it.                                                        *)
(*                                                                         *)
(* ServiceInfo, for any number of sections and for names of any octets: a  *)
(* receiver of the special service shows each channel's name, type, mode   *)
(* and music flag as the sections give them.                               *)
(***************************************************************************)
EXTENDS Conf, ServiceInfo, NumberLemmas, FiniteSetTheorems, SequenceTheorems

-----------------------------------------------------------------------------
(* Conf: the list *)

\* The string at p has its terminator at e.
Ends(a, p, e) == a[e] = NUL /\ \A i \in p .. e - 1 : a[i] # NUL

\* At p there is a section, or a key and its value, and the next one after it is in T.
Entry(a, T, p, top) ==
    /\ a[p] # NUL
    /\ a[p] = "[" => \E e \in p .. top - 1 : Ends(a, p, e) /\ e + 1 \in T
    /\ a[p] # "[" => \E e, f \in p .. top - 1 :
                         e < f /\ Ends(a, p, e) /\ Ends(a, e + 1, f) /\ f + 1 \in T

\* The first top characters are a list, and T is where its sections and keys begin.
Strings(a, T, top) ==
    T \subseteq 0 .. top /\ 0 \in T /\ top \in T /\ \A p \in T \ {top} : Entry(a, T, p, top)
List(a, top) == \E T : Strings(a, T, top)

-----------------------------------------------------------------------------
(* Conf: the inductive invariant *)

Parsing == pc \in {"line", "switch", "value", "quoted", "rest"}

Types ==
    /\ TypeOK /\ file \in Files /\ Len(file) \in Nat /\ s \in Nat /\ d \in Nat
    /\ mem = [i \in 0 .. Len(file) + 1 |-> mem[i]]

\* From s on there is text that is still to be read: both terminators are there, and no
\* backslash stands before them.
TextOK ==
    /\ pc = "load" => s = 0 /\ d = 0
    /\ Parsing => s <= Len(file) /\ \A i \in s .. Len(file) + 1 :
                     (i >= Len(file) => mem[i] = NUL) /\ (mem[i] = "b" => i + 1 < Len(file))

\* The list is written behind s; only at the end of a line that has come to a terminator
\* may it be one character ahead.
GapOK ==
    /\ pc \in {"switch", "value"} => d <= s
    /\ pc = "switch" => mem[s] \notin Blank
    /\ pc = "quoted" => d < s
    /\ pc \in {"line", "rest"} => d <= s + 1 /\ (d = s + 1 => mem[s] = NUL)

\* Between lines the list is complete, in the middle of one it lacks a value, and in the
\* end s walks from one section or key to the next.
ListOK ==
    /\ pc \in {"line", "switch", "rest"} => List(mem, d)
    /\ pc \in {"value", "quoted"} =>
          \E k, e \in 0 .. d - 1 :
              /\ k <= e /\ List(mem, k) /\ mem[k] # NUL /\ mem[k] # "[" /\ Ends(mem, k, e)
              /\ \A i \in e + 1 .. d - 1 : mem[i] # NUL
              /\ pc = "value" => e = d - 1
    /\ pc \in {"find", "found", "done"} =>
          d > 0 /\ mem[d - 1] = NUL /\ \E T : Strings(mem, T, d - 1) /\ s \in T

ConfInv == Types /\ TextOK /\ GapOK /\ ListOK
-----------------------------------------------------------------------------
(* Looking for a character *)

\* From p on, e is the first place of a character in stop, or of a terminator.
Stops(p, stop, e) ==
    /\ e \in p .. Len(file) /\ mem[e] \in stop \cup {NUL}
    /\ \A i \in p .. e - 1 : mem[i] \notin stop \cup {NUL}

LEMMA UntilFound ==
    ASSUME Types, NEW stop, NEW p \in 0 .. Len(file), mem[Len(file)] = NUL
    PROVE  Stops(p, stop, Until(p, stop))
<1>1. PICK n \in Nat : n = Len(file) /\ p \in 0..n /\ DOMAIN mem = 0 .. n + 1
  BY DEF Types
<1>2. PICK H : H = {i \in DOMAIN mem : i >= p /\ mem[i] \in stop \cup {NUL}}
  OBVIOUS
<1>3. H \subseteq Nat /\ n \in H
  BY <1>1, <1>2
<1>4. PICK e \in H : \A i \in H : e <= i
  BY <1>3, LeastNatural
<1>5. \A y \in H : (\A i \in H : y <= i) => y = e
  BY <1>3, <1>4
<1>6. Until(p, stop) = e
  <2>1. Until(p, stop) = CHOOSE y \in H : \A i \in H : y <= i
    BY <1>2 DEF Until, Min
  <2> QED BY <1>4, <1>5, <2>1
<1>7. e \in p..n /\ mem[e] \in stop \cup {NUL}
  BY <1>1, <1>2, <1>3, <1>4
<1>8. ASSUME NEW i \in p .. e - 1
      PROVE  mem[i] \notin stop \cup {NUL}
  <2>1. i \in DOMAIN mem /\ i >= p /\ ~(e <= i)
    BY <1>1, <1>7
  <2> QED BY <1>2, <1>4, <2>1
<1> QED BY <1>1, <1>6, <1>7, <1>8 DEF Stops

\* What is skipped ends at a terminator at the latest.
LEMMA PastFound ==
    ASSUME Types, NEW p \in 0 .. Len(file), mem[Len(file)] = NUL
    PROVE  Past(p, Blank) \in p .. Len(file) /\ mem[Past(p, Blank)] \notin Blank
<1>1. PICK n \in Nat : n = Len(file) /\ p \in 0..n /\ DOMAIN mem = 0 .. n + 1
  BY DEF Types
<1>2. PICK H : H = {i \in DOMAIN mem : i >= p /\ mem[i] \notin Blank}
  OBVIOUS
<1>3. H \subseteq Nat /\ n \in H
  <2>1. NUL \notin Blank
    BY DEF NUL, Blank
  <2> QED BY <1>1, <1>2, <2>1
<1>4. PICK e \in H : \A i \in H : e <= i
  BY <1>3, LeastNatural
<1>5. \A y \in H : (\A i \in H : y <= i) => y = e
  BY <1>3, <1>4
<1>6. Past(p, Blank) = e
  <2>1. Past(p, Blank) = CHOOSE y \in H : \A i \in H : y <= i
    BY <1>2 DEF Past, Min
  <2> QED BY <1>4, <1>5, <2>1
<1> QED BY <1>1, <1>2, <1>3, <1>4, <1>6

\* Going back over blanks stops behind the last character that is none.
LEMMA TrimmedFound ==
    ASSUME NEW a, NEW p \in Nat, NEW q \in 0 .. p, q > 0 => a[q - 1] \notin Blank
    PROVE  Trimmed(a, p) \in q .. p
<1>1. PICK H : H = {i \in 0..p : i = 0 \/ a[i - 1] \notin Blank}
  OBVIOUS
<1>2. H \subseteq 0..p /\ q \in H
  BY <1>1
<1>3. PICK U : U = {p - i : i \in H}
  OBVIOUS
<1>4. U \subseteq Nat /\ U # {}
  BY <1>2, <1>3
<1>5. PICK u \in U : \A y \in U : u <= y
  BY <1>4, LeastNatural
<1>6. PICK z \in H : u = p - z
  BY <1>3, <1>5
<1>7. \A i \in H : z >= i
  BY <1>2, <1>3, <1>5, <1>6, SMTT(20)
<1>8. \A y \in H : (\A i \in H : y >= i) => y = z
  BY <1>2, <1>7
<1>9. Trimmed(a, p) = z
  <2>1. Trimmed(a, p) = CHOOSE y \in H : \A i \in H : y >= i
    BY <1>1 DEF Trimmed, Max
  <2> QED BY <1>7, <1>8, <2>1
<1> QED BY <1>2, <1>7, <1>9

\* The string at p ends where it says.
LEMMA EndFound ==
    ASSUME Types, NEW p \in 0 .. Len(file) + 1, NEW e \in p .. Len(file) + 1, Ends(mem, p, e)
    PROVE  EndOf(p) = e
<1>1. PICK H : H = {i \in DOMAIN mem : i >= p /\ mem[i] = NUL}
  OBVIOUS
<1>2. DOMAIN mem = 0 .. Len(file) + 1 /\ Len(file) \in Nat
  BY DEF Types
<1>3. e \in H /\ H \subseteq Nat /\ \A i \in H : e <= i
  BY <1>1, <1>2 DEF Ends
<1>4. \A y \in H : (\A i \in H : y <= i) => y = e
  BY <1>3
<1>5. EndOf(p) = CHOOSE y \in H : \A i \in H : y <= i
  BY <1>1 DEF EndOf, Min
<1> QED BY <1>3, <1>4, <1>5

-----------------------------------------------------------------------------
(* Writing the list *)

\* What is written behind a list leaves it alone.
LEMMA ListKept ==
    ASSUME NEW a, NEW b, NEW top \in Nat, \A i \in 0 .. top - 1 : b[i] = a[i], NEW T, Strings(a, T, top)
    PROVE  Strings(b, T, top)
<1>1. ASSUME NEW p \in T \ {top}
      PROVE  Entry(b, T, p, top)
  <2>1. p \in 0 .. top - 1 /\ Entry(a, T, p, top)
    BY <1>1 DEF Strings
  <2>2. b[p] = a[p]
    BY <2>1
  <2>3. \A q \in p .. top - 1, e \in p .. top - 1 : Ends(a, q, e) => Ends(b, q, e)
    BY <2>1 DEF Ends
  <2>4. CASE a[p] = "["
    <3>1. PICK e \in p .. top - 1 : Ends(a, p, e) /\ e + 1 \in T
      BY <2>1, <2>4 DEF Entry
    <3>2. p \in p .. top - 1
      BY <2>1
    <3>3. Ends(b, p, e)
      BY <2>3, <3>1, <3>2
    <3> QED BY <2>1, <2>2, <2>4, <3>1, <3>3 DEF Entry
  <2>5. CASE a[p] # "["
    <3>1. PICK e \in p .. top - 1, f \in p .. top - 1 :
             e < f /\ Ends(a, p, e) /\ Ends(a, e + 1, f) /\ f + 1 \in T
      BY <2>1, <2>5 DEF Entry
    <3>2. p \in p .. top - 1 /\ e + 1 \in p .. top - 1
      BY <2>1, <3>1
    <3>3. Ends(b, p, e) /\ Ends(b, e + 1, f)
      BY <2>3, <3>1, <3>2
    <3> QED BY <2>1, <2>2, <2>5, <3>1, <3>3 DEF Entry
  <2> QED BY <2>4, <2>5
<1> QED BY <1>1 DEF Strings

LEMMA ListStays ==
    ASSUME NEW a, NEW b, NEW top \in Nat, \A i \in 0 .. top - 1 : b[i] = a[i], List(a, top)
    PROVE  List(b, top)
BY ListKept DEF List

\* A list with one more section, or one more key and value, is a list.
LEMMA ListGrows ==
    ASSUME NEW a, NEW top \in Nat, NEW new \in Nat, top < new, List(a, top),
           Entry(a, {new}, top, new)
    PROVE  List(a, new)
<1>1. PICK T : Strings(a, T, top)
  BY DEF List
<1>2. PICK U : U = T \cup {new}
  OBVIOUS
<1>3. U \subseteq 0 .. new /\ 0 \in U /\ new \in U
  BY <1>1, <1>2 DEF Strings
<1>4. ASSUME NEW p \in U \ {new}
      PROVE  Entry(a, U, p, new)
  <2>1. CASE p = top
    BY <1>2, <2>1 DEF Entry
  <2>2. CASE p # top
    <3>1. Entry(a, T, p, top) /\ p \in Nat
      BY <1>1, <1>2, <1>4, <2>2 DEF Strings
    <3>2. p .. top - 1 \subseteq p .. new - 1
      BY <3>1
    <3> QED BY <1>2, <3>1, <3>2 DEF Entry
  <2> QED BY <2>1, <2>2
<1> QED BY <1>3, <1>4 DEF List, Strings

\* The characters from b to e - 1 are moved to where they lie from d to z - 1, and those
\* from e on stay.
Moved(c, b, e, z) ==
    /\ c = [i \in 0 .. Len(file) + 1 |-> c[i]]
    /\ \A i \in 0 .. d - 1 : c[i] = mem[i]
    /\ \A i \in d .. z - 1 : c[i] # NUL
    /\ \A i \in e .. Len(file) + 1 : c[i] = mem[i]
    /\ b < e => c[d] = mem[b]

LEMMA CopiedText ==
    ASSUME Types, NEW b \in 0 .. Len(file), NEW e \in b .. Len(file), d <= b,
           \A i \in b .. e - 1 : mem[i] # NUL
    PROVE  Moved(Copied(b, e), b, e, d + (e - b))
<1>1. PICK n \in Nat : n = Len(file) /\ DOMAIN mem = 0 .. n + 1 /\ d \in Nat
  BY DEF Types
<1>2. PICK c : c = Copied(b, e) /\ c = [i \in 0 .. n + 1 |-> IF d <= i /\ i < d + (e - b)
                                                            THEN mem[i - d + b] ELSE mem[i]]
  <2>1. Copied(b, e) = [i \in 0 .. n + 1 |-> IF d <= i /\ i < d + (e - b)
                                            THEN mem[i - d + b] ELSE mem[i]]
    BY <1>1 DEF Copied
  <2> QED BY <2>1
<1>3. c = [i \in 0 .. n + 1 |-> c[i]]
  BY <1>2
<1>4. \A i \in 0 .. d - 1 : c[i] = mem[i]
  BY <1>1, <1>2
<1>5. ASSUME NEW i \in d .. (d + (e - b)) - 1
      PROVE  c[i] # NUL
  <2>1. i \in 0 .. n + 1 /\ i - d + b \in b .. e - 1 /\ d <= i /\ i < d + (e - b)
    BY <1>1
  <2> QED BY <1>2, <2>1
<1>6. \A i \in e .. n + 1 : c[i] = mem[i]
  BY <1>1, <1>2
<1>7. ASSUME b < e
      PROVE  c[d] = mem[b]
  <2>1. d \in 0 .. n + 1 /\ d <= d /\ d < d + (e - b) /\ d - d + b = b
    BY <1>1, <1>7
  <2> QED BY <1>2, <2>1
<1> QED BY <1>1, <1>2, <1>3, <1>4, <1>5, <1>6, <1>7 DEF Moved
\* A string from d to its terminator at z, with the text from e on still to be read.
Written(w, z, e) ==
    /\ w = [i \in 0 .. Len(file) + 1 |-> w[i]]
    /\ \A i \in 0 .. d - 1 : w[i] = mem[i]
    /\ Ends(w, d, z)
    /\ \A i \in e .. Len(file) + 1 : w[i] = mem[i] \/ w[i] = NUL

LEMMA TerminatedText ==
    ASSUME Types, NEW b \in 0 .. Len(file), NEW e \in b .. Len(file), d <= b,
           NEW c, Moved(c, b, e, d + (e - b)), NEW z \in d .. d + (e - b)
    PROVE  /\ Written([c EXCEPT ![z] = NUL], z, e)
           /\ b < e /\ d < z => [c EXCEPT ![z] = NUL][d] = mem[b]
<1>1. PICK n \in Nat : n = Len(file) /\ d \in Nat
  BY DEF Types
<1>2. PICK t \in d .. e : t = d + (e - b) /\ z \in d .. t
  <2>1. d + (e - b) \in d .. e
    BY <1>1
  <2> QED BY <2>1
<1>3. PICK w : w = [c EXCEPT ![z] = NUL]
  OBVIOUS
<1>4. /\ c = [i \in 0 .. n + 1 |-> c[i]]
      /\ \A i \in 0 .. d - 1 : c[i] = mem[i]
      /\ \A i \in d .. t - 1 : c[i] # NUL
      /\ \A i \in e .. n + 1 : c[i] = mem[i]
      /\ b < e => c[d] = mem[b]
  BY <1>1, <1>2 DEF Moved
<1>5. z \in 0 .. n + 1 /\ w = [i \in 0 .. n + 1 |-> IF i = z THEN NUL ELSE c[i]]
  <2>1. z \in 0 .. n + 1
    BY <1>1, <1>2
  <2> QED BY <1>3, <1>4, <2>1
<1>6. \A i \in 0 .. n + 1 : w[i] = IF i = z THEN NUL ELSE c[i]
  BY <1>5
<1>7. w = [i \in 0 .. n + 1 |-> w[i]]
  BY <1>5
<1>8. \A i \in 0 .. d - 1 : w[i] = mem[i]
  <2>1. \A i \in 0 .. d - 1 : i \in 0 .. n + 1 /\ i # z
    BY <1>1, <1>2
  <2> QED BY <1>4, <1>6, <2>1
<1>9. Ends(w, d, z)
  <2>1. \A i \in d .. z - 1 : i \in 0 .. n + 1 /\ i # z /\ i \in d .. t - 1
    BY <1>1, <1>2
  <2> QED BY <1>4, <1>5, <1>6, <2>1 DEF Ends
<1>10. \A i \in e .. n + 1 : w[i] = mem[i] \/ w[i] = NUL
  <2>1. \A i \in e .. n + 1 : i \in 0 .. n + 1
    BY <1>1
  <2> QED BY <1>4, <1>6, <2>1
<1>11. ASSUME b < e, d < z
       PROVE  w[d] = mem[b]
  <2>1. d \in 0 .. n + 1 /\ d # z
    BY <1>1, <1>2, <1>11
  <2> QED BY <1>4, <1>6, <1>11, <2>1
<1> QED BY <1>1, <1>3, <1>7, <1>8, <1>9, <1>10, <1>11 DEF Written

-----------------------------------------------------------------------------
(* The parser *)

\* A step of the parser goes forward in the text, behind which it writes.
LEMMA ParseStep ==
    ASSUME ConfInv, Parsing, Parsing', file' = file, m' = m, s' \in s .. Len(file),
           mem' = [i \in 0 .. Len(file) + 1 |-> mem'[i]],
           \A i \in s' .. Len(file) + 1 : mem'[i] = mem[i] \/ mem'[i] = NUL,
           d' \in Nat, d' <= s' + 1, GapOK', ListOK'
    PROVE  ConfInv'
<1>1. PICK n \in Nat : n = Len(file) /\ s \in Nat /\ s' \in s .. n
  BY DEF ConfInv, Types
<1>2. Types'
  <2>1. s' \in DOMAIN mem'
    BY <1>1
  <2>2. d' \in 0 .. Len(file') + 2 /\ s' \in Nat /\ Len(file') \in Nat
    BY <1>1
  <2>3. m' \in BOOLEAN /\ file' \in Files
    BY DEF ConfInv, Types, TypeOK
  <2>4. mem' = [i \in 0 .. Len(file') + 1 |-> mem'[i]]
    OBVIOUS
  <2>5. pc' \in {"load", "failed", "line", "switch", "value", "quoted", "rest", "find", "found", "done"}
    BY DEF Parsing
  <2> QED BY <2>1, <2>2, <2>3, <2>4, <2>5 DEF Types, TypeOK
<1>3. TextOK'
  <2>1. ASSUME NEW i \in s' .. Len(file) + 1
        PROVE  (i >= Len(file) => mem'[i] = NUL) /\ (mem'[i] = "b" => i + 1 < Len(file))
    <3>1. i \in s .. Len(file) + 1
      BY <1>1
    <3>2. (i >= Len(file) => mem[i] = NUL) /\ (mem[i] = "b" => i + 1 < Len(file))
      BY <3>1 DEF ConfInv, TextOK
    <3>3. NUL # "b"
      BY DEF NUL
    <3> QED BY <3>2, <3>3
  <2> QED BY <1>1, <2>1 DEF TextOK, Parsing
<1> QED BY <1>2, <1>3 DEF ConfInv

\* What every step of the parser finds.
LEMMA ParseFacts ==
    ASSUME ConfInv, Parsing
    PROVE  /\ Types /\ Len(file) \in Nat /\ s \in 0 .. Len(file) /\ d \in Nat
           /\ DOMAIN mem = 0 .. Len(file) + 1 /\ mem = [i \in 0 .. Len(file) + 1 |-> mem[i]]
           /\ mem[Len(file)] = NUL /\ (mem[s] # NUL => s < Len(file))
           /\ \A e \in s .. Len(file) : mem[e] # NUL => e + 1 \in 0 .. Len(file)
<1>1. Types /\ Len(file) \in Nat /\ s \in Nat /\ s <= Len(file) /\ d \in Nat
  BY DEF ConfInv, Types, TextOK
<1>2. mem = [i \in 0 .. Len(file) + 1 |-> mem[i]]
  BY DEF ConfInv, Types
<1>3. DOMAIN mem = 0 .. Len(file) + 1
  BY <1>2
<1>4. \A i \in s .. Len(file) + 1 : i >= Len(file) => mem[i] = NUL
  BY DEF ConfInv, TextOK
<1>5. mem[Len(file)] = NUL
  BY <1>1, <1>4
<1>6. \A e \in s .. Len(file) : mem[e] # NUL => e + 1 \in 0 .. Len(file)
  BY <1>1, <1>5
<1> QED BY <1>1, <1>2, <1>3, <1>5, <1>6

\* Nothing is written at the start of a line, where there is nothing in it, or behind it.
LEMMA SkipInv == ConfInv /\ (StartLine \/ SkipLine \/ EndLine) => ConfInv'
<1> SUFFICES ASSUME ConfInv, StartLine \/ SkipLine \/ EndLine PROVE ConfInv'
  OBVIOUS
<1>1. /\ Parsing /\ Parsing' /\ UNCHANGED <<file, mem, d, m>>
      /\ pc \in {"line", "switch", "rest"} /\ pc' \in {"line", "switch", "rest"}
  BY DEF StartLine, SkipLine, EndLine, Parsing, parseVars, findVars
<1>2. ListOK'
  BY <1>1 DEF ConfInv, ListOK
<1>3. /\ s' \in s .. Len(file) /\ d <= s' + 1 /\ GapOK'
  <2>1. CASE StartLine
    <3>1. pc = "line" /\ pc' = "switch" /\ mem[s] # NUL /\ s' = Past(s, Blank)
      BY <2>1 DEF StartLine
    <3>2. s' \in s .. Len(file) /\ mem[s'] \notin Blank
      BY <1>1, <3>1, ParseFacts, PastFound
    <3>3. d <= s
      BY <1>1, <3>1, ParseFacts DEF ConfInv, GapOK
    <3> QED BY <1>1, <3>1, <3>2, <3>3, ParseFacts DEF GapOK
  <2>2. CASE SkipLine
    <3>1. pc = "switch" /\ pc' = "rest" /\ s' = s
      BY <2>2 DEF SkipLine, parseVars
    <3> QED BY <1>1, <3>1, ParseFacts DEF ConfInv, GapOK
  <2>3. CASE EndLine
    <3>1. PICK e : e = Until(s, Ending) /\ s' = (IF mem[e] # NUL THEN e + 1 ELSE e)
                   /\ pc = "rest" /\ pc' = "line"
      BY <2>3 DEF EndLine
    <3>2. Stops(s, Ending, e)
      BY <1>1, <3>1, ParseFacts, UntilFound
    <3>3. s' \in s .. Len(file) /\ (mem[s] = NUL => s' = s)
      <4>1. e \in s .. Len(file) /\ (mem[s] = NUL => e = s)
        BY <1>1, <3>2, ParseFacts DEF Stops
      <4> QED BY <1>1, <3>1, <4>1, ParseFacts
    <3> QED BY <1>1, <3>1, <3>3, ParseFacts DEF ConfInv, GapOK
  <2> QED BY <2>1, <2>2, <2>3
<1> QED BY <1>1, <1>2, <1>3, ParseStep, ParseFacts

\* A section is a new entry of the list.
LEMMA SectionInv == ConfInv /\ Section => ConfInv'
<1> SUFFICES ASSUME ConfInv, Section PROVE ConfInv'
  OBVIOUS
<1>1. /\ Parsing /\ Parsing' /\ UNCHANGED <<file, m>> /\ pc = "switch" /\ pc' = "rest" /\ mem[s] = "["
  BY DEF Section, Parsing, findVars
<1>2. PICK n \in Nat : n = Len(file) /\ s \in 0..n /\ d \in Nat /\ d <= s
  BY <1>1, ParseFacts DEF ConfInv, GapOK
<1>3. PICK e : /\ e = Until(s, {"]"} \cup Ending)
               /\ mem' = [Copied(s, e) EXCEPT ![d + (e - s)] = NUL] /\ d' = d + (e - s) + 1
               /\ s' = IF mem[e] # NUL THEN Past(e + 1, Blank) ELSE e
  BY DEF Section
<1>4. e \in Nat /\ e \in s .. n /\ s < e /\ \A i \in s .. e - 1 : mem[i] # NUL
  <2>1. Stops(s, {"]"} \cup Ending, e)
    BY <1>1, <1>2, <1>3, ParseFacts, UntilFound
  <2>2. mem[s] \notin {"]"} \cup Ending \cup {NUL}
    BY <1>1 DEF Ending, NUL
  <2> QED BY <1>2, <2>1, <2>2 DEF Stops
<1>5. PICK z \in Nat : z = d + (e - s) /\ d < z /\ z <= e /\ z \in d .. d + (e - s)
  <2>1. d + (e - s) \in Nat /\ d < d + (e - s) /\ d + (e - s) <= e
    BY <1>2, <1>4
  <2> QED BY <1>2, <2>1
<1>6. Written(mem', z, e) /\ mem'[d] = "["
  <2>1. e \in s .. Len(file) /\ s \in 0 .. Len(file)
    BY <1>2, <1>4
  <2>2. Moved(Copied(s, e), s, e, d + (e - s))
    BY <1>1, <1>2, <1>4, <2>1, ParseFacts, CopiedText
  <2>3. mem' = [Copied(s, e) EXCEPT ![z] = NUL]
    BY <1>3, <1>5
  <2>4. d <= s /\ s < e /\ d < z /\ z \in d .. d + (e - s) /\ Types
    BY <1>1, <1>2, <1>4, <1>5, ParseFacts
  <2> QED BY <1>1, <2>1, <2>2, <2>3, <2>4, TerminatedText, Zenon
<1>7. s' \in Nat /\ s' \in s .. n /\ s' >= e /\ (mem[e] # NUL => s' >= e + 1) /\ (mem[e] = NUL => s' = e)
  <2>1. CASE mem[e] # NUL
    <3>1. e + 1 \in 0 .. Len(file)
      BY <1>1, <1>2, <1>4, <2>1, ParseFacts
    <3>2. Past(e + 1, Blank) \in e + 1 .. Len(file)
      BY <1>1, <3>1, ParseFacts, PastFound
    <3> QED BY <1>2, <1>3, <1>4, <2>1, <3>2
  <2>2. CASE mem[e] = NUL
    BY <1>2, <1>3, <1>4, <2>2
  <2> QED BY <2>1, <2>2
<1>8. d' = z + 1 /\ d' \in Nat /\ d' <= s' + 1
  BY <1>2, <1>3, <1>4, <1>5, <1>7, SMTT(20)
<1>9. \A i \in s' .. n + 1 : mem'[i] = mem[i] \/ mem'[i] = NUL
  BY <1>2, <1>4, <1>6, <1>7 DEF Written
<1>10. GapOK'
  <2>1. d' = s' + 1 => s' = z
    <3>1. s' \in Nat /\ d' = z + 1
      BY <1>7, <1>8
    <3>2. \A x \in Nat, y \in Nat : x + 1 = y + 1 => x = y
      OBVIOUS
    <3> QED BY <3>1, <3>2, <1>5
  <2>2. mem'[z] = NUL
    BY <1>6 DEF Written, Ends
  <2> QED BY <1>1, <1>8, <2>1, <2>2 DEF GapOK
<1>11. ListOK'
  <2>1. List(mem', d)
    BY <1>1, <1>2, <1>6, ListStays DEF ConfInv, ListOK, Written
  <2>2. Entry(mem', {z + 1}, d, z + 1)
    <3>1. z \in d .. (z + 1) - 1 /\ Ends(mem', d, z)
      BY <1>2, <1>5, <1>6 DEF Written
    <3> QED BY <1>6, <3>1 DEF Entry, NUL
  <2>3. List(mem', z + 1)
    BY <1>2, <1>5, <2>1, <2>2, ListGrows
  <2> QED BY <1>1, <1>8, <2>3 DEF ListOK
<1>12. mem' = [i \in 0 .. Len(file) + 1 |-> mem'[i]]
  BY <1>6 DEF Written
<1> QED BY <1>1, <1>2, <1>7, <1>8, <1>9, <1>10, <1>11, <1>12, ParseStep
\* A key without a value is overwritten.
LEMMA ValuelessKeyInv == ConfInv /\ ValuelessKey => ConfInv'
<1> SUFFICES ASSUME ConfInv, ValuelessKey PROVE ConfInv'
  OBVIOUS
<1>1. Parsing /\ Parsing' /\ UNCHANGED <<file, d, m>> /\ pc = "switch" /\ pc' = "rest"
  BY DEF ValuelessKey, IsKey, Parsing, findVars
<1>2. PICK n \in Nat : n = Len(file) /\ s \in 0..n /\ d \in Nat /\ d <= s
  BY <1>1, ParseFacts DEF ConfInv, GapOK
<1>3. PICK e : e = Until(s, {"="} \cup Ending) /\ mem' = Copied(s, e) /\ s' = e
  BY DEF ValuelessKey
<1>4. e \in Nat /\ e \in s .. n /\ \A i \in s .. e - 1 : mem[i] # NUL
  <2>1. Stops(s, {"="} \cup Ending, e)
    BY <1>1, <1>2, <1>3, ParseFacts, UntilFound
  <2> QED BY <1>2, <2>1 DEF Stops
<1>5. Moved(mem', s, e, d + (e - s))
  <2>1. e \in s .. Len(file) /\ s \in 0 .. Len(file)
    BY <1>2, <1>4
  <2> QED BY <1>1, <1>2, <1>3, <1>4, <2>1, ParseFacts, CopiedText
<1>6. ListOK'
  BY <1>1, <1>2, <1>5, ListStays DEF ConfInv, ListOK, Moved
<1>7. \A i \in s' .. n + 1 : mem'[i] = mem[i] \/ mem'[i] = NUL
  BY <1>2, <1>3, <1>5 DEF Moved
<1>8. d' <= s' /\ d' \in Nat /\ s' \in s .. n
  BY <1>1, <1>2, <1>3, <1>4
<1>9. GapOK' /\ d' <= s' + 1
  BY <1>1, <1>2, <1>3, <1>4, <1>8 DEF GapOK
<1>10. mem' = [i \in 0 .. Len(file) + 1 |-> mem'[i]]
  BY <1>5 DEF Moved
<1> QED BY <1>1, <1>2, <1>6, <1>7, <1>8, <1>9, <1>10, ParseStep

\* A key is written with its terminator, and its value is to follow.
LEMMA KeyInv == ConfInv /\ Key => ConfInv'
<1> SUFFICES ASSUME ConfInv, Key PROVE ConfInv'
  OBVIOUS
<1>1. /\ Parsing /\ Parsing' /\ UNCHANGED <<file, m>> /\ pc = "switch" /\ pc' = "value"
      /\ mem[s] \notin {NUL, "n", ";", "=", "["}
  BY DEF Key, IsKey, Parsing, findVars
<1>2. PICK n \in Nat : n = Len(file) /\ s \in 0..n /\ d \in Nat /\ d <= s /\ mem[s] \notin Blank
  BY <1>1, ParseFacts DEF ConfInv, GapOK
<1>3. PICK e, z : /\ e = Until(s, {"="} \cup Ending) /\ mem[e] = "="
                  /\ z = Trimmed(Copied(s, e), d + (e - s))
                  /\ mem' = [Copied(s, e) EXCEPT ![z] = NUL] /\ d' = z + 1
                  /\ s' = Past(e + 1, Blank)
  BY DEF Key
<1>4. e \in Nat /\ e \in s .. n /\ s < e /\ \A i \in s .. e - 1 : mem[i] # NUL
  <2>1. Stops(s, {"="} \cup Ending, e)
    BY <1>1, <1>2, <1>3, ParseFacts, UntilFound
  <2>2. s # e
    BY <1>1, <1>3
  <2> QED BY <1>2, <2>1, <2>2 DEF Stops
<1>5. e \in s .. Len(file) /\ s \in 0 .. Len(file)
  BY <1>2, <1>4
<1>6. Moved(Copied(s, e), s, e, d + (e - s))
  BY <1>1, <1>2, <1>4, <1>5, ParseFacts, CopiedText
<1>7. z \in Nat /\ d < z /\ z <= e /\ z \in d .. d + (e - s)
  <2>1. PICK t \in Nat : t = d + (e - s) /\ d < t /\ t <= e
    <3>1. d + (e - s) \in Nat /\ d < d + (e - s) /\ d + (e - s) <= e
      BY <1>2, <1>4
    <3> QED BY <3>1
  <2>2. Copied(s, e)[(d + 1) - 1] \notin Blank
    BY <1>2, <1>4, <1>6 DEF Moved
  <2>3. d + 1 \in 0 .. t
    BY <1>2, <2>1
  <2>4. Trimmed(Copied(s, e), t) \in d + 1 .. t
    BY <2>2, <2>3, TrimmedFound
  <2>5. z \in d + 1 .. t
    BY <1>3, <2>1, <2>4
  <2>6. z \in Nat /\ d < z /\ z <= e /\ z \in d .. t
    BY <1>2, <1>4, <2>1, <2>5
  <2> QED BY <2>1, <2>6
<1>8. Written(mem', z, e) /\ mem'[d] = mem[s]
  <2>1. d <= s /\ s < e /\ d < z /\ Types
    BY <1>1, <1>2, <1>4, <1>7, ParseFacts
  <2>2. Written([Copied(s, e) EXCEPT ![z] = NUL], z, e) /\ [Copied(s, e) EXCEPT ![z] = NUL][d] = mem[s]
    BY <1>5, <1>6, <1>7, <2>1, TerminatedText, Zenon
  <2> QED BY <1>3, <2>2, Zenon
<1>9. s' \in Nat /\ s' \in s .. n /\ s' >= e + 1
  <2>1. e + 1 \in 0 .. Len(file)
    BY <1>1, <1>2, <1>3, <1>4, ParseFacts DEF NUL
  <2>2. Past(e + 1, Blank) \in e + 1 .. Len(file)
    BY <1>1, <2>1, ParseFacts, PastFound
  <2> QED BY <1>2, <1>3, <1>4, <2>2
<1>10. d' \in Nat /\ d' <= s' /\ d' <= s' + 1
  BY <1>2, <1>3, <1>4, <1>7, <1>9, SMTT(20)
<1>11. \A i \in s' .. n + 1 : mem'[i] = mem[i] \/ mem'[i] = NUL
  BY <1>2, <1>4, <1>8, <1>9 DEF Written
<1>12. GapOK'
  BY <1>1, <1>10 DEF GapOK
<1>13. ListOK'
  <2>1. List(mem', d)
    BY <1>1, <1>2, <1>8, ListStays DEF ConfInv, ListOK, Written
  <2>2. mem'[d] # NUL /\ mem'[d] # "[" /\ Ends(mem', d, z)
    BY <1>1, <1>8 DEF Written
  <2>3. d \in 0 .. d' - 1 /\ z \in 0 .. d' - 1 /\ d <= z /\ z = d' - 1 /\ \A i \in z + 1 .. d' - 1 : FALSE
    <3>1. d \in Nat /\ z \in Nat /\ d < z /\ d' = z + 1
      BY <1>2, <1>3, <1>7
    <3> QED BY <3>1
  <2> QED BY <1>1, <2>1, <2>2, <2>3 DEF ListOK
<1>14. mem' = [i \in 0 .. Len(file) + 1 |-> mem'[i]]
  BY <1>8 DEF Written
<1> QED BY <1>1, <1>2, <1>9, <1>10, <1>11, <1>12, <1>13, <1>14, ParseStep
-----------------------------------------------------------------------------
(* Values *)

\* The key whose value is being read starts at k and ends at e.
Pending(a, k, e, top) ==
    /\ k \in Nat /\ e \in Nat /\ k <= e /\ e < top
    /\ List(a, k) /\ a[k] # NUL /\ a[k] # "[" /\ Ends(a, k, e)

LEMMA PendingKey ==
    ASSUME ConfInv, pc \in {"value", "quoted"}
    PROVE  \E k, e : /\ Pending(mem, k, e, d) /\ \A i \in e + 1 .. d - 1 : mem[i] # NUL
                     /\ pc = "value" => e = d - 1
<1>1. d \in Nat
  BY DEF ConfInv, Types
<1>2. PICK k \in 0 .. d - 1, e \in 0 .. d - 1 :
         /\ k <= e /\ List(mem, k) /\ mem[k] # NUL /\ mem[k] # "[" /\ Ends(mem, k, e)
         /\ \A i \in e + 1 .. d - 1 : mem[i] # NUL
         /\ pc = "value" => e = d - 1
  BY DEF ConfInv, ListOK
<1>3. k \in Nat /\ e \in Nat /\ e < d
  BY <1>1
<1> QED BY <1>2, <1>3 DEF Pending

\* Behind the key more may be written.
LEMMA PendingStays ==
    ASSUME NEW a, NEW b, NEW k, NEW e, NEW top \in Nat, Pending(a, k, e, top),
           \A i \in 0 .. top - 1 : b[i] = a[i]
    PROVE  Pending(b, k, e, top)
<1>1. k \in Nat /\ e \in Nat /\ k <= e /\ e < top
  BY DEF Pending
<1>2. List(b, k)
  <2>1. \A i \in 0 .. k - 1 : b[i] = a[i]
    BY <1>1
  <2> QED BY <1>1, <2>1, ListStays DEF Pending
<1>3. b[k] = a[k] /\ b[e] = a[e] /\ \A i \in k .. e - 1 : b[i] = a[i]
  BY <1>1
<1> QED BY <1>1, <1>2, <1>3 DEF Pending, Ends

\* The value completes the entry.
LEMMA PendingDone ==
    ASSUME NEW a, NEW k, NEW e, NEW top, Pending(a, k, e, top), NEW z \in Nat, e < z, Ends(a, e + 1, z)
    PROVE  List(a, z + 1)
<1>1. k \in Nat /\ e \in Nat /\ k <= e /\ e < z
  BY DEF Pending
<1>2. e \in k .. (z + 1) - 1 /\ z \in k .. (z + 1) - 1 /\ k < z + 1 /\ z + 1 \in Nat
  BY <1>1
<1>3. Entry(a, {z + 1}, k, z + 1)
  BY <1>1, <1>2 DEF Pending, Entry
<1> QED BY <1>1, <1>2, <1>3, ListGrows DEF Pending

\* A value without quotation marks.
LEMMA PlainValueInv == ConfInv /\ PlainValue => ConfInv'
<1> SUFFICES ASSUME ConfInv, PlainValue PROVE ConfInv'
  OBVIOUS
<1>1. Parsing /\ Parsing' /\ UNCHANGED <<file, m>> /\ pc = "value" /\ pc' = "rest"
  BY DEF PlainValue, Parsing, findVars
<1>2. PICK n \in Nat : n = Len(file) /\ s \in 0..n /\ d \in Nat /\ d <= s
  BY <1>1, ParseFacts DEF ConfInv, GapOK
<1>3. PICK e, z : /\ e = Until(s, {";"} \cup Ending)
                  /\ z = Trimmed(Copied(s, e), d + (e - s))
                  /\ mem' = [Copied(s, e) EXCEPT ![z] = NUL] /\ d' = z + 1 /\ s' = e
  BY DEF PlainValue
<1>4. e \in Nat /\ e \in s .. n /\ \A i \in s .. e - 1 : mem[i] # NUL
  <2>1. Stops(s, {";"} \cup Ending, e)
    BY <1>1, <1>2, <1>3, ParseFacts, UntilFound
  <2>2. e \in s .. n /\ \A i \in s .. e - 1 : mem[i] # NUL
    BY <1>2, <2>1 DEF Stops
  <2> QED BY <1>2, <2>2
<1>5. e \in s .. Len(file) /\ s \in 0 .. Len(file)
  BY <1>2, <1>4
<1>6. Moved(Copied(s, e), s, e, d + (e - s))
  BY <1>1, <1>2, <1>4, <1>5, ParseFacts, CopiedText
<1>7. PICK k, f : Pending(mem, k, f, d) /\ f = d - 1
  BY <1>1, PendingKey
<1>8. f \in Nat /\ d = f + 1 /\ mem[d - 1] = NUL
  BY <1>2, <1>7 DEF Pending, Ends
<1>9. z \in Nat /\ d <= z /\ z <= e /\ z \in d .. d + (e - s)
  <2>1. PICK t \in Nat : t = d + (e - s) /\ d <= t /\ t <= e
    <3>1. d + (e - s) \in Nat /\ d <= d + (e - s) /\ d + (e - s) <= e
      BY <1>2, <1>4
    <3> QED BY <3>1
  <2>2. Copied(s, e)[d - 1] \notin Blank
    <3>1. NUL \notin Blank
      BY DEF NUL, Blank
    <3>2. d - 1 \in 0 .. d - 1
      BY <1>2, <1>8
    <3> QED BY <1>6, <1>8, <3>1, <3>2 DEF Moved
  <2>3. d \in 0 .. t
    BY <1>2, <2>1
  <2>4. Trimmed(Copied(s, e), t) \in d .. t
    BY <2>2, <2>3, TrimmedFound
  <2>5. z \in d .. t
    BY <1>3, <2>1, <2>4
  <2>6. z \in Nat /\ d <= z /\ z <= e /\ z \in d .. t
    BY <1>2, <1>4, <2>1, <2>5
  <2> QED BY <2>1, <2>6
<1>10. Written(mem', z, e)
  <2>1. d <= s /\ Types
    BY <1>1, <1>2, ParseFacts
  <2>2. Written([Copied(s, e) EXCEPT ![z] = NUL], z, e)
    BY <1>5, <1>6, <1>9, <2>1, TerminatedText, Zenon
  <2> QED BY <1>3, <2>2, Zenon
<1>11. s' \in Nat /\ s' \in s .. n /\ d' \in Nat /\ d' <= s' + 1
  <2>1. s' = e /\ d' = z + 1 /\ z \in Nat /\ e \in Nat /\ z <= e /\ e \in s .. n
    BY <1>3, <1>4, <1>9
  <2> QED BY <2>1
<1>12. \A i \in s' .. n + 1 : mem'[i] = mem[i] \/ mem'[i] = NUL
  BY <1>2, <1>3, <1>10 DEF Written
<1>13. GapOK'
  <2>1. d' = s' + 1 => s' = z
    <3>1. s' \in Nat /\ d' = z + 1 /\ z \in Nat
      BY <1>3, <1>9, <1>11
    <3>2. \A x \in Nat, y \in Nat : x + 1 = y + 1 => x = y
      OBVIOUS
    <3> QED BY <3>1, <3>2
  <2>2. mem'[z] = NUL
    BY <1>10 DEF Written, Ends
  <2> QED BY <1>1, <1>11, <2>1, <2>2 DEF GapOK
<1>14. ListOK'
  <2>1. Pending(mem', k, f, d)
    BY <1>2, <1>7, <1>10, PendingStays DEF Written
  <2>2. Ends(mem', f + 1, z) /\ f < z
    BY <1>8, <1>9, <1>10 DEF Written
  <2>3. List(mem', z + 1)
    BY <1>9, <2>1, <2>2, PendingDone
  <2> QED BY <1>1, <1>3, <2>3 DEF ListOK
<1>15. mem' = [i \in 0 .. Len(file) + 1 |-> mem'[i]]
  BY <1>10 DEF Written
<1> QED BY <1>1, <1>2, <1>11, <1>12, <1>13, <1>14, <1>15, ParseStep

\* Text between quotation marks: more of the value, and no terminator.
LEMMA QuoteStep ==
    ASSUME ConfInv, Parsing, Parsing', pc \in {"value", "quoted"}, pc' = "quoted", UNCHANGED <<file, m>>,
           s' \in s .. Len(file), d' \in Nat, d <= d', d' < s',
           mem' = [i \in 0 .. Len(file) + 1 |-> mem'[i]],
           \A i \in 0 .. d - 1 : mem'[i] = mem[i], \A i \in d .. d' - 1 : mem'[i] # NUL,
           \A i \in s' .. Len(file) + 1 : mem'[i] = mem[i]
    PROVE  ConfInv'
<1>1. d \in Nat /\ s \in Nat /\ Len(file) \in Nat /\ s' \in Nat
  BY ParseFacts
<1>2. PICK k, e : Pending(mem, k, e, d) /\ \A i \in e + 1 .. d - 1 : mem[i] # NUL
  BY PendingKey
<1>3. Pending(mem', k, e, d) /\ k \in Nat /\ e \in Nat /\ k <= e /\ e < d
  BY <1>1, <1>2, PendingStays DEF Pending
<1>4. \A i \in e + 1 .. d' - 1 : mem'[i] # NUL
  <2> TAKE i \in e + 1 .. d' - 1
  <2>1. CASE i < d
    <3>1. i \in e + 1 .. d - 1 /\ i \in 0 .. d - 1
      BY <1>1, <1>3, <2>1
    <3> QED BY <1>2, <3>1
  <2>2. CASE ~(i < d)
    BY <1>1, <1>3, <2>2
  <2> QED BY <2>1, <2>2
<1>5. k \in 0 .. d' - 1 /\ e \in 0 .. d' - 1
  BY <1>1, <1>3
<1>6. ListOK'
  BY <1>3, <1>4, <1>5 DEF Pending, ListOK
<1>7. GapOK' /\ d' <= s' + 1
  BY <1>1 DEF GapOK
<1> QED BY <1>6, <1>7, ParseStep

LEMMA OpenQuoteInv == ConfInv /\ OpenQuote => ConfInv'
<1> SUFFICES ASSUME ConfInv, OpenQuote PROVE ConfInv'
  OBVIOUS
<1>1. Parsing /\ Parsing' /\ UNCHANGED <<file, m>> /\ pc = "value" /\ pc' = "quoted" /\ mem[s] = "q"
  BY DEF OpenQuote, Parsing, findVars
<1>2. PICK n \in Nat : n = Len(file) /\ s \in 0..n /\ d \in Nat /\ d <= s /\ s + 1 \in 0..n
  BY <1>1, ParseFacts DEF ConfInv, GapOK, NUL
<1>3. PICK e : e = Until(s + 1, Special) /\ mem' = Copied(s + 1, e) /\ d' = d + (e - s - 1) /\ s' = e
  BY DEF OpenQuote
<1>4. e \in Nat /\ e \in s + 1 .. n /\ \A i \in s + 1 .. e - 1 : mem[i] # NUL
  <2>1. Stops(s + 1, Special, e)
    BY <1>1, <1>2, <1>3, ParseFacts, UntilFound
  <2> QED BY <1>2, <2>1 DEF Stops
<1>5. PICK b \in 0 .. Len(file) : b = s + 1 /\ e \in b .. Len(file)
  BY <1>2, <1>4
<1>6. Moved(mem', b, e, d + (e - b))
  <2>1. d <= b /\ Types
    BY <1>1, <1>2, <1>5, ParseFacts
  <2> QED BY <1>3, <1>4, <1>5, <2>1, CopiedText
<1>7. d' = d + (e - b) /\ d' \in Nat /\ d <= d' /\ d' < e
  BY <1>2, <1>3, <1>4, <1>5, SMTT(30)
<1>8. s' \in s .. Len(file)
  BY <1>2, <1>3, <1>4
<1> QED BY <1>1, <1>2, <1>3, <1>6, <1>7, <1>8, QuoteStep DEF Moved

LEMMA EscapeInv == ConfInv /\ Escape => ConfInv'
<1> SUFFICES ASSUME ConfInv, Escape PROVE ConfInv'
  OBVIOUS
<1>1. Parsing /\ Parsing' /\ UNCHANGED <<file, m>> /\ pc = "quoted" /\ pc' = "quoted" /\ mem[s] = "b"
  BY DEF Escape, Parsing, findVars
<1>2. PICK n \in Nat : n = Len(file) /\ s \in 0..n /\ d \in Nat /\ d < s /\ s + 2 \in 0..n
                       /\ mem = [i \in 0 .. n + 1 |-> mem[i]]
  <2>1. s + 1 < Len(file)
    BY <1>1, ParseFacts DEF ConfInv, TextOK
  <2> QED BY <1>1, <2>1, ParseFacts DEF ConfInv, GapOK
<1> DEFINE known == mem[s + 1] \in DOMAIN Escapes
<1>4. PICK z : z = (IF known THEN d + 1 ELSE d)
  OBVIOUS
<1>5. PICK e : /\ e = Until(s + 2, Special)
               /\ mem' = [i \in DOMAIN mem |->
                            IF known /\ i = d THEN Escapes[mem[s + 1]]
                            ELSE IF z <= i /\ i < z + e - s - 2 THEN mem[i - z + s + 2] ELSE mem[i]]
               /\ d' = z + (e - s - 2) /\ s' = e
  BY <1>4, Zenon DEF Escape
<1> HIDE DEF known
<1>6. e \in Nat /\ e \in s + 2 .. n /\ \A i \in s + 2 .. e - 1 : mem[i] # NUL
  <2>1. Stops(s + 2, Special, e)
    BY <1>1, <1>2, <1>5, ParseFacts, UntilFound
  <2>2. e \in s + 2 .. n /\ \A i \in s + 2 .. e - 1 : mem[i] # NUL
    BY <1>2, <2>1 DEF Stops
  <2>3. s \in Nat /\ n \in Nat
    BY <1>2
  <2>4. \A x \in s + 2 .. n : x \in Nat
    BY <2>3
  <2> QED BY <2>2, <2>4
<1>7. z \in Nat /\ d <= z /\ z <= d + 1 /\ (~known => z = d) /\ (known => z = d + 1)
  BY <1>2, <1>4
<1>8. d' \in Nat /\ d <= d' /\ d' < e /\ s' \in s .. Len(file)
  BY <1>2, <1>5, <1>6, <1>7
<1>9. \A i \in 0 .. n + 1 :
         mem'[i] = IF known /\ i = d THEN Escapes[mem[s + 1]]
                   ELSE IF z <= i /\ i < z + e - s - 2 THEN mem[i - z + s + 2] ELSE mem[i]
  BY <1>2, <1>5
<1>10. \A i \in 0 .. d - 1 : mem'[i] = mem[i]
  <2> TAKE i \in 0 .. d - 1
  <2>1. i \in 0 .. n + 1 /\ i # d /\ ~(z <= i)
    BY <1>2, <1>7
  <2> QED BY <1>9, <2>1
<1>11. \A i \in d .. d' - 1 : mem'[i] # NUL
  <2> TAKE i \in d .. d' - 1
  <2>1. i \in 0 .. n + 1
    BY <1>2, <1>6, <1>8
  <2>2. CASE known /\ i = d
    <3>1. \A c \in DOMAIN Escapes : Escapes[c] # NUL
      BY DEF Escapes, NUL
    <3> QED BY <1>9, <2>1, <2>2, <3>1 DEF known
  <2>3. CASE ~(known /\ i = d)
    <3>1. i \in Nat /\ d <= i /\ i < z + (e - s - 2)
      <4>1. d \in Nat /\ d' \in Nat /\ d' = z + (e - s - 2)
        BY <1>2, <1>5, <1>8
      <4>2. i \in Nat /\ d <= i /\ i < d'
        BY <4>1
      <4> QED BY <4>1, <4>2
    <3>2. z <= i
      BY <1>2, <1>7, <2>3, <3>1
    <3>3. i < z + e - s - 2 /\ i - z + s + 2 \in s + 2 .. e - 1
      <4>1. s \in Nat /\ e \in Nat /\ z \in Nat /\ i \in Nat /\ s + 2 <= e
        BY <1>2, <1>6, <1>7, <3>1
      <4> QED BY <3>1, <3>2, <4>1
    <3>4. mem'[i] = mem[i - z + s + 2]
      BY <1>9, <2>1, <2>3, <3>2, <3>3
    <3> QED BY <1>6, <3>3, <3>4
  <2> QED BY <2>2, <2>3
<1>12. \A i \in e .. n + 1 : mem'[i] = mem[i]
  <2> TAKE i \in e .. n + 1
  <2>1. i \in 0 .. n + 1 /\ i # d /\ ~(i < z + e - s - 2)
    BY <1>2, <1>6, <1>7
  <2> QED BY <1>9, <2>1
<1>13. mem' = [i \in 0 .. Len(file) + 1 |-> mem'[i]]
  BY <1>2, <1>5
<1> QED BY <1>1, <1>2, <1>5, <1>8, <1>10, <1>11, <1>12, <1>13, QuoteStep

\* The closing quotation mark, or the end of the line instead of it.
LEMMA CloseQuoteInv == ConfInv /\ CloseQuote => ConfInv'
<1> SUFFICES ASSUME ConfInv, CloseQuote PROVE ConfInv'
  OBVIOUS
<1>1. /\ Parsing /\ Parsing' /\ UNCHANGED <<file, m>> /\ pc = "quoted" /\ pc' = "rest"
      /\ s' = IF mem[s] # NUL THEN Past(s + 1, Blank) ELSE s
      /\ mem' = [mem EXCEPT ![d] = NUL] /\ d' = d + 1
  BY DEF CloseQuote, Parsing, findVars
<1>2. PICK n \in Nat : n = Len(file) /\ s \in 0..n /\ d \in Nat /\ d < s
                       /\ mem = [i \in 0 .. n + 1 |-> mem[i]]
  BY <1>1, ParseFacts DEF ConfInv, GapOK
<1>3. s' \in s .. n
  <2>1. CASE mem[s] # NUL
    <3>1. s + 1 \in 0 .. Len(file)
      BY <1>1, <1>2, <2>1, ParseFacts
    <3>2. Past(s + 1, Blank) \in s + 1 .. Len(file)
      BY <1>1, <3>1, ParseFacts, PastFound
    <3> QED BY <1>1, <1>2, <2>1, <3>2
  <2>2. CASE mem[s] = NUL
    BY <1>1, <1>2, <2>2
  <2> QED BY <2>1, <2>2
<1>4. d \in 0 .. n + 1 /\ mem' = [i \in 0 .. n + 1 |-> IF i = d THEN NUL ELSE mem[i]]
  <2>1. d \in 0 .. n + 1
    BY <1>2
  <2> QED BY <1>1, <1>2, <2>1
<1>5. mem' = [i \in 0 .. Len(file) + 1 |-> mem'[i]]
  BY <1>2, <1>4
<1>6. d' \in Nat /\ d' <= s' /\ d' <= s' + 1 /\ s' \in Nat
  BY <1>1, <1>2, <1>3
<1>7. GapOK'
  BY <1>1, <1>6 DEF GapOK
<1>8. \A i \in s' .. n + 1 : mem'[i] = mem[i] \/ mem'[i] = NUL
  BY <1>2, <1>3, <1>4
<1>9. ListOK'
  <2>1. PICK k, e : Pending(mem, k, e, d) /\ \A i \in e + 1 .. d - 1 : mem[i] # NUL
    BY <1>1, PendingKey
  <2>2. \A i \in 0 .. d - 1 : mem'[i] = mem[i]
    BY <1>2, <1>4
  <2>3. Pending(mem', k, e, d) /\ e \in Nat /\ e < d
    BY <1>2, <2>1, <2>2, PendingStays DEF Pending
  <2>4. Ends(mem', e + 1, d)
    <3>1. mem'[d] = NUL
      BY <1>4
    <3>2. \A i \in e + 1 .. d - 1 : i \in 0 .. d - 1
      BY <1>2, <2>3
    <3> QED BY <2>1, <2>2, <3>1, <3>2 DEF Ends
  <2>5. List(mem', d + 1)
    BY <1>2, <2>3, <2>4, PendingDone
  <2> QED BY <1>1, <2>5 DEF ListOK
<1> QED BY <1>1, <1>2, <1>3, <1>5, <1>6, <1>7, <1>8, <1>9, ParseStep

-----------------------------------------------------------------------------
(* The beginning and the end of the text *)

LEMMA InitInv == Init => ConfInv
<1> SUFFICES ASSUME Init PROVE ConfInv
  OBVIOUS
<1>1. /\ file \in Files /\ mem = [i \in 0 .. Len(file) + 1 |-> NUL] /\ s = 0 /\ d = 0
      /\ pc = "load" /\ m = FALSE
  BY DEF Init
<1>2. Len(file) \in Nat
  <2>1. file \in Seq(ToSet(file) \ {NUL})
    BY <1>1, ConfAssumption
  <2> QED BY <2>1
<1>3. Types
  <2>1. mem = [i \in 0 .. Len(file) + 1 |-> mem[i]] /\ s \in DOMAIN mem /\ d \in 0 .. Len(file) + 2
    BY <1>1, <1>2
  <2> QED BY <1>1, <1>2, <2>1 DEF Types, TypeOK
<1> QED BY <1>1, <1>3 DEF ConfInv, TextOK, GapOK, ListOK, Parsing

LEMMA LoadInv == ConfInv /\ Load => ConfInv'
<1> SUFFICES ASSUME ConfInv, Load PROVE ConfInv'
  OBVIOUS
<1>1. /\ Types /\ pc = "load" /\ s = 0 /\ d = 0 /\ file \in Files /\ Len(file) \in Nat
      /\ mem = [i \in 0 .. Len(file) + 1 |-> mem[i]] /\ m \in BOOLEAN
  BY DEF Load, LoadFile, LoadShort, ConfInv, Types, TypeOK, TextOK
<1>2. CASE LoadShort
  <2>1. pc' = "failed" /\ UNCHANGED <<file, mem, s, d, m>>
    BY <1>2 DEF LoadShort, parseVars, findVars
  <2> QED BY <1>1, <2>1 DEF ConfInv, Types, TypeOK, TextOK, GapOK, ListOK, Parsing
<1>3. CASE LoadFile
  <2>1. PICK n \in Nat : n = Len(file) /\ DOMAIN mem = 0 .. n + 1
    BY <1>1
  <2>2. /\ mem' = [i \in 0 .. n + 1 |-> IF i < n THEN file[i + 1] ELSE NUL]
        /\ pc' = "line" /\ UNCHANGED <<file, s, d, m>>
    BY <1>3, <2>1 DEF LoadFile, findVars
  <2>3. mem' = [i \in 0 .. Len(file') + 1 |-> mem'[i]]
    BY <2>1, <2>2
  <2>4. Types'
    <3>1. s' \in DOMAIN mem' /\ d' \in 0 .. Len(file') + 2 /\ s' \in Nat /\ d' \in Nat
          /\ d' <= s' + 1 /\ Len(file') \in Nat
      BY <1>1, <2>1, <2>2
    <3> QED BY <1>1, <2>2, <2>3, <3>1 DEF Types, TypeOK
  <2>5. TextOK'
    <3>1. ASSUME NEW i \in 0 .. n + 1
          PROVE  (i >= n => mem'[i] = NUL) /\ (mem'[i] = "b" => i + 1 < n)
      <4>1. CASE i >= n
        BY <2>1, <2>2, <4>1 DEF NUL
      <4>2. CASE i < n
        <5>1. mem'[i] = file[i + 1]
          BY <2>1, <2>2, <4>2
        <5>2. file[i + 1] = "b" => i + 1 # n
          <6>1. file # <<>>
            BY <2>1, <4>2
          <6>2. file[n] # "b"
            BY <1>1, <2>1, <6>1, ConfAssumption DEF Last
          <6> QED BY <6>2
        <5> QED BY <4>2, <5>1, <5>2
      <4> QED BY <4>1, <4>2
    <3> QED BY <1>1, <2>1, <2>2, <3>1 DEF TextOK
  <2>6. List(mem', 0)
    <3>1. Strings(mem', {0}, 0)
      BY DEF Strings
    <3> QED BY <3>1 DEF List
  <2>7. GapOK' /\ ListOK'
    BY <1>1, <2>2, <2>6 DEF GapOK, ListOK
  <2> QED BY <2>4, <2>5, <2>7 DEF ConfInv
<1> QED BY <1>2, <1>3 DEF Load

\* The list gets its end, and a lookup begins at its beginning.
LEMMA EndOfFileInv == ConfInv /\ EndOfFile => ConfInv'
<1> SUFFICES ASSUME ConfInv, EndOfFile PROVE ConfInv'
  OBVIOUS
<1>1. /\ Parsing /\ UNCHANGED file /\ pc = "line" /\ pc' = "find" /\ s' = 0 /\ d' = d + 1
      /\ mem' = [mem EXCEPT ![d] = NUL]
  BY DEF EndOfFile, Parsing
<1>2. m' \in BOOLEAN
  BY Zenon DEF EndOfFile
<1>3. PICK n \in Nat : n = Len(file) /\ s \in 0..n /\ d \in Nat /\ d <= s + 1
                       /\ mem = [i \in 0 .. n + 1 |-> mem[i]]
  BY <1>1, ParseFacts DEF ConfInv, GapOK
<1>4. d \in 0 .. n + 1
  BY <1>3
<1>5. mem' = [i \in 0 .. n + 1 |-> IF i = d THEN NUL ELSE mem[i]]
  BY <1>1, <1>3, <1>4
<1>6. Types'
  <2>1. mem' = [i \in 0 .. Len(file') + 1 |-> mem'[i]] /\ Len(file') \in Nat
    BY <1>1, <1>3, <1>5
  <2>2. s' \in DOMAIN mem' /\ s' \in Nat /\ d' \in Nat /\ d' \in 0 .. Len(file') + 2
    BY <1>1, <1>3, <1>4, <1>5
  <2>3. file' \in Files
    BY <1>1 DEF ConfInv, Types
  <2> QED BY <1>1, <1>2, <2>1, <2>2, <2>3 DEF Types, TypeOK
<1>7. ListOK'
  <2>1. PICK T : Strings(mem, T, d)
    BY <1>1 DEF ConfInv, ListOK, List
  <2>2. \A i \in 0 .. d - 1 : mem'[i] = mem[i]
    BY <1>4, <1>5
  <2>3. Strings(mem', T, d)
    BY <1>3, <2>1, <2>2, ListKept
  <2>4. d' > 0 /\ d' - 1 = d /\ mem'[d] = NUL /\ s' \in T
    BY <1>1, <1>3, <1>4, <1>5, <2>1 DEF Strings
  <2> QED BY <1>1, <2>3, <2>4 DEF ListOK
<1> QED BY <1>1, <1>6, <1>7 DEF ConfInv, TextOK, GapOK, Parsing

-----------------------------------------------------------------------------
(* The lookup *)

\* From where a section or a key begins the next one is found.
LEMMA NextEntry ==
    ASSUME Types, d > 0, mem[d - 1] = NUL, NEW T, Strings(mem, T, d - 1), s \in T
    PROVE  /\ mem[s] = "[" => EndOf(s) + 1 \in T
           /\ mem[s] \notin {NUL, "["} => EndOf(EndOf(s) + 1) + 1 \in T
<1>1. PICK n \in Nat : n = Len(file) /\ d \in Nat /\ d <= n + 2
  BY DEF Types, TypeOK
<1>2. PICK top \in 0 .. n + 1 : top = d - 1
  <2>1. d - 1 \in 0 .. n + 1
    BY <1>1
  <2> QED BY <2>1
<1>3. T \subseteq 0 .. top /\ \A p \in T \ {top} : Entry(mem, T, p, top)
  BY <1>2 DEF Strings
<1>4. s \in 0 .. top /\ s \in 0 .. Len(file) + 1
  BY <1>1, <1>2, <1>3
<1>5. \A e \in s .. top - 1 : e \in s .. Len(file) + 1 /\ e + 1 \in 0 .. Len(file) + 1
  BY <1>1, <1>2, <1>4
<1>6. ASSUME mem[s] = "["
      PROVE  EndOf(s) + 1 \in T
  <2>1. s # top
    BY <1>2, <1>6 DEF NUL
  <2>2. PICK e \in s .. top - 1 : Ends(mem, s, e) /\ e + 1 \in T
    BY <1>3, <1>6, <2>1 DEF Entry
  <2>3. EndOf(s) = e
    BY <1>4, <1>5, <2>2, EndFound
  <2> QED BY <2>2, <2>3
<1>7. ASSUME mem[s] \notin {NUL, "["}
      PROVE  EndOf(EndOf(s) + 1) + 1 \in T
  <2>1. s # top
    BY <1>2, <1>7
  <2>2. PICK e \in s .. top - 1, f \in s .. top - 1 :
           e < f /\ Ends(mem, s, e) /\ Ends(mem, e + 1, f) /\ f + 1 \in T
    BY <1>3, <1>7, <2>1 DEF Entry
  <2>3. EndOf(s) = e
    BY <1>4, <1>5, <2>2, EndFound
  <2>4. e + 1 \in 0 .. Len(file) + 1 /\ f \in e + 1 .. Len(file) + 1
    BY <1>1, <1>4, <1>5, <2>2
  <2>5. EndOf(e + 1) = f
    BY <2>2, <2>4, EndFound
  <2> QED BY <2>2, <2>3, <2>5
<1> QED BY <1>6, <1>7

\* So a lookup stays in the list.
LEMMA WalkStep ==
    ASSUME ConfInv, pc \in {"find", "found", "done"}, pc' \in {"find", "found", "done"},
           UNCHANGED <<file, mem, d>>, m' \in BOOLEAN,
           \/ s' = s
           \/ mem[s] = "[" /\ s' = EndOf(s) + 1
           \/ mem[s] \notin {NUL, "["} /\ s' = EndOf(EndOf(s) + 1) + 1
    PROVE  ConfInv'
<1>1. PICK T : d > 0 /\ mem[d - 1] = NUL /\ Strings(mem, T, d - 1) /\ s \in T
  BY DEF ConfInv, ListOK
<1>2. Types
  BY DEF ConfInv
<1>3. s' \in T
  BY <1>1, <1>2, NextEntry
<1>4. PICK n \in Nat : n = Len(file) /\ d \in Nat /\ d <= n + 2 /\ DOMAIN mem = 0 .. n + 1
  BY <1>2 DEF Types, TypeOK
<1>5. s' \in Nat /\ s' \in DOMAIN mem'
  <2>1. s' \in 0 .. d - 1
    BY <1>1, <1>3 DEF Strings
  <2> QED BY <1>4, <2>1
<1>6. Types'
  BY <1>2, <1>5 DEF Types, TypeOK
<1>7. ListOK'
  BY <1>1, <1>3 DEF ListOK
<1> QED BY <1>6, <1>7 DEF ConfInv, TextOK, GapOK, Parsing

LEMMA FindInv == ConfInv /\ (Find \/ Search) => ConfInv'
<1> SUFFICES ASSUME ConfInv, Find \/ Search PROVE ConfInv'
  OBVIOUS
<1>1. m \in BOOLEAN
  BY DEF ConfInv, Types, TypeOK
<1>2. CASE NextSection
  <2>1. m' \in BOOLEAN
    BY <1>2, Zenon DEF NextSection
  <2> QED BY <1>2, <2>1, WalkStep DEF NextSection, IsFind
<1>3. CASE NothingFound \/ Convert \/ SectionExists \/ NoSuchSection
  BY <1>1, <1>3, WalkStep
     DEF NothingFound, Convert, SectionExists, NoSuchSection, IsFind, IsSearch, parseVars, findVars
<1>4. CASE NextKey
  <2>1. /\ pc = "find" /\ pc' \in {"find", "found"} /\ UNCHANGED <<file, mem, d, m>>
        /\ mem[s] \notin {NUL, "["} /\ (s' = s \/ s' = EndOf(EndOf(s) + 1) + 1)
    BY <1>4 DEF NextKey, IsFind
  <2> QED BY <1>1, <2>1, WalkStep
<1>5. CASE PassSection
  BY <1>1, <1>5, WalkStep DEF PassSection, IsSearch
<1>6. CASE PassKey
  BY <1>1, <1>6, WalkStep DEF PassKey, IsSearch, findVars
<1> QED BY <1>2, <1>3, <1>4, <1>5, <1>6 DEF Find, Search

-----------------------------------------------------------------------------
(* The theorems *)

LEMMA NextInv == ConfInv /\ [Next]_vars => ConfInv'
<1> SUFFICES ASSUME ConfInv, [Next]_vars PROVE ConfInv'
  OBVIOUS
<1>1. CASE Load
  BY <1>1, LoadInv
<1>2. CASE Parse
  BY <1>2, SkipInv, SectionInv, ValuelessKeyInv, KeyInv, PlainValueInv, OpenQuoteInv, EscapeInv,
     CloseQuoteInv, EndOfFileInv DEF Parse
<1>3. CASE Find \/ Search
  BY <1>3, FindInv
<1>4. CASE UNCHANGED vars
  <2>1. UNCHANGED <<file, mem, s, d, pc, query, index, m, result, value>>
    BY <1>4 DEF vars, parseVars, findVars
  <2>2. Types'
    BY <2>1 DEF ConfInv, Types, TypeOK
  <2>3. TextOK' /\ GapOK'
    BY <2>1 DEF ConfInv, TextOK, GapOK, Parsing
  <2>4. ListOK'
    BY <2>1 DEF ConfInv, ListOK
  <2> QED BY <2>2, <2>3, <2>4 DEF ConfInv
<1> QED BY <1>1, <1>2, <1>3, <1>4 DEF Next, Finished

\* Between the lines of any file the memory holds a list of whole sections, keys and values,
\* and behind it, at most one character further, the text that is still to be read; a
\* lookup only ever stands where a section or a key begins, or at the end of the list
\* (conf.c:48-239).
THEOREM ConfInvHolds == Spec => []ConfInv
<1>1. Init => ConfInv
  BY InitInv
<1>2. ConfInv /\ [Next]_vars => ConfInv'
  BY NextInv
<1> QED BY <1>1, <1>2, PTL DEF Spec

\* Whatever the file says and whatever is looked up, neither pointer leaves the memory of
\* the file and its two terminators (conf.c:207-208).
THEOREM PointersInside == Spec => []TypeOK
<1>1. ConfInv => TypeOK
  BY DEF ConfInv, Types
<1> QED BY <1>1, ConfInvHolds, PTL

-----------------------------------------------------------------------------
(* ServiceInfo: bits and rows of the special service *)

\* The places of the ones in an octet, as numbers that are no powers.
LEMMA BitIs ==
    ASSUME NEW v \in Int
    PROVE  /\ Bit(v, 0) = v % 2          /\ Bit(v, 1) = (v \div 2) % 2
           /\ Bit(v, 2) = (v \div 4) % 2  /\ Bit(v, 3) = (v \div 8) % 2
           /\ Bit(v, 4) = (v \div 16) % 2 /\ Bit(v, 5) = (v \div 32) % 2
           /\ Bit(v, 6) = (v \div 64) % 2 /\ Bit(v, 7) = (v \div 128) % 2
<1>1. 2 ^ 0 = 1 /\ 2 ^ 1 = 2 /\ 2 ^ 2 = 4 /\ 2 ^ 3 = 8
  OBVIOUS
<1>2. 2 ^ 4 = 16 /\ 2 ^ 5 = 32 /\ 2 ^ 6 = 64 /\ 2 ^ 7 = 128
  OBVIOUS
<1>3. v \div 1 = v
  OBVIOUS
<1> QED BY <1>1, <1>2, <1>3 DEF Bit

\* The table _par: the seven high bits stay, and the number of ones is made even.
LEMMA ParIs ==
    ASSUME NEW v \in Octet
    PROVE  Par(v) \in Octet /\ Par(v) \div 2 = v \div 2 /\ Weight(Par(v)) % 2 = 0
<1>1. PICK h \in Int : h = 2 * (v \div 2) /\ h % 2 = 0 /\ 0 <= h /\ h <= 254
  BY DEF Octet
<1>2. PICK ones : ones = {k \in 1..7 : Bit(h, k) = 1}
  OBVIOUS
<1>3. IsFiniteSet(ones) /\ Cardinality(ones) \in Nat
  <2>1. ones \in SUBSET Nat /\ \A k \in ones : k <= 7
    BY <1>2
  <2> QED BY <2>1, FS_BoundedSetOfNaturals, FS_CardinalityType
<1>4. PICK p \in {0, 1} : p = Cardinality(ones) % 2
  BY <1>3
<1>5. PICK w \in Octet : w = h + p
  BY <1>1 DEF Octet
<1>6. Par(v) = w
  BY <1>1, <1>2, <1>4, <1>5, Zenon DEF Par
<1>10. w \in Int /\ h \in Int /\ w \div 2 = v \div 2 /\ w % 2 = p
  BY <1>1, <1>5 DEF Octet
<1>7. \A k \in 1..7 : Bit(w, k) = Bit(h, k)
  <2>1. /\ w \div 2 = h \div 2   /\ w \div 4 = h \div 4   /\ w \div 8 = h \div 8
        /\ w \div 16 = h \div 16 /\ w \div 32 = h \div 32 /\ w \div 64 = h \div 64
        /\ w \div 128 = h \div 128
    BY <1>1, <1>5 DEF Octet
  <2>2. /\ Bit(w, 1) = (w \div 2) % 2  /\ Bit(w, 2) = (w \div 4) % 2
        /\ Bit(w, 3) = (w \div 8) % 2  /\ Bit(w, 4) = (w \div 16) % 2
        /\ Bit(w, 5) = (w \div 32) % 2 /\ Bit(w, 6) = (w \div 64) % 2
        /\ Bit(w, 7) = (w \div 128) % 2
    BY <1>10, BitIs
  <2>3. /\ Bit(h, 1) = (h \div 2) % 2  /\ Bit(h, 2) = (h \div 4) % 2
        /\ Bit(h, 3) = (h \div 8) % 2  /\ Bit(h, 4) = (h \div 16) % 2
        /\ Bit(h, 5) = (h \div 32) % 2 /\ Bit(h, 6) = (h \div 64) % 2
        /\ Bit(h, 7) = (h \div 128) % 2
    BY BitIs
  <2>4. /\ Bit(w, 1) = Bit(h, 1) /\ Bit(w, 2) = Bit(h, 2) /\ Bit(w, 3) = Bit(h, 3)
        /\ Bit(w, 4) = Bit(h, 4) /\ Bit(w, 5) = Bit(h, 5) /\ Bit(w, 6) = Bit(h, 6)
        /\ Bit(w, 7) = Bit(h, 7)
    BY <2>1, <2>2, <2>3
  <2> QED BY <2>4
<1>8. Bit(w, 0) = p
  <2>1. Bit(w, 0) = w % 2
    BY <1>10, BitIs
  <2> QED BY <2>1, <1>10, Zenon
<1>9. Weight(w) % 2 = 0
  <2>1. CASE p = 0
    <3>1. {k \in 0..7 : Bit(w, k) = 1} = ones
      BY <1>2, <1>7, <1>8, <2>1
    <3> QED BY <3>1, <1>4, <2>1 DEF Weight
  <2>2. CASE p = 1
    <3>1. {k \in 0..7 : Bit(w, k) = 1} = ones \cup {0}
      BY <1>2, <1>7, <1>8, <2>2
    <3>2. 0 \notin ones
      BY <1>2
    <3>3. Cardinality(ones \cup {0}) = Cardinality(ones) + 1
      BY <1>3, <3>2, FS_AddElement
    <3>4. (Cardinality(ones) + 1) % 2 = 0
      BY <1>3, <1>4, <2>2
    <3> QED BY <3>1, <3>3, <3>4 DEF Weight
  <2> QED BY <2>1, <2>2
<1> QED BY <1>6, <1>9, <1>10

\* The numbers below a multiple of eight that are multiples of eight.
LEMMA EighthsBelow ==
    ASSUME NEW n \in 0..15
    PROVE  Cardinality({j \in {i \in 0..127 : i % 8 = 0} : j < 8 * n}) = n
<1>1. PICK S : S = {j \in {i \in 0..127 : i % 8 = 0} : j < 8 * n}
  OBVIOUS
<1>2. PICK f : f = [k \in 0 .. n - 1 |-> 8 * k]
  OBVIOUS
<1>3. f \in Bijection(0 .. n - 1, S)
  <2>1. \A k \in 0 .. n - 1 : f[k] = 8 * k /\ f[k] \in S
    BY <1>1, <1>2
  <2>2. f \in [0 .. n - 1 -> S]
    BY <1>2, <2>1
  <2>3. \A a, b \in 0 .. n - 1 : f[a] = f[b] => a = b
    BY <2>1
  <2>4. \A t \in S : \E k \in 0 .. n - 1 : f[k] = t
    <3> SUFFICES ASSUME NEW t \in S PROVE \E k \in 0 .. n - 1 : f[k] = t
      OBVIOUS
    <3>1. t \div 8 \in 0 .. n - 1 /\ 8 * (t \div 8) = t
      BY <1>1
    <3> QED BY <2>1, <3>1
  <2> QED BY <2>2, <2>3, <2>4 DEF Bijection, Injection, Surjection, IsInjective
<1>4. ExistsBijection(0 .. n - 1, S)
  BY <1>3 DEF ExistsBijection
<1>5. IsFiniteSet(0 .. n - 1) /\ Cardinality(0 .. n - 1) = n
  BY FS_Interval
<1> QED BY <1>1, <1>4, <1>5, FS_Bijection

\* A receiver finds a group of rows where dsr_update_sa begins it.
LEMMA GroupIs ==
    ASSUME NEW memory, sa = UpdateSA(channels, memory), NEW g \in 1..16
    PROVE  Group(g) = 8 * (g - 1)
<1>1. Starts = {i \in 0..127 : i % 8 = 0}
  <2>1. \A i \in 0..127 : sa[i] = Row(channels, i, memory)
    BY DEF UpdateSA
  <2>2. ASSUME NEW i \in 0..127
        PROVE  sa[i][1] = 5 /\ sa[i][2] = 207 <=> i % 8 = 0
    <3>1. PICK r : r = Row(channels, i, memory) /\ r = sa[i]
      BY <2>1
    <3>2. r[1] = SyncWord(i)[1] /\ r[2] = SyncWord(i)[2]
      BY <3>1 DEF Row
    <3>3. SyncWord(i)[1] = 5 /\ (SyncWord(i)[2] = 207 <=> i % 8 = 0)
      BY DEF SyncWord
    <3> QED BY <3>1, <3>2, <3>3
  <2> QED BY <2>2, Zenon DEF Starts
<1>2. PICK E : E = {i \in 0..127 : i % 8 = 0}
  OBVIOUS
<1>3. \A n \in 0..15 : Cardinality({j \in E : j < 8 * n}) = n
  BY <1>2, EighthsBelow, Zenon
<1>4. 8 * (g - 1) \in E /\ Cardinality({j \in E : j < 8 * (g - 1)}) = g - 1
  <2>1. g - 1 \in 0..15 /\ 8 * (g - 1) \in 0..127 /\ (8 * (g - 1)) % 8 = 0
    OBVIOUS
  <2> QED BY <1>2, <1>3, <2>1
<1>5. ASSUME NEW i \in E, Cardinality({j \in E : j < i}) = g - 1
      PROVE  i = 8 * (g - 1)
  <2>1. i \div 8 \in 0..15 /\ i = 8 * (i \div 8)
    BY <1>2
  <2>2. Cardinality({j \in E : j < 8 * (i \div 8)}) = i \div 8
    BY <1>3, <2>1
  <2> QED BY <1>5, <2>1, <2>2
<1>6. (CHOOSE i \in E : Cardinality({j \in E : j < i}) = g - 1) = 8 * (g - 1)
  BY <1>4, <1>5
<1> QED BY <1>1, <1>2, <1>6 DEF Group

\* Three bits of an octet of _par.
LEMMA FieldsOf ==
    ASSUME NEW v \in Int, NEW type \in 0..15, NEW music \in {0, 1}, NEW mode \in 0..2,
           v \div 2 = 8 * type + 4 * music + mode
    PROVE  v \div 16 = type /\ (v \div 8) % 2 = music /\ (v \div 2) % 4 = mode
OBVIOUS

-----------------------------------------------------------------------------
(* ServiceInfo: the character set *)

SmallCode == {code \in Nat : code <= 9000}

\* The set has small codes only, and the blank in its own place.
LEMMA CharsetIs == (\A j \in Octet : Charset[j] \in SmallCode) /\ Charset[32] = 32
<1>1. Low \in Seq(SmallCode) /\ Len(Low) = 32
  BY DEF Low, SmallCode
<1>2. High \in Seq(SmallCode) /\ Len(High) = 96
  BY SMTT(60) DEF High, SmallCode
<1>3. ASSUME NEW j \in Octet PROVE Charset[j] \in SmallCode
  <2>1. CASE j \in 0..31
    <3>1. Charset[j] = Low[j + 1]
      BY <2>1 DEF Charset, Octet
    <3>2. PICK h \in Seq(SmallCode) : h = Low /\ Len(h) = 32
      BY <1>1, Zenon
    <3>3. PICK n \in 1 .. Len(h) : n = j + 1
      BY <2>1, <3>2
    <3>4. h[n] \in SmallCode
      BY ElementOfSeq, Zenon
    <3> QED BY <3>1, <3>2, <3>3, <3>4, Zenon
  <2>2. CASE j \in 32..127
    <3>1. Charset[j] \in {164, 175, 0} \cup {8213, 8214} \cup {j}
      BY <2>2, SMTT(20) DEF Charset, Octet
    <3> QED BY <2>2, <3>1 DEF SmallCode
  <2>3. CASE j \in 128..223
    <3>1. Charset[j] = High[j - 127]
      BY <2>3 DEF Charset, Octet
    <3>2. PICK h \in Seq(SmallCode) : h = High /\ Len(h) = 96
      BY <1>2, Zenon
    <3>3. PICK n \in 1 .. Len(h) : n = j - 127
      BY <2>3, <3>2
    <3>4. h[n] \in SmallCode
      BY ElementOfSeq, Zenon
    <3> QED BY <3>1, <3>2, <3>3, <3>4, Zenon
  <2>4. CASE j \in 224..255
    <3>1. Charset[j] = 0
      BY <2>4 DEF Charset, Octet
    <3> QED BY <3>1 DEF SmallCode
  <2>5. j \in 0..31 \/ j \in 32..127 \/ j \in 128..223 \/ j \in 224..255
    BY DEF Octet
  <2> QED BY <2>1, <2>2, <2>3, <2>4, <2>5, Zenon
<1>4. Charset[32] = 32
  BY DEF Charset, Octet
<1> QED BY <1>3, <1>4

\* What a receiver shows for a place of the set.
ShownAt(p) == IF Charset[p] # 0 THEN Charset[p] ELSE 63

\* A character of the set is shown as it is, and any other as a blank.
LEMMA CharShown ==
    ASSUME NEW code \in Code \cup {Replacement}
    PROVE  InCharset(code) \in Octet /\ ShownAt(InCharset(code)) = Shown(code)
<1>1. PICK places : places = {j \in Octet : Charset[j] = code}
  OBVIOUS
<1>2. CASE places = {}
  <2>1. InCharset(code) = 32
    BY <1>1, <1>2, Zenon DEF InCharset, Space
  <2>2. Shown(code) = 32
    BY <1>1, <1>2 DEF Shown, Space
  <2>3. ShownAt(32) = 32 /\ 32 \in Octet
    BY CharsetIs DEF ShownAt, Octet
  <2> QED BY <2>1, <2>2, <2>3, Zenon
<1>3. CASE places # {}
  <2>1. PICK least \in places : \A y \in places : least <= y
    <3>1. places \subseteq Nat
      BY <1>1 DEF Octet
    <3> QED BY <1>3, <3>1, LeastNatural
  <2>2. Min(places) \in places
    BY <2>1, Zenon DEF Min
  <2>3. InCharset(code) \in places
    BY <1>1, <1>3, <2>2, Zenon DEF InCharset
  <2>4. Charset[InCharset(code)] = code /\ InCharset(code) \in Octet
    BY <1>1, <2>3
  <2>5. code \in SmallCode
    BY <2>4, CharsetIs, Zenon
  <2>6. code # 0
    <3>1. 0 \notin Code \cup {Replacement}
      BY SMT DEF Code, Replacement
    <3> QED BY <3>1, Zenon
  <2>7. code # Replacement
    BY <2>5, SMT DEF Replacement, SmallCode
  <2> QED BY <2>4, <2>6, <2>7 DEF ShownAt, Shown
<1> QED BY <1>2, <1>3

-----------------------------------------------------------------------------
(* ServiceInfo: UTF-8 *)

LEMMA LeadIs ==
    ASSUME NEW c \in Octet
    PROVE  /\ c < 128 => Lead(c).bits = c /\ Lead(c).more = 0 /\ Lead(c).least = 0
           /\ c \in 192..223 => Lead(c).bits = c % 32 /\ Lead(c).more = 1 /\ Lead(c).least = 128
           /\ c \in 224..239 => Lead(c).bits = c % 16 /\ Lead(c).more = 2 /\ Lead(c).least = 2048
           /\ c \in 240..247 => Lead(c).bits = c % 8 /\ Lead(c).more = 3 /\ Lead(c).least = 65536
           /\ c \in Continuation \cup 248..255 =>
                  Lead(c).bits = Replacement /\ Lead(c).more = 0 /\ Lead(c).least = 0
<1>1. CASE c < 128
  <2>1. Lead(c) = [bits |-> c, more |-> 0, least |-> 0]
    BY <1>1 DEF Lead, Octet
  <2> QED BY <1>1, <2>1 DEF Octet, Continuation
<1>2. CASE c \in 192..223
  <2>1. Lead(c) = [bits |-> c % 32, more |-> 1, least |-> 128]
    BY <1>2 DEF Lead, Octet
  <2> QED BY <1>2, <2>1 DEF Octet, Continuation
<1>3. CASE c \in 224..239
  <2>1. Lead(c) = [bits |-> c % 16, more |-> 2, least |-> 2048]
    BY <1>3 DEF Lead, Octet
  <2> QED BY <1>3, <2>1 DEF Octet, Continuation
<1>4. CASE c \in 240..247
  <2>1. Lead(c) = [bits |-> c % 8, more |-> 3, least |-> 65536]
    BY <1>4 DEF Lead, Octet
  <2> QED BY <1>4, <2>1 DEF Octet, Continuation
<1>5. CASE c \in Continuation \cup 248..255
  <2>1. Lead(c) = [bits |-> Replacement, more |-> 0, least |-> 0]
    BY <1>5 DEF Lead, Octet, Continuation
  <2> QED BY <1>5, <2>1 DEF Octet, Continuation
<1> QED BY <1>1, <1>2, <1>3, <1>4, <1>5 DEF Octet, Continuation

\* The bits of the lead and of the octets that follow it, one octet at a time.
LEMMA ValueIs ==
    ASSUME NEW str \in Seq(Octet), Lead(str[1]).bits \in Nat, NEW n \in 0..3, n < Len(str)
    PROVE  /\ Value(str, 0) = Lead(str[1]).bits
           /\ n > 0 => Value(str, n) = Value(str, n - 1) * 64 + (str[n + 1] % 64)
           /\ Value(str, n) \in Nat
<1> DEFINE F(f, a) == f = [k \in 0..a |-> IF k = 0 THEN Lead(str[1]).bits
                                          ELSE f[k - 1] * 64 + (str[k + 1] % 64)]
<1>1. PICK b \in Nat : b = Lead(str[1]).bits
  OBVIOUS
<1>2. \A k \in 1..n : str[k + 1] \in Nat
  <2> SUFFICES ASSUME NEW k \in 1..n PROVE str[k + 1] \in Nat
    OBVIOUS
  <2>1. k + 1 \in 1 .. Len(str)
    OBVIOUS
  <2>2. str[k + 1] \in Octet
    BY <2>1, ElementOfSeq, Zenon
  <2>3. Octet \subseteq Nat
    BY DEF Octet
  <2> QED BY <2>2, <2>3, Zenon
<1>3. PICK w : /\ w = [k \in 0..3 |->
                     IF k = 0 THEN b
                     ELSE IF k = 1 THEN b * 64 + (str[2] % 64)
                     ELSE IF k = 2 THEN (b * 64 + (str[2] % 64)) * 64 + (str[3] % 64)
                     ELSE ((b * 64 + (str[2] % 64)) * 64 + (str[3] % 64)) * 64 + (str[4] % 64)]
  OBVIOUS
<1>4. /\ w[0] = b
      /\ w[1] = w[0] * 64 + (str[2] % 64)
      /\ w[2] = w[1] * 64 + (str[3] % 64)
      /\ w[3] = w[2] * 64 + (str[4] % 64)
  BY <1>3
<1>5. ASSUME NEW a \in 0..n
      PROVE  Value(str, a) = w[a]
  <2>1. F([k \in 0..a |-> w[k]], a)
    <3>1. ASSUME NEW k \in 0..a
          PROVE  w[k] = IF k = 0 THEN Lead(str[1]).bits
                        ELSE [i \in 0..a |-> w[i]][k - 1] * 64 + (str[k + 1] % 64)
      <4>1. CASE k = 0
        BY <1>1, <1>4, <4>1
      <4>2. CASE k # 0
        <5>1. k = 1 \/ k = 2 \/ k = 3
          BY <4>2
        <5>2. w[k] = w[k - 1] * 64 + (str[k + 1] % 64)
          BY <1>4, <5>1
        <5>3. [i \in 0..a |-> w[i]][k - 1] = w[k - 1]
          BY <4>2
        <5> QED BY <4>2, <5>2, <5>3, Zenon
      <4> QED BY <4>1, <4>2
    <3> QED BY <3>1, Zenon
  <2>2. PICK u : F(u, a) /\ Value(str, a) = u[a]
    <3>1. PICK u : u = (CHOOSE f : F(f, a)) /\ Value(str, a) = u[a]
      BY DEF Value
    <3> QED BY <2>1, <3>1
  <2>3. u[0] = w[0]
    BY <1>1, <1>4, <2>2
  <2>4. \A k \in 1..a : u[k] = u[k - 1] * 64 + (str[k + 1] % 64)
    BY <2>2
  <2>5. a >= 1 => u[1] = w[1]
    <3>1. a >= 1 => u[1] = u[0] * 64 + (str[2] % 64)
      BY <2>4
    <3> QED BY <1>4, <2>3, <3>1, Zenon
  <2>6. a >= 2 => u[2] = w[2]
    <3>1. a >= 2 => a >= 1 /\ u[2] = u[1] * 64 + (str[3] % 64)
      BY <2>4
    <3> QED BY <1>4, <2>5, <3>1, Zenon
  <2>7. a >= 3 => u[3] = w[3]
    <3>1. a >= 3 => a >= 2 /\ u[3] = u[2] * 64 + (str[4] % 64)
      BY <2>4
    <3> QED BY <1>4, <2>6, <3>1, Zenon
  <2>8. \/ a = 0
        \/ a >= 1 /\ a = 1
        \/ a >= 2 /\ a = 2
        \/ a >= 3 /\ a = 3
    OBVIOUS
  <2> QED BY <2>2, <2>3, <2>5, <2>6, <2>7, <2>8, Zenon
<1>6. /\ n > 0 => w[n] = w[n - 1] * 64 + (str[n + 1] % 64)
      /\ w[n] \in Nat
  <2>1. \A k \in 1..n : \A u \in Nat : u * 64 + (str[k + 1] % 64) \in Nat
    <3> SUFFICES ASSUME NEW k \in 1..n, NEW u \in Nat
                 PROVE  u * 64 + (str[k + 1] % 64) \in Nat
      OBVIOUS
    <3>1. PICK x \in Nat : x = str[k + 1]
      BY <1>2
    <3>2. u * 64 + (x % 64) \in Nat
      OBVIOUS
    <3> QED BY <3>1, <3>2, Zenon
  <2>2. w[0] \in Nat
    BY <1>4
  <2>3. n >= 1 => w[1] \in Nat
    <3>1. n >= 1 => \A u \in Nat : u * 64 + (str[2] % 64) \in Nat
      <4>1. n >= 1 => 1 \in 1..n
        OBVIOUS
      <4>2. 1 + 1 = 2
        OBVIOUS
      <4> QED BY <2>1, <4>1, <4>2, Zenon
    <3> QED BY <1>4, <2>2, <3>1, Zenon
  <2>4. n >= 2 => w[2] \in Nat
    <3>1. n >= 2 => n >= 1 /\ \A u \in Nat : u * 64 + (str[3] % 64) \in Nat
      <4>1. n >= 2 => n >= 1 /\ 2 \in 1..n
        OBVIOUS
      <4>2. 2 + 1 = 3
        OBVIOUS
      <4> QED BY <2>1, <4>1, <4>2, Zenon
    <3> QED BY <1>4, <2>3, <3>1, Zenon
  <2>5. n >= 3 => w[3] \in Nat
    <3>1. n >= 3 => n >= 2 /\ \A u \in Nat : u * 64 + (str[4] % 64) \in Nat
      <4>1. n >= 3 => n >= 2 /\ 3 \in 1..n
        OBVIOUS
      <4>2. 3 + 1 = 4
        OBVIOUS
      <4> QED BY <2>1, <4>1, <4>2, Zenon
    <3> QED BY <1>4, <2>4, <3>1, Zenon
  <2>6. n = 0 \/ n = 1 \/ n = 2 \/ n = 3
    OBVIOUS
  <2>7. n > 0 => w[n] = w[n - 1] * 64 + (str[n + 1] % 64)
    BY <1>4, <2>6
  <2>8. w[n] \in Nat
    BY <2>2, <2>3, <2>4, <2>5, <2>6
  <2> QED BY <2>7, <2>8
<1>7. 0 \in 0..n /\ n \in 0..n /\ (n > 0 => n - 1 \in 0..n)
  OBVIOUS
<1> QED BY <1>1, <1>4, <1>5, <1>6, <1>7, Zenon

\* The octets that follow, when the next one does not or they are all there are to be.
LEMMA FollowingIs ==
    ASSUME NEW str, Lead(str[1]).more \in Nat, NEW g \in 0 .. Lead(str[1]).more,
           \A k \in 1..g : k + 1 <= Len(str) /\ str[k + 1] \in Continuation,
           g < Lead(str[1]).more => ~(g + 2 <= Len(str) /\ str[g + 2] \in Continuation)
    PROVE  Following(str) = g
<1>1. PICK more \in Nat : more = Lead(str[1]).more
  OBVIOUS
<1>2. PICK G : G = {x \in 0 .. more :
                        \A k \in 1..x : k + 1 <= Len(str) /\ str[k + 1] \in Continuation}
  OBVIOUS
<1>3. g \in G
  BY <1>1, <1>2
<1>4. ASSUME NEW x \in G, x > g PROVE FALSE
  <2>1. g + 1 \in 1..x /\ g < more /\ (g + 1) + 1 = g + 2
    BY <1>1, <1>2, <1>4
  <2> QED BY <1>1, <1>2, <2>1
<1>5. \A x \in G : g >= x
  BY <1>1, <1>2, <1>4
<1>6. \A x \in G : (\A y \in G : x >= y) => x = g
  BY <1>1, <1>2, <1>3, <1>5
<1>7. Max(G) = g
  BY <1>3, <1>5, <1>6 DEF Max
<1> QED BY <1>1, <1>2, <1>7 DEF Following

\* A lead octet, octets that follow it as far as it asks or as they go, and nothing of
\* them left over.
LEMMA PieceRead ==
    ASSUME NEW o \in Seq(Octet), NEW r \in Seq(Octet), NEW g \in 0..3, Len(o) = g + 1,
           Lead(o[1]).bits \in Nat, Lead(o[1]).more \in 0..3, g <= Lead(o[1]).more,
           \A k \in 2 .. Len(o) : o[k] \in Continuation,
           g < Lead(o[1]).more /\ r # <<>> => r[1] \notin Continuation
    PROVE  /\ Utf8Next(o \o r).rest = r
           /\ Utf8Next(o \o r).code =
                  IF g = Lead(o[1]).more /\ Value(o, g) >= Lead(o[1]).least THEN Value(o, g)
                                                                           ELSE Replacement
<1>1. PICK str \in Seq(Octet) : str = o \o r
  BY ConcatProperties
<1>2. /\ Len(str) = Len(o) + Len(r) /\ Len(o) \in Nat /\ Len(r) \in Nat
      /\ \A k \in 1 .. Len(o) : str[k] = o[k]
      /\ Len(r) > 0 => str[g + 2] = r[1]
  <2>1. /\ Len(str) = Len(o) + Len(r) /\ Len(o) \in Nat /\ Len(r) \in Nat
        /\ \A k \in 1 .. Len(o) + Len(r) : str[k] = IF k <= Len(o) THEN o[k] ELSE r[k - Len(o)]
    BY <1>1, ConcatProperties, LenProperties
  <2>2. \A k \in 1 .. Len(o) : str[k] = o[k]
    BY <2>1
  <2>3. ASSUME Len(r) > 0 PROVE str[g + 2] = r[1]
    <3>1. g + 2 \in 1 .. Len(o) + Len(r) /\ ~(g + 2 <= Len(o)) /\ g + 2 - Len(o) = 1
      BY <2>1, <2>3
    <3> QED BY <2>1, <3>1
  <2> QED BY <2>1, <2>2, <2>3
<1>3. str[1] = o[1]
  BY <1>2
<1>4. Following(str) = g
  <2>1. \A k \in 1..g : k + 1 <= Len(str) /\ str[k + 1] \in Continuation
    <3> SUFFICES ASSUME NEW k \in 1..g
                 PROVE  k + 1 <= Len(str) /\ str[k + 1] \in Continuation
      OBVIOUS
    <3>1. k + 1 \in 2 .. Len(o) /\ k + 1 \in 1 .. Len(o)
      OBVIOUS
    <3> QED BY <1>2, <3>1
  <2>2. g < Lead(str[1]).more => ~(g + 2 <= Len(str) /\ str[g + 2] \in Continuation)
    <3>1. CASE Len(r) > 0
      <4>1. r # <<>>
        BY <3>1
      <4> QED BY <1>2, <1>3, <3>1, <4>1
    <3>2. CASE ~(Len(r) > 0)
      <4>1. ~(g + 2 <= Len(str))
        BY <1>2, <3>2
      <4> QED BY <4>1
    <3> QED BY <3>1, <3>2
  <2>3. Lead(str[1]).more \in Nat /\ g \in 0 .. Lead(str[1]).more
    BY <1>3
  <2> QED BY <2>1, <2>2, <2>3, FollowingIs
<1>5. Value(str, g) = Value(o, g) /\ Value(o, g) \in Nat
  <2>1. ASSUME NEW n \in 0..g
        PROVE  /\ Value(str, 0) = Lead(o[1]).bits /\ Value(o, 0) = Lead(o[1]).bits
               /\ n > 0 => Value(str, n) = Value(str, n - 1) * 64 + (o[n + 1] % 64)
               /\ n > 0 => Value(o, n) = Value(o, n - 1) * 64 + (o[n + 1] % 64)
               /\ Value(o, n) \in Nat
    <3>1. n \in 0..3 /\ n < Len(str) /\ n < Len(o)
      BY <1>2
    <3>2. /\ Value(str, 0) = Lead(str[1]).bits
          /\ n > 0 => Value(str, n) = Value(str, n - 1) * 64 + (str[n + 1] % 64)
      BY <1>3, <3>1, ValueIs
    <3>3. /\ Value(o, 0) = Lead(o[1]).bits
          /\ n > 0 => Value(o, n) = Value(o, n - 1) * 64 + (o[n + 1] % 64)
          /\ Value(o, n) \in Nat
      BY <3>1, ValueIs
    <3>4. str[n + 1] = o[n + 1]
      BY <1>2, <3>1
    <3> QED BY <1>3, <3>2, <3>3, <3>4
  <2>2. Value(str, 0) = Value(o, 0)
    BY <2>1
  <2>3. g >= 1 => Value(str, 1) = Value(o, 1)
    BY <2>1, <2>2
  <2>4. g >= 2 => Value(str, 2) = Value(o, 2)
    BY <2>1, <2>3
  <2>5. g >= 3 => Value(str, 3) = Value(o, 3)
    BY <2>1, <2>4
  <2> QED BY <2>1, <2>2, <2>3, <2>4, <2>5
<1>6. SubSeq(str, g + 2, Len(str)) = r
  <2>1. SubSeq(str, g + 2, Len(str)) = SubSeq(r, 1, Len(r))
    BY <1>1, <1>2, SMTT(20)
  <2> QED BY <2>1, SubSeqFull
<1>7. /\ Complete(str) <=> g = Lead(o[1]).more /\ Value(o, g) >= Lead(o[1]).least
      /\ Utf8Next(str) = [code |-> IF Complete(str) THEN Value(o, g) ELSE Replacement, rest |-> r]
  BY <1>3, <1>4, <1>5, <1>6 DEF Complete, Utf8Next
<1> QED BY <1>1, <1>7

\* A lead octet and g that follow it.
Octets(o, g) ==
    /\ o \in Seq(Octet) /\ g \in 0..3 /\ Len(o) = g + 1
    /\ Lead(o[1]).bits \in Nat /\ Lead(o[1]).more \in 0..3 /\ g <= Lead(o[1]).more
    /\ \A k \in 2 .. Len(o) : o[k] \in Continuation

LEMMA OctetsValue ==
    ASSUME NEW o, NEW g, Octets(o, g)
    PROVE  /\ Value(o, 0) = Lead(o[1]).bits
           /\ g >= 1 => Value(o, 1) = Value(o, 0) * 64 + (o[2] % 64)
           /\ g >= 2 => Value(o, 2) = Value(o, 1) * 64 + (o[3] % 64)
           /\ g >= 3 => Value(o, 3) = Value(o, 2) * 64 + (o[4] % 64)
<1>1. Value(o, 0) = Lead(o[1]).bits
  <2>1. 0 \in 0..3 /\ 0 < Len(o)
    BY DEF Octets
  <2> QED BY <2>1, ValueIs DEF Octets
<1>2. ASSUME NEW n \in 1..g
      PROVE  Value(o, n) = Value(o, n - 1) * 64 + (o[n + 1] % 64)
  <2>1. n \in 0..3 /\ n < Len(o) /\ n > 0
    BY DEF Octets
  <2> QED BY <2>1, ValueIs DEF Octets
<1>3. g \in 0..3
  BY DEF Octets
<1>4. g >= 1 => Value(o, 1) = Value(o, 1 - 1) * 64 + (o[1 + 1] % 64)
  BY <1>2, <1>3
<1>5. g >= 2 => Value(o, 2) = Value(o, 2 - 1) * 64 + (o[2 + 1] % 64)
  BY <1>2, <1>3
<1>6. g >= 3 => Value(o, 3) = Value(o, 3 - 1) * 64 + (o[3 + 1] % 64)
  BY <1>2, <1>3
<1> QED BY <1>1, <1>4, <1>5, <1>6

\* The six bits of an octet that continues a code.
LEMMA SixOf == \A b \in Continuation : /\ b % 64 \in 0..63 /\ b % 64 = b - 128
                                       /\ b < 160 => b % 64 \in 0..31
                                       /\ b < 144 => b % 64 \in 0..15
BY DEF Continuation

\* A code in groups of six bits.
LEMMA SixBits ==
    ASSUME NEW c \in Nat
    PROVE  /\ c % 64 \in 0..63 /\ c \div 64 \in Nat /\ c = (c \div 64) * 64 + (c % 64)
           /\ c \div 4096 = (c \div 64) \div 64
<1>1. PICK q \in Nat, y \in 0..63 : q = c \div 64 /\ y = c % 64 /\ c = 64 * q + y
  BY DivMod, SMT
<1>2. PICK a \in Nat, x \in 0..63 : a = q \div 64 /\ x = q % 64 /\ q = 64 * a + x
  BY DivMod, SMT
<1>4. c \div 4096 = a
  BY <1>1, <1>2, SMT
<1> QED BY <1>1, <1>2, <1>4, SMT

\* The encoding of a code is read as that code.
LEMMA EncodingRead ==
    ASSUME NEW c \in Code
    PROVE  \E g : /\ Octets(Encoding(c), g) /\ g = Lead(Encoding(c)[1]).more
                  /\ Value(Encoding(c), g) = c /\ c >= Lead(Encoding(c)[1]).least
<1>0. c \in Nat /\ c # 0 /\ c \div 4096 < 512
  BY DEF Code
<1>1. CASE c < 128
  <2>1. Encoding(c) = <<c>>
    BY <1>1, SMT DEF Encoding
  <2>5. c \in Octet
    BY <1>0, <1>1, SMT DEF Octet
  <2>2. c \in Octet /\ Lead(c).bits = c /\ Lead(c).more = 0 /\ Lead(c).least = 0
    BY <2>5, <1>1, LeadIs, SMT
  <2>3. Octets(<<c>>, 0)
    BY <1>0, <2>2 DEF Octets
  <2>4. Value(<<c>>, 0) = c
    BY <2>2, <2>3, OctetsValue, SMT
  <2> QED BY <1>0, <2>1, <2>2, <2>3, <2>4, SMT
<1>2. CASE c >= 128 /\ c < 2048
  <2>1. PICK a, x : a = c \div 64 /\ x = c % 64
    OBVIOUS
  <2>2. a \in 2..31 /\ x \in 0..63 /\ c = a * 64 + x
    BY <1>0, <1>2, <2>1, SMT
  <2>3. Encoding(c) = <<192 + a, 128 + x>>
    BY <1>0, <1>2, <2>1, SMT DEF Encoding, Follower
  <2>4. /\ 192 + a \in Octet /\ 192 + a \in 192..223 /\ (192 + a) % 32 = a
        /\ 128 + x \in Octet /\ 128 + x \in Continuation /\ (128 + x) % 64 = x
    BY <2>2, SMT DEF Octet, Continuation
  <2>5. PICK o : o = <<192 + a, 128 + x>> /\ o = Encoding(c)
    BY <2>3
  <2>6. o \in Seq(Octet) /\ Len(o) = 2 /\ o[1] = 192 + a /\ o[2] = 128 + x
    BY <2>4, <2>5
  <2>7. Lead(o[1]).bits = a /\ Lead(o[1]).more = 1 /\ Lead(o[1]).least = 128
    BY <2>4, <2>6, LeadIs, SMT
  <2>8. Octets(o, 1)
    BY <2>2, <2>4, <2>6, <2>7, SMT DEF Octets
  <2>9. Value(o, 1) = c
    <3>1. Value(o, 0) = a /\ Value(o, 1) = Value(o, 0) * 64 + (o[2] % 64)
      BY <2>7, <2>8, OctetsValue, SMT
    <3> QED BY <2>2, <2>4, <2>6, <3>1, SMT
  <2> QED BY <1>2, <2>5, <2>7, <2>8, <2>9, SMT
<1>3. CASE c >= 2048 /\ c < 65536
  <2>1. PICK a, x, y : a = c \div 4096 /\ x = (c \div 64) % 64 /\ y = c % 64
    OBVIOUS
  <2>2. a \in 0..15 /\ x \in 0..63 /\ y \in 0..63 /\ c = (a * 64 + x) * 64 + y
    BY <1>0, <1>3, <2>1, SixBits, SMT
  <2>3. Encoding(c) = <<224 + a, 128 + x, 128 + y>>
    <3>1. ~(c < 128) /\ ~(c < 2048) /\ c < 65536
      BY <1>0, <1>3, SMT
    <3>2. Encoding(c) = <<224 + (c \div 4096), Follower(c \div 64), Follower(c)>>
      BY <3>1, SMT DEF Encoding
    <3> QED BY <2>1, <3>2, SMT DEF Follower
  <2>4. /\ 224 + a \in Octet /\ 224 + a \in 224..239 /\ (224 + a) % 16 = a
        /\ 128 + x \in Octet /\ 128 + x \in Continuation /\ (128 + x) % 64 = x
        /\ 128 + y \in Octet /\ 128 + y \in Continuation /\ (128 + y) % 64 = y
    BY <2>2, SMT DEF Octet, Continuation
  <2>5. PICK o : o = <<224 + a, 128 + x, 128 + y>> /\ o = Encoding(c)
    BY <2>3
  <2>6. /\ o \in Seq(Octet) /\ Len(o) = 3 /\ o[1] = 224 + a /\ o[2] = 128 + x
        /\ o[3] = 128 + y
    BY <2>4, <2>5
  <2>7. Lead(o[1]).bits = a /\ Lead(o[1]).more = 2 /\ Lead(o[1]).least = 2048
    BY <2>4, <2>6, LeadIs, SMT
  <2>8. Octets(o, 2)
    BY <2>2, <2>4, <2>6, <2>7, SMT DEF Octets
  <2>9. /\ Value(o, 0) = a
        /\ Value(o, 1) = Value(o, 0) * 64 + (o[2] % 64)
        /\ Value(o, 2) = Value(o, 1) * 64 + (o[3] % 64)
    BY <2>7, <2>8, OctetsValue, SMT
  <2>10. Value(o, 2) = c
    <3>1. o[2] % 64 = x /\ o[3] % 64 = y
      BY <2>4, <2>6, Zenon
    <3> QED BY <2>2, <2>9, <3>1, Zenon
  <2> QED
    <3>1. c >= 2048
      BY <1>3, SMT
    <3> QED BY <2>5, <2>7, <2>8, <2>10, <3>1, SMT
<1>4. CASE c >= 65536
  <2>1. PICK a, x, y, z : /\ a = (c \div 4096) \div 64 /\ x = (c \div 4096) % 64
                          /\ y = (c \div 64) % 64 /\ z = c % 64
    OBVIOUS
  <2>2. /\ a \in 0..7 /\ x \in 0..63 /\ y \in 0..63 /\ z \in 0..63
        /\ c = ((a * 64 + x) * 64 + y) * 64 + z
    BY <1>0, <1>4, <2>1, SixBits, SMT
  <2>3. Encoding(c) = <<240 + a, 128 + x, 128 + y, 128 + z>>
    BY <1>0, <1>4, <2>1, SMT DEF Encoding, Follower
  <2>4. /\ 240 + a \in Octet /\ 240 + a \in 240..247 /\ (240 + a) % 8 = a
        /\ 128 + x \in Octet /\ 128 + x \in Continuation /\ (128 + x) % 64 = x
        /\ 128 + y \in Octet /\ 128 + y \in Continuation /\ (128 + y) % 64 = y
        /\ 128 + z \in Octet /\ 128 + z \in Continuation /\ (128 + z) % 64 = z
    BY <2>2, SMT DEF Octet, Continuation
  <2>5. PICK o : o = <<240 + a, 128 + x, 128 + y, 128 + z>> /\ o = Encoding(c)
    BY <2>3
  <2>6. /\ o \in Seq(Octet) /\ Len(o) = 4 /\ o[1] = 240 + a /\ o[2] = 128 + x
        /\ o[3] = 128 + y /\ o[4] = 128 + z
    BY <2>4, <2>5
  <2>7. Lead(o[1]).bits = a /\ Lead(o[1]).more = 3 /\ Lead(o[1]).least = 65536
    BY <2>4, <2>6, LeadIs, SMT
  <2>8. Octets(o, 3)
    BY <2>2, <2>4, <2>6, <2>7, SMT DEF Octets
  <2>9. /\ Value(o, 0) = a
        /\ Value(o, 1) = Value(o, 0) * 64 + (o[2] % 64)
        /\ Value(o, 2) = Value(o, 1) * 64 + (o[3] % 64)
        /\ Value(o, 3) = Value(o, 2) * 64 + (o[4] % 64)
    BY <2>7, <2>8, OctetsValue, SMT
  <2>10. o[2] % 64 = x /\ o[3] % 64 = y /\ o[4] % 64 = z
    BY <2>4, <2>6, Zenon
  <2>11. Value(o, 3) = c
    BY <2>2, <2>9, <2>10, Zenon
  <2> QED BY <1>4, <2>5, <2>7, <2>8, <2>11, SMT
<1> QED BY <1>0, <1>1, <1>2, <1>3, <1>4, SMT

\* Octets that encode nothing are read as one malformed code.
LEMMA MalformedRead ==
    ASSUME NEW o \in Seq(Octet \ {0}), \A n \in 2 .. Len(o) : o[n] \in Continuation,
           Stray(o) \/ Overlong(o) \/ Short(o)
    PROVE  \E g : /\ Octets(o, g)
                  /\ \/ g = Lead(o[1]).more /\ Value(o, g) = Replacement
                     \/ g = Lead(o[1]).more /\ ~(Value(o, g) >= Lead(o[1]).least)
                     \/ g < Lead(o[1]).more /\ ~Stray(o) /\ ~Overlong(o)
<1>0. /\ o \in Seq(Octet) /\ Len(o) \in 1..4 /\ Len(o) - 1 \in 0..3
      /\ \A n \in 1 .. Len(o) : o[n] \in Octet
  <2>1. Octet \ {0} \subseteq Octet
    OBVIOUS
  <2>2. o \in Seq(Octet)
    BY <2>1, SeqMonotonic
  <2>3. Len(o) \in 1..4
    BY SMT DEF Stray, Overlong, Short
  <2> QED BY <2>2, <2>3, ElementOfSeq, SMT
<1>1. PICK c \in Octet : c = o[1]
  BY <1>0, SMT
<1>2. CASE Stray(o)
  <2>1. c \in Continuation \cup 248..255 /\ Len(o) = 1
    BY <1>1, <1>2 DEF Stray
  <2>2. Lead(c).bits = Replacement /\ Lead(c).more = 0
    BY <2>1, LeadIs, SMT
  <2>3. Octets(o, 0)
    BY <1>0, <1>1, <2>1, <2>2, SMT DEF Octets, Replacement
  <2>4. Value(o, 0) = Replacement
    BY <1>1, <2>2, <2>3, OctetsValue, SMT
  <2> QED BY <1>1, <2>2, <2>3, <2>4, SMT
<1>3. CASE Overlong(o)
  <2>1. CASE Len(o) = 2 /\ c \in {192, 193}
    <3>1. Lead(c).bits = c % 32 /\ Lead(c).more = 1 /\ Lead(c).least = 128
      BY <2>1, LeadIs, SMT
    <3>2. Octets(o, 1)
      BY <1>0, <1>1, <2>1, <3>1, SMT DEF Octets
    <3>3. Value(o, 0) = c % 32 /\ Value(o, 1) = Value(o, 0) * 64 + (o[2] % 64)
      BY <1>1, <3>1, <3>2, OctetsValue, SMT
    <3>4. PICK x \in 0..63 : x = o[2] % 64
      <4>1. o[2] \in Continuation
        BY <2>1, SMT
      <4> QED BY <4>1, SixOf, Zenon
    <3>5. c % 32 \in 0..1
      BY <2>1, SMT
    <3>6. Value(o, 1) = (c % 32) * 64 + x
      BY <3>3, <3>4, Zenon
    <3>7. (c % 32) * 64 + x < 128
      BY <3>5, SMT
    <3>8. ~(Value(o, 1) >= 128)
      BY <3>5, <3>6, <3>7, SMT
    <3> QED BY <1>1, <3>1, <3>2, <3>8, Zenon
  <2>2. CASE Len(o) = 3 /\ c = 224 /\ o[2] < 160
    <3>1. Lead(c).bits = 0 /\ Lead(c).more = 2 /\ Lead(c).least = 2048
      BY <2>2, LeadIs, SMT
    <3>2. Octets(o, 2)
      BY <1>0, <1>1, <2>2, <3>1, SMT DEF Octets
    <3>3. /\ Value(o, 0) = 0 /\ Value(o, 1) = Value(o, 0) * 64 + (o[2] % 64)
          /\ Value(o, 2) = Value(o, 1) * 64 + (o[3] % 64)
      BY <1>1, <3>1, <3>2, OctetsValue, SMT
    <3>4. PICK x \in 0..31, y \in 0..63 : x = o[2] % 64 /\ y = o[3] % 64
      <4>1. o[2] \in Continuation /\ o[3] \in Continuation
        BY <2>2, SMT
      <4>2. PICK b \in Continuation : b = o[2] /\ b < 160
        BY <2>2, <4>1
      <4>3. b % 64 \in 0..31
        BY <4>2, SixOf, Zenon
      <4> QED BY <4>1, <4>2, <4>3, SixOf, Zenon
    <3>5. Value(o, 2) = (0 * 64 + x) * 64 + y
      BY <3>3, <3>4, Zenon
    <3>6. ~(Value(o, 2) >= 2048)
      BY <3>5, SMT
    <3> QED BY <1>1, <3>1, <3>2, <3>6, SMT
  <2>3. CASE Len(o) = 4 /\ c = 240 /\ o[2] < 144
    <3>1. Lead(c).bits = 0 /\ Lead(c).more = 3 /\ Lead(c).least = 65536
      BY <2>3, LeadIs, SMT
    <3>2. Octets(o, 3)
      BY <1>0, <1>1, <2>3, <3>1, SMT DEF Octets
    <3>3. /\ Value(o, 0) = 0 /\ Value(o, 1) = Value(o, 0) * 64 + (o[2] % 64)
          /\ Value(o, 2) = Value(o, 1) * 64 + (o[3] % 64)
          /\ Value(o, 3) = Value(o, 2) * 64 + (o[4] % 64)
      BY <1>1, <3>1, <3>2, OctetsValue, SMT
    <3>4. PICK x \in 0..15, y \in 0..63, z \in 0..63 :
              x = o[2] % 64 /\ y = o[3] % 64 /\ z = o[4] % 64
      <4>1. o[2] \in Continuation /\ o[3] \in Continuation /\ o[4] \in Continuation
        BY <2>3, SMT
      <4>2. PICK b \in Continuation : b = o[2] /\ b < 144
        BY <2>3, <4>1
      <4>3. b % 64 \in 0..15
        BY <4>2, SixOf, Zenon
      <4> QED BY <4>1, <4>2, <4>3, SixOf, Zenon
    <3>5. Value(o, 3) = ((0 * 64 + x) * 64 + y) * 64 + z
      <4>1. Value(o, 2) = (0 * 64 + x) * 64 + y
        BY <3>3, <3>4, Zenon
      <4> QED BY <3>3, <3>4, <4>1, Zenon
    <3>6. ~(Value(o, 3) >= 65536)
      BY <3>5, SMT
    <3> QED BY <1>1, <3>1, <3>2, <3>6, SMT
  <2> QED BY <1>1, <1>3, <2>1, <2>2, <2>3 DEF Overlong
<1>4. CASE Short(o) /\ ~Stray(o) /\ ~Overlong(o)
  <2>1. \/ Len(o) = 1 /\ c \in 192..223
        \/ Len(o) \in 1..2 /\ c \in 224..239
        \/ Len(o) \in 1..3 /\ c \in 240..247
    BY <1>1, <1>4, SMT DEF Short
  <2>2. \/ c \in 192..223 /\ Lead(c).bits = c % 32 /\ Lead(c).more = 1
        \/ c \in 224..239 /\ Lead(c).bits = c % 16 /\ Lead(c).more = 2
        \/ c \in 240..247 /\ Lead(c).bits = c % 8 /\ Lead(c).more = 3
    BY <2>1, LeadIs, SMT
  <2>3. Lead(c).bits \in Nat /\ Lead(c).more \in 1..3 /\ Len(o) - 1 < Lead(c).more
    <3>1. c \in Int
      BY SMT DEF Octet
    <3>2. c % 32 \in Nat /\ c % 16 \in Nat /\ c % 8 \in Nat
      BY <3>1, SMT
    <3>3. Lead(c).bits \in Nat
      BY <2>2, <3>2, Zenon
    <3>4. \/ Len(o) = 1 /\ Lead(c).more = 1
          \/ Len(o) \in 1..2 /\ Lead(c).more = 2
          \/ Len(o) \in 1..3 /\ Lead(c).more = 3
      <4>1. CASE c \in 192..223
        BY <2>1, <2>2, <4>1, SMT
      <4>2. CASE c \in 224..239
        BY <2>1, <2>2, <4>2, SMT
      <4>3. CASE c \in 240..247
        BY <2>1, <2>2, <4>3, SMT
      <4> QED BY <2>1, <4>1, <4>2, <4>3, Zenon
    <3> QED BY <1>0, <3>3, <3>4, SMT
  <2>4. Octets(o, Len(o) - 1)
    BY <1>0, <1>1, <2>3, SMT DEF Octets
  <2> QED BY <1>1, <1>4, <2>3, <2>4
<1> QED BY <1>2, <1>3, <1>4

\* Three strings joined, from either side.
LEMMA JoinedThrice ==
    ASSUME NEW x \in Seq(Octet), NEW y \in Seq(Octet), NEW z \in Seq(Octet)
    PROVE  (x \o y) \o z = x \o (y \o z)
OBVIOUS

\* What is left of the octets of a name behind each of its pieces.
Rests(name, r) ==
    /\ r \in [0 .. Len(name) -> Seq(Octet)] /\ r[Len(name)] = <<>>
    /\ \A k \in 0 .. Len(name) - 1 : r[k] = name[k + 1].octets \o r[k + 1]

LEMMA RestsAre ==
    ASSUME NEW name, Len(name) \in Nat, \A k \in 1 .. Len(name) : name[k].octets \in Seq(Octet)
    PROVE  \E r : /\ Rests(name, r)
                  /\ r[0] = FlattenSeq([k \in 1 .. Len(name) |-> name[k].octets])
<1>0. PICK n \in Nat : n = Len(name)
  OBVIOUS
<1>1. PICK o \in [1 .. n -> Seq(Octet)] :
          n = Len(name) /\ o = [k \in 1 .. Len(name) |-> name[k].octets]
  BY <1>0
<1>2. PICK r : Rests(name, r)
  <2>1. PICK G : G = [j \in Nat |-> [t \in Seq(Octet) |->
                                      IF j \in 1..n THEN o[n + 1 - j] \o t ELSE t]]
    OBVIOUS
  <2>2. G \in [Nat -> [Seq(Octet) -> Seq(Octet)]]
    <3>1. ASSUME NEW j \in Nat, NEW t \in Seq(Octet)
          PROVE  (IF j \in 1..n THEN o[n + 1 - j] \o t ELSE t) \in Seq(Octet)
      <4>1. CASE j \in 1..n
        <5>1. n + 1 - j \in 1..n
          BY <4>1
        <5>2. o[n + 1 - j] \in Seq(Octet)
          BY <5>1
        <5> QED BY <4>1, <5>2, ConcatProperties
      <4> QED BY <4>1
    <3> QED BY <2>1, <3>1
  <2>3. <<>> \in Seq(Octet)
    OBVIOUS
  <2>4. PICK f \in [0..n -> Seq(Octet)] : f[0] = <<>> /\ \A j \in 1..n : f[j] = G[j][f[j - 1]]
    <3>1. Recursion(n, Seq(Octet), <<>>, G)
      BY <2>2, <2>3, RecursiveFunction, Zenon
    <3> QED BY <3>1, Zenon DEF Recursion
  <2>5. PICK r : r = [k \in 0..n |-> f[n - k]]
    OBVIOUS
  <2>6. \A k \in 0..n : n - k \in 0..n
    OBVIOUS
  <2>7. r \in [0..n -> Seq(Octet)] /\ r[n] = <<>>
    BY <2>4, <2>5, <2>6
  <2>8. ASSUME NEW k \in 0 .. n - 1
        PROVE  r[k] = o[k + 1] \o r[k + 1]
    <3>1. /\ n - k \in 1..n /\ n - k \in Nat /\ n + 1 - (n - k) = k + 1
          /\ (n - k) - 1 = n - (k + 1) /\ k + 1 \in 0..n /\ k \in 0..n /\ n - (k + 1) \in 0..n
      OBVIOUS
    <3>2. f[n - (k + 1)] \in Seq(Octet)
      BY <2>4, <3>1
    <3>3. f[n - k] = G[n - k][f[n - (k + 1)]]
      BY <2>4, <3>1, Zenon
    <3>4. G[n - k][f[n - (k + 1)]] = o[k + 1] \o f[n - (k + 1)]
      BY <2>1, <3>1, <3>2, Zenon
    <3>5. r[k] = f[n - k] /\ r[k + 1] = f[n - (k + 1)]
      BY <2>5, <3>1, Zenon
    <3> QED BY <3>3, <3>4, <3>5, Zenon
  <2>9. \A k \in 0 .. n - 1 : o[k + 1] = name[k + 1].octets
    BY <1>1
  <2> QED BY <1>1, <2>7, <2>8, <2>9 DEF Rests
<1>3. /\ r \in [0..n -> Seq(Octet)] /\ r[n] = <<>>
      /\ \A k \in 0 .. n - 1 : r[k] = o[k + 1] \o r[k + 1]
  <2>1. \A k \in 0 .. n - 1 : o[k + 1] = name[k + 1].octets
    BY <1>1
  <2> QED BY <1>1, <1>2, <2>1 DEF Rests
<1>4. PICK f \in [0..n -> Seq(Octet)] : f[0] = <<>> /\ \A j \in 1..n : f[j] = f[j - 1] \o o[j]
  <2>1. PICK G : G = [j \in Nat |-> [t \in Seq(Octet) |-> IF j \in 1..n THEN t \o o[j] ELSE t]]
    OBVIOUS
  <2>2. G \in [Nat -> [Seq(Octet) -> Seq(Octet)]]
    <3>1. ASSUME NEW j \in Nat, NEW t \in Seq(Octet)
          PROVE  (IF j \in 1..n THEN t \o o[j] ELSE t) \in Seq(Octet)
      <4>1. CASE j \in 1..n
        BY <4>1, ConcatProperties
      <4> QED BY <4>1
    <3> QED BY <2>1, <3>1
  <2>3. <<>> \in Seq(Octet)
    OBVIOUS
  <2>4. PICK f \in [0..n -> Seq(Octet)] : f[0] = <<>> /\ \A j \in 1..n : f[j] = G[j][f[j - 1]]
    <3>1. Recursion(n, Seq(Octet), <<>>, G)
      BY <2>2, <2>3, RecursiveFunction, Zenon
    <3> QED BY <3>1, Zenon DEF Recursion
  <2>5. ASSUME NEW j \in 1..n PROVE f[j] = f[j - 1] \o o[j]
    <3>1. j \in Nat /\ f[j - 1] \in Seq(Octet)
      OBVIOUS
    <3> QED BY <2>1, <2>4, <3>1, Zenon
  <2> QED BY <2>4, <2>5
<1>5. \A j \in 0..n : f[j] \o r[j] = r[0]
  <2>1. PICK T : T = {j \in 0..n : f[j] \o r[j] = r[0]}
    OBVIOUS
  <2>2. 0 \in T
    <3>1. r[0] \in Seq(Octet)
      BY <1>3
    <3>2. <<>> \o r[0] = r[0]
      BY <3>1, ConcatEmptySeq
    <3>3. 0 \in 0..n
      OBVIOUS
    <3> QED BY <1>4, <2>1, <3>2, <3>3, Zenon
  <2>3. ASSUME NEW j \in 0 .. n - 1, j \in T PROVE j + 1 \in T
    <3>1. j + 1 \in 1..n /\ j + 1 \in 0..n /\ (j + 1) - 1 = j /\ j \in 0..n
      OBVIOUS
    <3>2. f[j] \in Seq(Octet) /\ o[j + 1] \in Seq(Octet) /\ r[j + 1] \in Seq(Octet)
      BY <1>3, <1>4, <3>1
    <3>3. (f[j] \o o[j + 1]) \o r[j + 1] = f[j] \o (o[j + 1] \o r[j + 1])
      <4>1. PICK x, y, z \in Seq(Octet) : x = f[j] /\ y = o[j + 1] /\ z = r[j + 1]
        BY <3>2, Zenon
      <4>2. (x \o y) \o z = x \o (y \o z)
        BY JoinedThrice, Zenon
      <4> QED BY <4>1, <4>2, Zenon
    <3>4. f[j + 1] = f[j] \o o[j + 1] /\ r[j] = o[j + 1] \o r[j + 1]
      BY <1>3, <1>4, <3>1, Zenon
    <3>5. f[j] \o r[j] = r[0]
      BY <2>1, <2>3
    <3>6. f[j + 1] \o r[j + 1] = r[0]
      BY <3>3, <3>4, <3>5, Zenon
    <3> QED BY <2>1, <3>1, <3>6
  <2>4. \A j \in 0..n : j \in T
    BY <2>2, <2>3, InductionUpTo, Zenon
  <2> QED BY <2>1, <2>4
<1>6. Len(o) = n
  <2>1. o \in Seq(Seq(Octet))
    OBVIOUS
  <2> QED BY <2>1, LenProperties
<1>7. CASE n = 0
  <2>1. o = <<>>
    <3>1. o \in Seq(Seq(Octet))
      OBVIOUS
    <3> QED BY <1>6, <1>7, <3>1, EmptySeq
  <2>2. FlattenSeq(o) = <<>>
    BY <1>6, <1>7, <2>1 DEF FlattenSeq
  <2> QED BY <1>1, <1>2, <1>3, <1>7, <2>2
<1>8. CASE n # 0
  <2> DEFINE F(g) == g = [i \in 1..n |-> IF i = 1 THEN o[i] ELSE g[i - 1] \o o[i]]
  <2>1. f[1] = o[1]
    <3>1. 1 \in 1..n /\ 1 - 1 = 0 /\ o[1] \in Seq(Octet)
      BY <1>8
    <3>2. <<>> \o o[1] = o[1]
      BY <3>1, ConcatEmptySeq
    <3> QED BY <1>4, <3>1, <3>2
  <2>2. PICK h : h = [i \in 1..n |-> f[i]]
    OBVIOUS
  <2>3. F(h)
    <3>1. ASSUME NEW i \in 1..n PROVE h[i] = IF i = 1 THEN o[i] ELSE h[i - 1] \o o[i]
      <4>1. CASE i = 1
        BY <2>1, <2>2, <4>1
      <4>2. CASE i # 1
        <5>1. i - 1 \in 1..n
          BY <4>2
        <5> QED BY <1>4, <2>2, <4>2, <5>1, Zenon
      <4> QED BY <4>1, <4>2
    <3> QED BY <2>2, <3>1, Zenon
  <2>4. PICK g : F(g) /\ FlattenSeq(o) = g[n]
    <3>1. PICK g : g = (CHOOSE x : F(x)) /\ FlattenSeq(o) = g[n]
      BY <1>6, <1>8 DEF FlattenSeq
    <3> QED BY <2>3, <3>1
  <2>5. \A i \in 0..n : i # 0 => g[i] = f[i]
    <3>1. PICK T : T = {i \in 0..n : i # 0 => g[i] = f[i]}
      OBVIOUS
    <3>2. 0 \in T
      BY <3>1
    <3>3. ASSUME NEW i \in 0 .. n - 1, i \in T PROVE i + 1 \in T
      <4>1. i + 1 \in 1..n /\ i + 1 \in 0..n /\ (i + 1) - 1 = i
        OBVIOUS
      <4>2. CASE i = 0
        BY <2>1, <2>4, <3>1, <4>1, <4>2
      <4>3. CASE i # 0
        <5>1. i + 1 # 1 /\ g[i] = f[i]
          BY <3>1, <3>3, <4>3
        <5>2. g[i + 1] = g[i] \o o[i + 1]
          BY <2>4, <4>1, <5>1, Zenon
        <5>3. f[i + 1] = f[i] \o o[i + 1]
          BY <1>4, <4>1, Zenon
        <5> QED BY <3>1, <4>1, <5>1, <5>2, <5>3, Zenon
      <4> QED BY <4>2, <4>3
    <3>4. \A i \in 0..n : i \in T
      BY <3>2, <3>3, InductionUpTo, Zenon
    <3> QED BY <3>1, <3>4
  <2>6. FlattenSeq(o) = f[n]
    <3>1. n \in 0..n
      OBVIOUS
    <3> QED BY <1>8, <2>4, <2>5, <3>1, Zenon
  <2>7. f[n] = r[0]
    <3>1. f[n] \in Seq(Octet) /\ f[n] \o <<>> = r[0]
      <4>1. n \in 0..n
        OBVIOUS
      <4> QED BY <1>3, <1>4, <1>5, <4>1, Zenon
    <3> QED BY <3>1, ConcatEmptySeq, Zenon
  <2> QED BY <1>1, <1>2, <2>6, <2>7
<1> QED BY <1>7, <1>8

\* Every piece of a name is read as the one code it stands for, and nothing of the next.
LEMMA PieceIs ==
    ASSUME NEW name, NameOf(name), NEW r, Rests(name, r), NEW k \in 0 .. Len(name) - 1
    PROVE  /\ r[k] # <<>> /\ Utf8Next(r[k]).rest = r[k + 1]
           /\ Utf8Next(r[k]).code = name[k + 1].code
<1>1. Len(name) \in Nat /\ \A j \in 1 .. Len(name) : name[j].octets \in Seq(Octet \ {0})
  BY DEF NameOf
<1>2. PICK n \in 1 .. Len(name) : n = k + 1
  BY <1>1
<1>3. PICK o \in Seq(Octet \ {0}) : o = name[n].octets
  BY <1>1
<1>4. PICK t \in Seq(Octet) : t = r[n] /\ r[k] = o \o t
  <2>1. r[n] \in Seq(Octet)
    <3>1. n \in 0 .. Len(name)
      OBVIOUS
    <3> QED BY <3>1 DEF Rests
  <2>2. r[k] = name[k + 1].octets \o r[k + 1]
    BY DEF Rests
  <2> QED BY <1>2, <1>3, <2>1, <2>2, Zenon
<1>5. ASSUME NEW j \in 1 .. Len(name)
      PROVE  \E g : /\ Octets(name[j].octets, g)
                    /\ \/ g = Lead(name[j].octets[1]).more
                       \/ g < Lead(name[j].octets[1]).more /\ name[j].code = Replacement
                          /\ Malformed(name, j) /\ ~Stray(name[j].octets)
                          /\ ~Overlong(name[j].octets)
                    /\ name[j].code = IF g = Lead(name[j].octets[1]).more
                                         /\ Value(name[j].octets, g) >= Lead(name[j].octets[1]).least
                                      THEN Value(name[j].octets, g) ELSE Replacement
  <2>1. CASE name[j].code \in Code /\ name[j].octets = Encoding(name[j].code)
    <3>1. PICK g : /\ Octets(name[j].octets, g) /\ g = Lead(name[j].octets[1]).more
                   /\ Value(name[j].octets, g) = name[j].code
                   /\ name[j].code >= Lead(name[j].octets[1]).least
      BY <2>1, EncodingRead, Zenon
    <3> QED BY <3>1
  <2>2. CASE name[j].code = Replacement /\ Malformed(name, j)
    <3>1. PICK p \in Seq(Octet \ {0}) : p = name[j].octets
      BY <1>1
    <3>2. (\A i \in 2 .. Len(p) : p[i] \in Continuation) /\ (Stray(p) \/ Overlong(p) \/ Short(p))
      BY <2>2, <3>1, Zenon DEF Malformed
    <3>3. PICK g : /\ Octets(p, g)
                   /\ \/ g = Lead(p[1]).more /\ Value(p, g) = Replacement
                      \/ g = Lead(p[1]).more /\ ~(Value(p, g) >= Lead(p[1]).least)
                      \/ g < Lead(p[1]).more /\ ~Stray(p) /\ ~Overlong(p)
      BY <3>2, MalformedRead, Zenon
    <3>4. Octets(p, g) => g \in Int
      BY DEF Octets
    <3>5. g < Lead(p[1]).more => g # Lead(p[1]).more
      BY <3>3, <3>4, SMT DEF Octets
    <3> QED BY <2>2, <3>1, <3>3, <3>5, Zenon
  <2> QED BY <2>1, <2>2 DEF NameOf
<1>6. PICK g : /\ Octets(o, g)
               /\ \/ g = Lead(o[1]).more
                  \/ /\ g < Lead(o[1]).more /\ Malformed(name, n)
                     /\ ~Stray(o) /\ ~Overlong(o)
               /\ name[n].code = IF g = Lead(o[1]).more /\ Value(o, g) >= Lead(o[1]).least
                                 THEN Value(o, g) ELSE Replacement
  BY <1>3, <1>5, Zenon
<1>7. /\ o \in Seq(Octet) /\ g \in 0..3 /\ Len(o) = g + 1 /\ g <= Lead(o[1]).more
      /\ Lead(o[1]).bits \in Nat /\ Lead(o[1]).more \in 0..3
      /\ \A j \in 2 .. Len(o) : o[j] \in Continuation
  BY <1>6, Zenon DEF Octets
<1>8. ASSUME g < Lead(o[1]).more, t # <<>>
      PROVE  t[1] \notin Continuation
  <2>1. Malformed(name, n) /\ ~Stray(o) /\ ~Overlong(o)
    BY <1>6, <1>7, <1>8, SMT
  <2>2. n < Len(name)
    <3>1. n = Len(name) => t = <<>>
      BY <1>2, <1>4, Zenon DEF Rests
    <3> QED BY <1>1, <1>8, <3>1
  <2>3. n \in 0 .. Len(name) - 1 /\ n + 1 \in 1 .. Len(name) /\ n + 1 \in 0 .. Len(name)
    BY <1>1, <2>2
  <2>4. PICK p, u \in Seq(Octet) : p = name[n + 1].octets /\ u = r[n + 1] /\ t = p \o u
    <3>1. name[n + 1].octets \in Seq(Octet)
      BY <1>5, <2>3, Zenon DEF Octets
    <3>2. r[n + 1] \in Seq(Octet) /\ r[n] = name[n + 1].octets \o r[n + 1]
      BY <2>3, Zenon DEF Rests
    <3> QED BY <1>4, <3>1, <3>2, Zenon
  <2>5. Len(p) > 0
    <3>1. PICK h : Octets(p, h)
      BY <1>5, <2>3, <2>4, Zenon
    <3> QED BY <3>1 DEF Octets
  <2>6. t[1] = p[1]
    <3>1. Len(p) \in Nat /\ Len(u) \in Nat
      BY <2>4, LenProperties
    <3>2. 1 \in 1 .. Len(p) + Len(u) /\ 1 <= Len(p)
      BY <2>5, <3>1
    <3>3. (p \o u)[1] = p[1]
      BY <2>4, <3>2, ConcatProperties, Zenon
    <3> QED BY <2>4, <3>3
  <2>7. p[1] \notin Continuation
    <3>2. n < Len(name) => name[n + 1].octets[1] \notin Continuation
      BY <1>3, <2>1, Zenon DEF Malformed
    <3> QED BY <2>2, <2>4, <3>2, Zenon
  <2> QED BY <2>6, <2>7
<1>9. /\ Utf8Next(o \o t).rest = t
      /\ Utf8Next(o \o t).code =
             IF g = Lead(o[1]).more /\ Value(o, g) >= Lead(o[1]).least THEN Value(o, g)
                                                                      ELSE Replacement
  BY <1>7, <1>8, PieceRead, Zenon
<1>10. o \o t # <<>>
  BY <1>7, ConcatProperties
<1> QED BY <1>2, <1>4, <1>6, <1>9, <1>10, Zenon

-----------------------------------------------------------------------------
(* ServiceInfo: the inductive invariant *)

\* What section i asks for the type, music flag and mode of slot c.
Right(i, c) == table[i].mode = "s" /\ c % 2 = 1
Asked(i, c) ==
    [type  |-> IF Right(i, c) THEN table[i].secondary ELSE table[i].type,
     music |-> IF table[i].music /\ ~Right(i, c) THEN 1 ELSE 0,
     mode  |-> IF Right(i, c) THEN 2 ELSE 1]

\* Slot c of the table carries type, music flag and mode of r.
Carries(c, r) ==
    channels[c].type = r.type /\ channels[c].music = r.music /\ channels[c].mode = r.mode

\* A name as dsr_encode_ps leaves it: a character for each of its first eight pieces,
\* then blanks.
Padded(chars, name) ==
    \A k \in 1..8 : chars[k] = IF k <= Len(name) THEN InCharset(name[k].code) ELSE Space

\* The first pieces of a name are written, and the others still to be read.
Reading(name) ==
    /\ \E r : Rests(name, r) /\ Len(dst) <= Len(name) /\ src = r[Len(dst)]
    /\ \A k \in 1 .. Len(dst) : dst[k] = InCharset(name[k].code)

\* The slots of the sections read so far are as these ask, no section read since has
\* changed them, and the other slots are as dsr_init left them.
ServiceInv ==
    /\ table \in Tables /\ next \in 1 .. Len(table) + 1
    /\ step \in {"sections", "name", "set", "done", "killed"}
    /\ step \in {"name", "set"} => next \in 1 .. Len(table)
    /\ dst \in Seq(Octet) /\ Len(dst) <= 8
    /\ step = "name" => Reading(Current.name)
    /\ step = "set" => Padded(dst, Current.name)
    /\ \A i \in 1 .. next - 1 : \A c \in SlotsOf(table[i]) :
           Carries(c, Asked(i, c)) /\ Padded(channels[c].name, table[i].name)
    /\ \A c \in Slot : (\A i \in 1 .. next - 1 : c \notin SlotsOf(table[i])) =>
                          Carries(c, [type |-> 0, music |-> 1, mode |-> 0])
    /\ step \in {"done", "killed"} => next = Len(table) + 1
    /\ step = "done" => \E memory : sa = UpdateSA(channels, memory)
    /\ step = "killed" => Outside(channels) # {}

\* The slots of a section, and that no two sections have one in common.
LEMMA SectionSlots ==
    ASSUME NEW t \in Tables, NEW i \in 1 .. Len(t)
    PROVE  /\ Len(t) \in Nat /\ t[i].channel \in 1..16 /\ t[i].mode \in {"s", "a", "b"}
           /\ t[i].music \in BOOLEAN /\ NameOf(t[i].name)
           /\ SlotsOf(t[i]) \subseteq Slot
           /\ t[i].mode = "s" =>
                  SlotsOf(t[i]) = {(t[i].channel - 1) * 2, (t[i].channel - 1) * 2 + 1}
           /\ \A j \in 1 .. Len(t) : i # j => SlotsOf(t[i]) \cap SlotsOf(t[j]) = {}
<1>1. Len(t) \in Nat
  <2>1. t \in Seq(ToSet(t))
    BY ServiceAssumption
  <2> QED BY <2>1
<1>2. /\ t[i].channel \in 1..16 /\ t[i].mode \in {"s", "a", "b"} /\ t[i].music \in BOOLEAN
      /\ NameOf(t[i].name)
      /\ \A j \in 1 .. Len(t) : i # j => SlotsOf(t[i]) \cap SlotsOf(t[j]) = {}
  BY ServiceAssumption
<1>3. SlotsOf(t[i]) \subseteq Slot
  <2>1. PICK ch \in 1..16 : ch = t[i].channel
    BY <1>2
  <2>2. (ch - 1) * 2 \in Slot /\ (ch - 1) * 2 + 1 \in Slot
    BY DEF Slot
  <2>3. CASE t[i].mode = "s"
    BY <2>1, <2>2, <2>3, Zenon DEF SlotsOf
  <2>4. CASE t[i].mode = "a"
    BY <2>1, <2>2, <2>4, Zenon DEF SlotsOf
  <2>5. CASE t[i].mode = "b"
    BY <2>1, <2>2, <2>5, Zenon DEF SlotsOf
  <2> QED BY <1>2, <2>3, <2>4, <2>5
<1>4. t[i].mode = "s" => SlotsOf(t[i]) = {(t[i].channel - 1) * 2, (t[i].channel - 1) * 2 + 1}
  BY DEF SlotsOf
<1> QED BY <1>1, <1>2, <1>3, <1>4

LEMMA ServiceInitInv == ServiceInit => ServiceInv
<1> SUFFICES ASSUME ServiceInit PROVE ServiceInv
  OBVIOUS
<1>1. table \in Tables /\ next = 1 /\ step = "sections"
  BY DEF ServiceInit
<1>2. Len(table) \in Nat
  BY <1>1, ServiceAssumption
<1>3. \A c \in Slot : Carries(c, [type |-> 0, music |-> 1, mode |-> 0])
  BY DEF ServiceInit, Carries
<1>4. dst \in Seq(Octet) /\ Len(dst) <= 8
  BY DEF ServiceInit
<1> QED BY <1>1, <1>2, <1>3, <1>4 DEF ServiceInv

\* A section sets its own slots as it asks.
LEMMA SlotsSet ==
    ASSUME ServiceInv, step = "set",
           NEW changed,
           DOMAIN changed = SlotsOf(Current),
           \A c \in SlotsOf(Current) :
               /\ changed[c].type = Asked(next, c).type /\ changed[c].music = Asked(next, c).music
               /\ changed[c].mode = Asked(next, c).mode /\ changed[c].name = dst,
           Set(changed)
    PROVE  ServiceInv'
<1>1. /\ table \in Tables /\ next \in 1 .. Len(table) /\ Current = table[next]
      /\ table' = table /\ next' = next + 1 /\ step' = "sections" /\ dst' = dst
  BY DEF ServiceInv, Set, Current
<1>2. /\ SlotsOf(Current) \subseteq Slot
      /\ \A j \in 1 .. Len(table) : next # j => SlotsOf(Current) \cap SlotsOf(table[j]) = {}
      /\ \A j \in 1 .. Len(table) : SlotsOf(table[j]) \subseteq Slot
      /\ Len(table) \in Nat
  BY <1>1, SectionSlots
<1>3. /\ \A c \in SlotsOf(Current) : channels'[c] = changed[c]
      /\ \A c \in Slot \ SlotsOf(Current) : channels'[c] = channels[c]
  BY <1>2 DEF Set
<1>4. \A i : \A c : Asked(i, c)' = Asked(i, c)
  BY <1>1 DEF Asked, Right
<1>5. ASSUME NEW i \in 1 .. next' - 1, NEW c \in SlotsOf(table[i])
      PROVE  Carries(c, Asked(i, c))' /\ Padded(channels'[c].name, table[i].name)
  <2>1. CASE i = next
    <3>1. c \in SlotsOf(Current)
      BY <1>1, <2>1
    <3>2. Padded(dst, Current.name)
      BY DEF ServiceInv
    <3>3. channels'[c].name = dst /\ Current = table[i]
      BY <1>1, <1>3, <2>1, <3>1
    <3> QED BY <1>3, <1>4, <2>1, <3>1, <3>2, <3>3 DEF Carries
  <2>2. CASE i # next
    <3>1. i \in 1 .. next - 1 /\ i \in 1 .. Len(table)
      BY <1>1, <1>2, <2>2
    <3>2. c \in Slot \ SlotsOf(Current)
      BY <1>2, <2>2, <3>1
    <3>3. Carries(c, Asked(i, c)) /\ Padded(channels[c].name, table[i].name)
      BY <3>1 DEF ServiceInv
    <3> QED BY <1>3, <1>4, <3>2, <3>3 DEF Carries
  <2> QED BY <2>1, <2>2
<1>6. ASSUME NEW c \in Slot, \A i \in 1 .. next' - 1 : c \notin SlotsOf(table[i])
      PROVE  Carries(c, [type |-> 0, music |-> 1, mode |-> 0])'
  <2>1. c \notin SlotsOf(Current) /\ \A i \in 1 .. next - 1 : c \notin SlotsOf(table[i])
    BY <1>1, <1>6
  <2>2. Carries(c, [type |-> 0, music |-> 1, mode |-> 0])
    BY <2>1 DEF ServiceInv
  <2> QED BY <1>3, <2>1, <2>2 DEF Carries
<1>7. next' \in 1 .. Len(table) + 1
  BY <1>1, <1>2
<1>8. dst \in Seq(Octet) /\ Len(dst) <= 8
  BY DEF ServiceInv
<1>9. \A i \in 1 .. next' - 1 : \A c \in SlotsOf(table[i]) :
          Carries(c, Asked(i, c))' /\ Padded(channels'[c].name, table'[i].name)
  BY <1>1, <1>5
<1> QED BY <1>1, <1>6, <1>7, <1>8, <1>9 DEF ServiceInv

\* The rows depend on the channels and on what was read outside _par.
LEMMA SameTableSameRows ==
    ASSUME channels' = channels, NEW memory
    PROVE  UpdateSA(channels, memory)' = UpdateSA(channels, memory)
BY DEF UpdateSA, Row, Announced, Index

LEMMA StutterInv ==
    ASSUME ServiceInv, UNCHANGED serviceVars PROVE ServiceInv'
<1>1. \A i : \A c : Carries(c, Asked(i, c))' = Carries(c, Asked(i, c))
  BY DEF serviceVars, Carries, Asked, Right
<1>2. \A c : \A r : Carries(c, r)' = Carries(c, r)
  BY DEF serviceVars, Carries
<1>3. /\ Outside(channels)' = Outside(channels)
      /\ (\E memory : sa = UpdateSA(channels, memory))' <=> \E memory : sa = UpdateSA(channels, memory)
  <2>1. channels' = channels /\ sa' = sa
    BY DEF serviceVars
  <2>2. \A memory : UpdateSA(channels, memory)' = UpdateSA(channels, memory)
    BY <2>1, SameTableSameRows
  <2>3. Outside(channels)' = Outside(channels)
    BY <2>1 DEF Outside, Index
  <2> QED BY <2>1, <2>2, <2>3
<1>4. Reading(Current.name)' = Reading(Current.name) /\ Current' = Current
  BY DEF serviceVars, Reading, Current
<1>5. \A chars, name : Padded(chars, name)' = Padded(chars, name)
  BY DEF Padded
<1>6. ServiceInv' = ServiceInv
  BY <1>1, <1>2, <1>3, <1>4, <1>5 DEF serviceVars, ServiceInv
<1> QED BY <1>6

\* The octets of a name, as the pieces they are made of.
LEMMA NameIs ==
    ASSUME ServiceInv, next \in 1 .. Len(table)
    PROVE  /\ NameOf(Current.name) /\ Len(Current.name) \in Nat
           /\ \A k \in 1 .. Len(Current.name) :
                  /\ Current.name[k].octets \in Seq(Octet)
                  /\ Current.name[k].code \in Code \cup {Replacement}
<1>1. NameOf(Current.name)
  BY SectionSlots DEF ServiceInv, Current
<1>2. Octet \ {0} \subseteq Octet
  OBVIOUS
<1> QED BY <1>1, <1>2, SeqMonotonic DEF NameOf

LEMMA NameStarted ==
    ASSUME ServiceInv, StartName
    PROVE  Reading(Current.name)' /\ dst' \in Seq(Octet) /\ Len(dst') <= 8
<1>1. next \in 1 .. Len(table) /\ Current' = Current /\ dst' = <<>>
  <2>1. Len(table) \in Nat
    BY ServiceAssumption DEF ServiceInv
  <2> QED BY <2>1 DEF ServiceInv, StartName, Current
<1>2. PICK name : name = Current.name
  OBVIOUS
<1>3. PICK r : Rests(name, r) /\ r[0] = src'
  BY <1>1, <1>2, NameIs, RestsAre DEF StartName
<1>4. Len(name) \in Nat /\ Len(dst') = 0
  BY <1>1, <1>2, NameIs
<1>5. Reading(name)'
  BY <1>3, <1>4 DEF Reading
<1> QED BY <1>1, <1>2, <1>4, <1>5

\* One character more: the next piece of the name.
LEMMA CharRead ==
    ASSUME ServiceInv, EncodeChar
    PROVE  Reading(Current.name)' /\ dst' \in Seq(Octet) /\ Len(dst') <= 8
<1>1. /\ next \in 1 .. Len(table) /\ Current' = Current /\ src # <<>>
      /\ dst \in Seq(Octet) /\ Reading(Current.name)
  BY DEF ServiceInv, EncodeChar, Current
<1>2. PICK name : name = Current.name
  OBVIOUS
<1>3. /\ NameOf(name) /\ Len(name) \in Nat
      /\ \A k \in 1 .. Len(name) : name[k].code \in Code \cup {Replacement}
  BY <1>1, <1>2, NameIs
<1>4. PICK r : Rests(name, r) /\ Len(dst) <= Len(name) /\ src = r[Len(dst)]
  BY <1>1, <1>2 DEF Reading
<1>5. PICK n \in Nat : n = Len(dst) /\ n < 8
  BY <1>1 DEF EncodeChar
<1>6. n \in 0 .. Len(name) - 1
  <2>1. n # Len(name)
    BY <1>1, <1>4, <1>5 DEF Rests
  <2> QED BY <1>3, <1>4, <1>5, <2>1
<1>7. Utf8Next(src).code = name[n + 1].code /\ Utf8Next(src).rest = r[n + 1]
  BY <1>3, <1>4, <1>5, <1>6, PieceIs
<1>8. PICK ch \in Octet : ch = InCharset(name[n + 1].code)
  <2>1. n + 1 \in 1 .. Len(name)
    BY <1>3, <1>6
  <2> QED BY <1>3, <2>1, CharShown
<1>9. dst' = Append(dst, ch) /\ src' = r[n + 1]
  BY <1>7, <1>8, Zenon DEF EncodeChar
<1>10. /\ dst' \in Seq(Octet) /\ Len(dst') = n + 1 /\ dst'[n + 1] = ch
       /\ \A k \in 1..n : dst'[k] = dst[k]
  BY <1>1, <1>5, <1>9, AppendProperties
<1>11. ASSUME NEW k \in 1 .. n + 1 PROVE dst'[k] = InCharset(name[k].code)
  <2>1. CASE k = n + 1
    BY <1>8, <1>10, <2>1
  <2>2. CASE k # n + 1
    <3>1. k \in 1..n
      BY <2>2
    <3>2. dst[k] = InCharset(name[k].code)
      BY <1>1, <1>2, <1>5, <3>1 DEF Reading
    <3> QED BY <1>10, <3>1, <3>2
  <2> QED BY <2>1, <2>2
<1>12. Reading(name)'
  <2>1. Len(dst') <= Len(name)
    BY <1>3, <1>6, <1>10
  <2> QED BY <1>4, <1>9, <1>10, <1>11, <2>1 DEF Reading
<1> QED BY <1>1, <1>2, <1>5, <1>10, <1>12

\* At the end of the name blanks for the rest.
LEMMA NamePadded ==
    ASSUME ServiceInv, PadName
    PROVE  Padded(dst', Current.name) /\ dst' \in Seq(Octet) /\ Len(dst') <= 8
<1>1. /\ next \in 1 .. Len(table) /\ (src = <<>> \/ Len(dst) = 8)
      /\ dst \in Seq(Octet) /\ Len(dst) <= 8 /\ Reading(Current.name)
  BY DEF ServiceInv, PadName
<1>2. PICK name : name = Current.name
  OBVIOUS
<1>3. NameOf(name) /\ Len(name) \in Nat
  BY <1>1, <1>2, NameIs
<1>4. PICK r : Rests(name, r) /\ Len(dst) <= Len(name) /\ src = r[Len(dst)]
  BY <1>1, <1>2 DEF Reading
<1>5. PICK n \in 0..8 : n = Len(dst) /\ n <= Len(name)
  <2>1. Len(dst) \in 0..8
    <3>1. PICK n \in Nat : n = Len(dst)
      BY <1>1, LenProperties
    <3>2. n <= 8
      BY <1>1, <3>1, Zenon
    <3>3. n \in 0..8
      BY <3>2
    <3> QED BY <3>1, <3>3, Zenon
  <2> QED BY <1>4, <2>1
<1>6. n = Len(name) \/ n = 8
  <2>1. ASSUME n # Len(name) PROVE src # <<>>
    <3>1. n \in 0 .. Len(name) - 1
      BY <1>3, <1>5, <2>1
    <3> QED BY <1>3, <1>4, <1>5, <3>1, PieceIs
  <2> QED BY <1>1, <1>5, <2>1
<1>7. PICK blanks \in Seq(Octet) : blanks = [k \in 1 .. 8 - n |-> Space] /\ Len(blanks) = 8 - n
  <2>1. PICK left \in Nat : left = 8 - n
    OBVIOUS
  <2>2. Space \in Octet
    BY DEF Octet, Space
  <2>3. [k \in 1..left |-> Space] \in Seq(Octet)
    BY <2>2
  <2>4. Len([k \in 1..left |-> Space]) = left
    BY <2>3, LenProperties
  <2> QED BY <2>1, <2>3, <2>4
<1>8. dst' = dst \o blanks
  BY <1>5, <1>7 DEF PadName
<1>9. /\ dst' \in Seq(Octet) /\ Len(dst') = 8
      /\ \A k \in 1..8 : dst'[k] = IF k <= n THEN dst[k] ELSE blanks[k - n]
  <2>1. n + (8 - n) = 8
    OBVIOUS
  <2>2. /\ dst \o blanks \in Seq(Octet) /\ Len(dst \o blanks) = n + (8 - n)
        /\ \A k \in 1 .. n + (8 - n) :
               (dst \o blanks)[k] = IF k <= n THEN dst[k] ELSE blanks[k - n]
    <3>1. PICK head \in Seq(Octet) : head = dst
      BY <1>1
    <3>2. /\ head \o blanks \in Seq(Octet) /\ Len(head \o blanks) = Len(head) + Len(blanks)
          /\ \A k \in 1 .. Len(head) + Len(blanks) : (head \o blanks)[k] =
                 IF k <= Len(head) THEN head[k] ELSE blanks[k - Len(head)]
      BY ConcatProperties
    <3>3. Len(head) = n /\ Len(blanks) = 8 - n
      BY <1>5, <1>7, <3>1, Zenon
    <3> QED BY <3>1, <3>2, <3>3, Zenon
  <2> QED BY <1>8, <2>1, <2>2, Zenon
<1>10. ASSUME NEW k \in 1..8
       PROVE  dst'[k] = IF k <= Len(name) THEN InCharset(name[k].code) ELSE Space
  <2>1. CASE k <= n
    <3>1. dst[k] = InCharset(name[k].code)
      BY <1>1, <1>2, <1>5, <2>1 DEF Reading
    <3>2. k <= Len(name)
      BY <1>3, <1>5, <2>1
    <3> QED BY <1>9, <2>1, <3>1, <3>2
  <2>2. CASE ~(k <= n)
    <3>1. n = Len(name) /\ k - n \in 1 .. 8 - n
      BY <1>6, <2>2
    <3> QED BY <1>7, <1>9, <2>2, <3>1
  <2> QED BY <2>1, <2>2
<1> QED BY <1>2, <1>9, <1>10 DEF Padded

LEMMA ServiceStep ==
    ASSUME ServiceInv, ServiceNext PROVE ServiceInv'
<1>0. table \in Tables /\ Len(table) \in Nat
  BY ServiceAssumption DEF ServiceInv
<1> DEFINE SameTable == table' = table /\ next' = next /\ channels' = channels
<1>1. ASSUME SameTable, step' \in {"name", "set"} => next \in 1 .. Len(table),
             step' \in {"sections", "name", "set"},
             dst' \in Seq(Octet) /\ Len(dst') <= 8,
             step' = "name" => Reading(Current.name)',
             step' = "set" => Padded(dst', Current.name)
      PROVE  ServiceInv'
  <2>1. \A i : \A c : Carries(c, Asked(i, c))' = Carries(c, Asked(i, c))
    BY <1>1 DEF Carries, Asked, Right
  <2>2. \A c : \A r : Carries(c, r)' = Carries(c, r)
    BY <1>1 DEF Carries
  <2>3. step' = "set" => Padded(dst, Current.name)'
    BY <1>1 DEF Padded, Current
  <2> QED BY <1>1, <2>1, <2>2, <2>3 DEF ServiceInv
<1>2. CASE StartName
  <2>1. SameTable /\ next \in 1 .. Len(table) /\ step' = "name"
    BY <1>0, <1>2 DEF StartName, ServiceInv
  <2> QED BY <1>1, <1>2, <2>1, NameStarted
<1>3. CASE EncodeChar
  <2>1. SameTable /\ next \in 1 .. Len(table) /\ step' = "name"
    BY <1>3 DEF EncodeChar, ServiceInv
  <2> QED BY <1>1, <1>3, <2>1, CharRead
<1>4. CASE PadName
  <2>1. SameTable /\ next \in 1 .. Len(table) /\ step' = "set"
    BY <1>4 DEF PadName, ServiceInv
  <2> QED BY <1>1, <1>4, <2>1, NamePadded
<1>5. CASE SetStereo
  <2>1. PICK left, right :
            /\ left = (Current.channel - 1) * 2
            /\ right = [type |-> Current.secondary, music |-> 0, mode |-> 2, name |-> dst]
    OBVIOUS
  <2>2. PICK changed : changed = [c \in {left, left + 1} |-> IF c = left THEN First ELSE right]
    OBVIOUS
  <2>3. step = "set" /\ Current.mode = "s" /\ Set(changed)
    BY <1>5, <2>1, <2>2 DEF SetStereo
  <2>4. next \in 1 .. Len(table) /\ Current = table[next] /\ table \in Tables
    BY <2>3 DEF ServiceInv, Current
  <2>5. /\ Current.channel \in 1..16 /\ Current.music \in BOOLEAN
        /\ SlotsOf(Current) = {left, left + 1}
    BY <2>1, <2>3, <2>4, SectionSlots
  <2>6. left \in Int /\ left % 2 = 0 /\ (left + 1) % 2 = 1 /\ left + 1 # left
    BY <2>1, <2>5
  <2>7. ~Right(next, left) /\ Right(next, left + 1)
    BY <2>3, <2>4, <2>6 DEF Right
  <2>8. DOMAIN changed = SlotsOf(Current) /\ changed[left] = First /\ changed[left + 1] = right
    BY <2>2, <2>5, <2>6
  <2>9. /\ First.type = Asked(next, left).type /\ First.music = Asked(next, left).music
        /\ First.mode = Asked(next, left).mode /\ First.name = dst
    BY <2>4, <2>7 DEF First, Flag, Asked
  <2>10. /\ right.type = Asked(next, left + 1).type /\ right.music = Asked(next, left + 1).music
         /\ right.mode = Asked(next, left + 1).mode /\ right.name = dst
    BY <2>1, <2>4, <2>7 DEF Asked
  <2> QED BY <2>3, <2>5, <2>8, <2>9, <2>10, SlotsSet
<1>6. CASE SetMono
  <2>1. PICK changed : changed = [c \in SlotsOf(Current) |-> First]
    OBVIOUS
  <2>2. step = "set" /\ Current.mode \in {"a", "b"} /\ Set(changed)
    BY <1>6, <2>1 DEF SetMono
  <2>3. next \in 1 .. Len(table) /\ Current = table[next]
    BY <2>2 DEF ServiceInv, Current
  <2>4. \A c : ~Right(next, c)
    BY <2>2, <2>3 DEF Right
  <2>5. \A c \in SlotsOf(Current) :
            /\ changed[c].type = Asked(next, c).type /\ changed[c].music = Asked(next, c).music
            /\ changed[c].mode = Asked(next, c).mode /\ changed[c].name = dst
    BY <2>1, <2>3, <2>4 DEF First, Flag, Asked
  <2> QED BY <2>1, <2>2, <2>5, SlotsSet
<1>7. CASE RebuildSA
  <2>1. /\ table' = table /\ next' = next /\ channels' = channels /\ next = Len(table) + 1
        /\ step' = "done" /\ dst' = dst
    BY <1>0, <1>7 DEF RebuildSA, ServiceInv
  <2>a. PICK memory : sa' = UpdateSA(channels, memory)
    BY <1>7 DEF RebuildSA
  <2>2. UpdateSA(channels, memory)' = UpdateSA(channels, memory)
    BY <2>1, SameTableSameRows
  <2>b. (\E held : sa = UpdateSA(channels, held))'
    BY <2>a, <2>2
  <2>3. \A i : \A c : Carries(c, Asked(i, c))' = Carries(c, Asked(i, c))
    BY <2>1 DEF Carries, Asked, Right
  <2>4. \A c : \A r : Carries(c, r)' = Carries(c, r)
    BY <2>1 DEF Carries
  <2> QED BY <2>1, <2>b, <2>3, <2>4 DEF ServiceInv
<1>8. CASE RebuildCrashes
  <2>1. /\ table' = table /\ next' = next /\ channels' = channels /\ next = Len(table) + 1
        /\ step' = "killed" /\ dst' = dst /\ Outside(channels) # {}
    BY <1>0, <1>8 DEF RebuildCrashes, ServiceInv
  <2>2. Outside(channels)' # {}
    BY <2>1 DEF Outside, Index
  <2>3. \A i : \A c : Carries(c, Asked(i, c))' = Carries(c, Asked(i, c))
    BY <2>1 DEF Carries, Asked, Right
  <2>4. \A c : \A r : Carries(c, r)' = Carries(c, r)
    BY <2>1 DEF Carries
  <2> QED BY <2>1, <2>2, <2>3, <2>4 DEF ServiceInv
<1>9. CASE Announcing
  <2>1. UNCHANGED serviceVars
    BY <1>9 DEF Announcing
  <2> QED BY <2>1, StutterInv
<1> QED BY <1>2, <1>3, <1>4, <1>5, <1>6, <1>7, <1>8, <1>9 DEF ServiceNext

\* ServiceInv of every reachable state.
THEOREM ServiceInvHolds == ServiceSpec => []ServiceInv
<1> QED BY StutterInv, ServiceInitInv, ServiceStep, PTL DEF ServiceSpec

-----------------------------------------------------------------------------
(* ServiceInfo: what a receiver hears *)

\* In group g of the types a receiver hears of channel c the octet dsr_update_sa looked up.
LEMMA TypeHeard ==
    ASSUME NEW memory, sa = UpdateSA(channels, memory), NEW g \in 1..7, NEW c \in Slot
    PROVE  Heard(Group(g), c) = Announced(channels[c], memory)
<1>1. PICK i, p : i = 8 * (g - 1) + c \div 4 /\ p = 3 + (c % 4)
  OBVIOUS
<1>2. i \in 0..55 /\ i % 8 = c \div 4 /\ p \in 3..6 /\ 4 * (i % 8) + p - 3 = c
  BY <1>1 DEF Slot
<1>3. Heard(Group(g), c) = sa[i][p]
  BY <1>1, GroupIs DEF Heard
<1>4. sa[i] = Row(channels, i, memory)
  BY <1>2 DEF UpdateSA
<1>5. Row(channels, i, memory)[p] = Announced(channels[4 * (i % 8) + p - 3], memory)
  <2>1. p \in 1..8 /\ p \notin 1..2 /\ i < 56 /\ ~(i >= 64)
    BY <1>2
  <2> QED BY <1>2, <2>1, Zenon DEF Row
<1> QED BY <1>2, <1>3, <1>4, <1>5

\* A type in range stays as it is, and the index lies within _par.
LEMMA IndexInTable ==
    ASSUME NEW ch, ch.type \in 0..15, ch.music \in {0, 1}, ch.mode \in 0..2
    PROVE  /\ Index(ch) = 16 * ch.type + 8 * ch.music + 2 * ch.mode
           /\ Index(ch) \in Octet
<1>1. PICK type \in 0..15, music \in {0, 1}, mode \in 0..2 :
          type = ch.type /\ music = ch.music /\ mode = ch.mode
  OBVIOUS
<1>2. Wrapped(type) = type
  <2>1. type % 268435456 = type
    OBVIOUS
  <2>2. (type + 134217728) % 268435456 = type + 134217728
    OBVIOUS
  <2> QED BY <2>1, <2>2 DEF Wrapped
<1>3. Index(ch) = 16 * type + 8 * music + 2 * mode
  BY <1>1, <1>2 DEF Index
<1>4. 16 * type + 8 * music + 2 * mode \in Octet
  BY DEF Octet
<1> QED BY <1>1, <1>3, <1>4

\* The octet of an entry whose type is in range.
LEMMA AnnouncedFields ==
    ASSUME NEW ch, ch.type \in 0..15, ch.music \in {0, 1}, ch.mode \in 0..2, NEW memory
    PROVE  LET v == Announced(ch, memory)
           IN  /\ Weight(v) % 2 = 0 /\ v \div 16 = ch.type
               /\ (v \div 8) % 2 = ch.music /\ (v \div 2) % 4 = ch.mode
<1>1. PICK type \in 0..15, music \in {0, 1}, mode \in 0..2 :
          type = ch.type /\ music = ch.music /\ mode = ch.mode
  OBVIOUS
<1>2. PICK x : x = 16 * type + 8 * music + 2 * mode
  OBVIOUS
<1>3. x \in Octet /\ x \div 2 = 8 * type + 4 * music + mode
  BY <1>2 DEF Octet
<1>4. Announced(ch, memory) = Par(x)
  <2>1. Index(ch) = x
    BY <1>1, <1>2, IndexInTable
  <2> QED BY <1>3, <2>1, Zenon DEF Announced
<1>5. Par(x) \in Int /\ Par(x) \div 2 = 8 * type + 4 * music + mode /\ Weight(Par(x)) % 2 = 0
  <2>1. Par(x) \in Octet /\ Par(x) \div 2 = x \div 2 /\ Weight(Par(x)) % 2 = 0
    BY <1>3, ParIs
  <2> QED BY <2>1, <1>3 DEF Octet
<1>6. Par(x) \div 16 = type /\ (Par(x) \div 8) % 2 = music /\ (Par(x) \div 2) % 4 = mode
  BY <1>5, FieldsOf
<1> QED BY <1>1, <1>4, <1>5, <1>6

\* When all sections are read, what is looked up outside _par is asked for by one of them.
LEMMA OutsideIsAskedFor ==
    ASSUME ServiceInv, next = Len(table) + 1, Outside(channels) # {}
    PROVE  \E i \in 1 .. Len(table) : \E c \in SlotsOf(table[i]) : TypeOf(i, c) \notin 0..15
<1>1. table \in Tables /\ Len(table) \in Nat
  BY ServiceAssumption DEF ServiceInv
<1>2. PICK c \in Slot : Index(channels[c]) \notin Octet
  BY DEF Outside
<1>3. CASE \A i \in 1 .. next - 1 : c \notin SlotsOf(table[i])
  <2>1. channels[c].type = 0 /\ channels[c].music = 1 /\ channels[c].mode = 0
    BY <1>3 DEF ServiceInv, Carries
  <2> QED BY <1>2, <2>1, IndexInTable
<1>4. CASE \E i \in 1 .. next - 1 : c \in SlotsOf(table[i])
  <2>1. PICK i \in 1 .. next - 1 : c \in SlotsOf(table[i])
    BY <1>4
  <2>2. Carries(c, Asked(i, c))
    BY <2>1 DEF ServiceInv
  <2>3. Asked(i, c).music \in {0, 1} /\ Asked(i, c).mode \in 0..2
    BY DEF Asked
  <2>4. Asked(i, c).type \notin 0..15
    BY <1>2, <2>2, <2>3, IndexInTable DEF Carries
  <2>5. TypeOf(i, c) = Asked(i, c).type
    BY DEF TypeOf, Asked, Right
  <2>6. i \in 1 .. Len(table)
    BY <1>1, <2>1
  <2> QED BY <2>1, <2>4, <2>5, <2>6
<1> QED BY <1>3, <1>4

\* A receiver finds in all seven groups of the types the type, music flag and mode that
\* the configuration gives each channel, with even parity, and mode 0 for a channel
\* without a section, however many sections there are and whatever is read outside the
\* table for types that lie outside 0..15; and only such a type can end the program here
\* (dsr.c:441-448).
THEOREM TypesReceivedHolds == ServiceSpec => []TypesReceived
<1>1. ServiceInv => TypesReceived
  <2>a. ASSUME ServiceInv, step = "killed"
        PROVE  \E i \in 1 .. Len(table) : \E c \in SlotsOf(table[i]) : TypeOf(i, c) \notin 0..15
    <3>1. next = Len(table) + 1 /\ Outside(channels) # {}
      BY <2>a DEF ServiceInv
    <3> QED BY <2>a, <3>1, OutsideIsAskedFor
  <2> SUFFICES ASSUME ServiceInv, step = "done", NEW g \in 1..7, NEW c \in Slot
               PROVE  LET v == Heard(Group(g), c)
                      IN  /\ Owner(c) = {} => Weight(v) % 2 = 0 /\ (v \div 2) % 4 = 0
                          /\ \A i \in Owner(c) :
                                 LET right == table[i].mode = "s" /\ c % 2 = 1
                                 IN  TypeOf(i, c) \in 0..15 =>
                                         /\ Weight(v) % 2 = 0 /\ v \div 16 = TypeOf(i, c)
                                         /\ (v \div 8) % 2 = IF table[i].music /\ ~right THEN 1 ELSE 0
                                         /\ (v \div 2) % 4 = IF right THEN 2 ELSE 1
    BY <2>a, Zenon DEF TypesReceived
  <2>1. /\ table \in Tables /\ Len(table) \in Nat /\ next = Len(table) + 1
        /\ \E memory : sa = UpdateSA(channels, memory)
    BY ServiceAssumption DEF ServiceInv
  <2>b. PICK memory : sa = UpdateSA(channels, memory)
    BY <2>1
  <2>2. PICK v : v = Heard(Group(g), c) /\ v = Announced(channels[c], memory)
    BY <2>b, TypeHeard
  <2>3. ASSUME Owner(c) = {} PROVE Weight(v) % 2 = 0 /\ (v \div 2) % 4 = 0
    <3>1. \A i \in 1 .. next - 1 : c \notin SlotsOf(table[i])
      BY <2>1, <2>3 DEF Owner
    <3>2. channels[c].type = 0 /\ channels[c].music = 1 /\ channels[c].mode = 0
      BY <3>1 DEF ServiceInv, Carries
    <3> QED BY <2>2, <3>2, AnnouncedFields
  <2>4. ASSUME NEW i \in Owner(c), Asked(i, c).type \in 0..15
        PROVE  /\ Weight(v) % 2 = 0 /\ v \div 16 = Asked(i, c).type
               /\ (v \div 8) % 2 = Asked(i, c).music /\ (v \div 2) % 4 = Asked(i, c).mode
    <3>1. i \in 1 .. next - 1 /\ c \in SlotsOf(table[i])
      BY <2>1 DEF Owner
    <3>2. Carries(c, Asked(i, c))
      BY <3>1 DEF ServiceInv
    <3>3. Asked(i, c).music \in {0, 1} /\ Asked(i, c).mode \in 0..2
      BY DEF Asked
    <3> QED BY <2>2, <2>4, <3>2, <3>3, AnnouncedFields DEF Carries
  <2> QED BY <2>2, <2>3, <2>4 DEF Asked, Right, TypeOf
<1> QED BY <1>1, ServiceInvHolds, PTL

\* In the groups of the names a receiver hears of channel c one character of its name each.
LEMMA NameHeard ==
    ASSUME NEW memory, sa = UpdateSA(channels, memory), NEW k \in 1..8, NEW c \in Slot
    PROVE  Heard(Group(8 + k), c) = channels[c].name[k]
<1>1. PICK i, p : i = 8 * ((8 + k) - 1) + c \div 4 /\ p = 3 + (c % 4)
  OBVIOUS
<1>2. /\ i \in 64..127 /\ i % 8 = c \div 4 /\ p \in 3..6 /\ 4 * (i % 8) + p - 3 = c
      /\ (i - 64) \div 8 + 1 = k
  BY <1>1 DEF Slot
<1>3. Heard(Group(8 + k), c) = sa[i][p]
  <2>1. 8 + k \in 1..16
    OBVIOUS
  <2> QED BY <1>1, <2>1, GroupIs, Zenon DEF Heard
<1>4. sa[i] = Row(channels, i, memory)
  BY <1>2 DEF UpdateSA
<1>5. Row(channels, i, memory)[p] = channels[4 * (i % 8) + p - 3].name[(i - 64) \div 8 + 1]
  <2>1. p \in 1..8 /\ p \notin 1..2 /\ ~(i < 56) /\ i >= 64
    BY <1>2
  <2> QED BY <1>2, <2>1, Zenon DEF Row
<1> QED BY <1>2, <1>3, <1>4, <1>5, Zenon

\* A receiver shows the first eight characters of every name, a blank for one that the
\* set lacks or that is malformed, and blanks for the rest, whatever octets the names
\* are made of and however many sections there are (dsr.c:167-205, 395-418, 459-475).
THEOREM NamesReceivedHolds == ServiceSpec => []NamesReceived
<1>1. ServiceInv => NamesReceived
  <2> SUFFICES ASSUME ServiceInv, step = "done", NEW j \in 1 .. Len(table),
                      NEW c \in SlotsOf(table[j])
               PROVE  LET name == table[j].name
                      IN  DecodePS([k \in 1..8 |-> Heard(Group(8 + k), c)]) =
                              [k \in 1..8 |-> IF k <= Len(name) THEN Shown(name[k].code)
                                                               ELSE Space]
    <3>1. ServiceInv => Len(dst) <= 8
      BY DEF ServiceInv
    <3> QED BY <3>1, Zenon DEF NamesReceived
  <2>1. table \in Tables /\ Len(table) \in Nat /\ next = Len(table) + 1
    BY ServiceAssumption DEF ServiceInv
  <2>a. PICK memory : sa = UpdateSA(channels, memory)
    BY DEF ServiceInv
  <2>2. PICK name : name = table[j].name
    OBVIOUS
  <2>3. NameOf(name) /\ Len(name) \in Nat /\ c \in Slot
    BY <2>1, <2>2, SectionSlots DEF NameOf
  <2>4. Padded(channels[c].name, name)
    <3>1. j \in 1 .. next - 1
      BY <2>1
    <3> QED BY <2>2, <3>1 DEF ServiceInv
  <2>5. ASSUME NEW k \in 1..8
        PROVE  ShownAt(Heard(Group(8 + k), c)) =
                   IF k <= Len(name) THEN Shown(name[k].code) ELSE Space
    <3>1. Heard(Group(8 + k), c) = IF k <= Len(name) THEN InCharset(name[k].code) ELSE Space
      BY <2>a, <2>3, <2>4, NameHeard DEF Padded
    <3>2. CASE k <= Len(name)
      <4>1. k \in 1 .. Len(name)
        BY <2>3, <3>2
      <4>2. name[k].code \in Code \cup {Replacement}
        BY <2>3, <4>1 DEF NameOf
      <4> QED BY <3>1, <3>2, <4>2, CharShown, Zenon
    <3>3. CASE ~(k <= Len(name))
      <4>1. ShownAt(Space) = Space
        BY CharsetIs DEF ShownAt, Space
      <4> QED BY <3>1, <3>3, <4>1, Zenon
    <3> QED BY <3>2, <3>3
  <2>6. DecodePS([k \in 1..8 |-> Heard(Group(8 + k), c)]) =
            [k \in 1..8 |-> ShownAt(Heard(Group(8 + k), c))]
    BY Zenon DEF DecodePS, ShownAt
  <2> QED BY <2>2, <2>5, <2>6, Zenon
<1> QED BY <1>1, ServiceInvHolds, PTL
=============================================================================
