--------------------------- MODULE SequenceLemmas ---------------------------
(***************************************************************************)
(* Induction and recursion in a form that the provers can use: over sets   *)
(* and functions instead of operators.  The lemmas rest on the well-        *)
(* foundedness of < on Nat.                                                *)
(***************************************************************************)
EXTENDS Integers, Sequences, SequencesExt, SequenceTheorems, WellFoundedInduction, TLAPS

Less == {p \in Nat \X Nat : p[1] < p[2]}

(* A set of numbers with 0 and the successor of each has them all.         *)
LEMMA SetInduction ==
  ASSUME NEW S, 0 \in S, \A n \in Nat : n \in S => n + 1 \in S
  PROVE  Nat \subseteq S
<1> DEFINE T == Nat \ S
<1>1. SUFFICES ASSUME T # {} PROVE FALSE
  OBVIOUS
<1>2. IsWellFoundedOn(Less, Nat)
  BY NatLessThanWellFounded DEF OpToRel, Less
<1>3. T \subseteq Nat
  OBVIOUS
<1>4. \E x \in T : \A y \in T : <<y, x>> \notin Less
  <2> HIDE DEF T
  <2> QED BY <1>1, <1>2, <1>3, WFMin
<1>5. PICK x \in T : \A y \in T : <<y, x>> \notin Less
  BY <1>4
<1>6. x - 1 \in T
  OBVIOUS
<1>7. <<x - 1, x>> \in Less
  BY <1>6 DEF Less
<1> QED BY <1>5, <1>6, <1>7

(* A set of numbers has a least one. *)
LEMMA LeastExists ==
  ASSUME NEW T \in SUBSET Nat, T # {}
  PROVE  \E x \in T : \A y \in T : x <= y
<1>1. IsWellFoundedOn(Less, Nat)
  BY NatLessThanWellFounded DEF OpToRel, Less
<1>2. PICK x \in T : \A y \in T : <<y, x>> \notin Less
  BY <1>1, WFMin
<1>3. \A y \in T : ~(y < x)
  BY <1>2 DEF Less
<1> QED BY <1>3

(* The same up to a bound.                                                 *)
LEMMA BoundedInduction ==
  ASSUME NEW m \in Nat, NEW S, 0 \in S, \A n \in 0 .. m - 1 : n \in S => n + 1 \in S
  PROVE  0 .. m \subseteq S
<1> DEFINE T == S \cup {n \in Nat : n > m}
<1>1. 0 \in T
  OBVIOUS
<1>2. \A n \in Nat : n \in T => n + 1 \in T
  OBVIOUS
<1>3. Nat \subseteq T
  <2> HIDE DEF T
  <2> QED BY <1>1, <1>2, SetInduction
<1> QED BY <1>3

(* A set of sequences with the empty one and every longer one has them all. *)
LEMMA SeqInduction ==
  ASSUME NEW S, NEW T, << >> \in T, \A s \in Seq(S), e \in S : s \in T => Append(s, e) \in T
  PROVE  Seq(S) \subseteq T
<1> DEFINE N == {n \in Nat : \A s \in Seq(S) : Len(s) = n => s \in T}
<1>1. 0 \in N
  BY EmptySeq
<1>2. ASSUME NEW n \in Nat, n \in N PROVE n + 1 \in N
  <2>1. SUFFICES ASSUME NEW s \in Seq(S), Len(s) = n + 1 PROVE s \in T
    OBVIOUS
  <2>2. PICK r \in Seq(S), e \in S : s = Append(r, e)
    BY <2>1, SequenceEmptyOrAppend, EmptySeq
  <2>3. Len(r) = n
    BY <2>1, <2>2, AppendProperties, LenProperties
  <2> QED BY <1>2, <2>2, <2>3
<1>3. Nat \subseteq N
  <2> HIDE DEF N
  <2> QED BY <1>1, <1>2, SetInduction
<1> QED BY <1>3, LenProperties

-----------------------------------------------------------------------------
(* The recursive functions that folds are made of.                         *)

LEMMA MaxOfPrefix ==
  ASSUME NEW n \in Nat, NEW s \in SUBSET (1 .. n + 1), n + 1 \in s
  PROVE  Max(s) = n + 1
<1>1. \A y \in s : n + 1 >= y
  OBVIOUS
<1>2. \A x \in s : (\A y \in s : x >= y) => x = n + 1
  OBVIOUS
<1> QED BY <1>1, <1>2 DEF Max

LEMMA MaxIsIn ==
  ASSUME NEW m \in Nat
  PROVE  \A s \in SUBSET (1 .. m) : s # {} => Max(s) \in s
<1> DEFINE N == {n \in 0 .. m : \A s \in SUBSET (1 .. n) : s # {} => Max(s) \in s}
<1>1. 0 \in N
  <2>1. \A s \in SUBSET (1 .. 0) : s = {}
    OBVIOUS
  <2>2. \A s \in SUBSET (1 .. 0) : s # {} => Max(s) \in s
    BY <2>1
  <2> QED BY <2>2
<1>2. ASSUME NEW n \in 0 .. m - 1, n \in N PROVE n + 1 \in N
  <2>1. ASSUME NEW s \in SUBSET (1 .. n + 1), s # {} PROVE Max(s) \in s
    <3>1. CASE n + 1 \in s
      BY <3>1, MaxOfPrefix
    <3>2. CASE n + 1 \notin s
      <4>1. s \in SUBSET (1 .. n)
        BY <3>2
      <4> QED BY <1>2, <2>1, <4>1
    <3> QED BY <3>1, <3>2
  <2> QED BY <2>1
<1>3. 0 .. m \subseteq N
  <2> HIDE DEF N
  <2> QED BY <1>1, <1>2, BoundedInduction
<1> QED BY <1>3

(* FoldLeft takes the places off from the last one. *)
LEMMA PeelInterval ==
  ASSUME NEW i \in Nat \ {0}
  PROVE  Max(1 .. i) = i /\ (1 .. i) \ {i} = 1 .. i - 1 /\ 1 .. i # {}
<1> DEFINE n == i - 1
           s == 1 .. i
<1>1. n \in Nat /\ s \in SUBSET (1 .. n + 1) /\ n + 1 \in s /\ n + 1 = i
  OBVIOUS
<1> HIDE DEF n, s
<1>2. Max(s) = n + 1
  BY <1>1, MaxOfPrefix
<1>3. Max(1 .. i) = i
  BY <1>1, <1>2 DEF s
<1>4. (1 .. i) \ {i} = 1 .. i - 1 /\ i \in 1 .. i
  OBVIOUS
<1> QED BY <1>3, <1>4

Iterates(it, D, b, h, n) ==
  /\ it \in [SUBSET (1 .. n) -> D]
  /\ it = [s \in SUBSET (1 .. n) |-> IF s = {} THEN b ELSE h[Max(s)][it[s \ {Max(s)}]]]

(* FoldLeft's recursion has a solution, whatever the step h[i] at each place i. *)
LEMMA IterationExists ==
  ASSUME NEW m \in Nat, NEW D, NEW b \in D, NEW h \in [1 .. m -> [D -> D]]
  PROVE  \E it : Iterates(it, D, b, h, m)
<1> DEFINE N == {n \in 0 .. m : \E it : Iterates(it, D, b, h, n)}
<1>1. 0 \in N
  <2> DEFINE it == [s \in SUBSET (1 .. 0) |-> b]
  <2>1. SUBSET (1 .. 0) = {{}}
    OBVIOUS
  <2>2. Iterates(it, D, b, h, 0)
    BY <2>1 DEF Iterates
  <2> QED BY <2>2
<1>2. ASSUME NEW n \in 0 .. m - 1, n \in N PROVE n + 1 \in N
  <2>1. PICK g : Iterates(g, D, b, h, n)
    BY <1>2
  <2> DEFINE it == [s \in SUBSET (1 .. n + 1) |->
                      IF n + 1 \in s THEN h[n + 1][g[s \ {n + 1}]] ELSE g[s]]
  <2>2. ASSUME NEW s \in SUBSET (1 .. n + 1)
        PROVE  it[s] = (IF s = {} THEN b ELSE h[Max(s)][it[s \ {Max(s)}]]) /\ it[s] \in D
    <3>1. CASE n + 1 \in s
      <4>1. Max(s) = n + 1
        BY <3>1, MaxOfPrefix
      <4>2. it[s \ {n + 1}] = g[s \ {n + 1}] /\ s \ {n + 1} \in SUBSET (1 .. n)
        OBVIOUS
      <4>3. it[s] = h[n + 1][g[s \ {n + 1}]]
        BY <3>1, SMTT(30)
      <4>4. g[s \ {n + 1}] \in D
        BY <2>1, <4>2 DEF Iterates
      <4>5. h[n + 1] \in [D -> D]
        BY n + 1 \in 1 .. m
      <4> HIDE DEF it
      <4> QED BY <3>1, <4>1, <4>2, <4>3, <4>4, <4>5
    <3>2. CASE n + 1 \notin s
      <4>1. s \in SUBSET (1 .. n)
        BY <3>2
      <4>2. it[s] = g[s] /\ it[s \ {Max(s)}] = g[s \ {Max(s)}]
        BY <3>2
      <4>3. g[s] = (IF s = {} THEN b ELSE h[Max(s)][g[s \ {Max(s)}]]) /\ g[s] \in D
        BY <2>1, <4>1 DEF Iterates
      <4> HIDE DEF it
      <4> QED BY <4>2, <4>3
    <3> QED BY <3>1, <3>2
  <2>3. Iterates(it, D, b, h, n + 1)
    <3>1. it = [s \in SUBSET (1 .. n + 1) |-> it[s]]
      OBVIOUS
    <3> HIDE DEF it
    <3> QED BY <2>2, <3>1 DEF Iterates
  <2> HIDE DEF it
  <2> QED BY <2>3
<1>3. 0 .. m \subseteq N
  <2> HIDE DEF N
  <2> QED BY <1>1, <1>2, BoundedInduction
<1>4. m \in N
  BY <1>3
<1> QED BY <1>4

Path(f, D, b, h, m) ==
  f \in [0 .. m -> D] /\ f[0] = b /\ \A i \in 1 .. m : f[i] = h[i][f[i - 1]]

(* A recursion on the number of places that were done, from none on. *)
LEMMA PathExists ==
  ASSUME NEW m \in Nat, NEW D, NEW b \in D, NEW h \in [1 .. m -> [D -> D]]
  PROVE  \E f : Path(f, D, b, h, m)
<1>1. PICK it : Iterates(it, D, b, h, m)
  BY IterationExists
<1> DEFINE f == [i \in 0 .. m |-> it[1 .. i]]
<1>2. \A i \in 0 .. m : 1 .. i \in SUBSET (1 .. m)
  OBVIOUS
<1>3. f \in [0 .. m -> D]
  BY <1>1, <1>2 DEF Iterates
<1>4. f[0] = b
  <2>1. 1 .. 0 = {} /\ f[0] = it[1 .. 0] /\ 1 .. 0 \in SUBSET (1 .. m)
    OBVIOUS
  <2> HIDE DEF f
  <2> QED BY <1>1, <2>1 DEF Iterates
<1>5. ASSUME NEW i \in 1 .. m PROVE f[i] = h[i][f[i - 1]]
  <2>1. Max(1 .. i) = i /\ (1 .. i) \ {i} = 1 .. i - 1 /\ 1 .. i # {}
    BY PeelInterval, i \in Nat \ {0}
  <2>2. f[i] = it[1 .. i] /\ f[i - 1] = it[1 .. i - 1] /\ 1 .. i \in SUBSET (1 .. m)
    OBVIOUS
  <2> HIDE DEF f
  <2>3. it[1 .. i] = h[Max(1 .. i)][it[(1 .. i) \ {Max(1 .. i)}]]
    BY <1>1, <2>1, <2>2 DEF Iterates
  <2> QED BY <2>1, <2>2, <2>3
<1> HIDE DEF f
<1> QED BY <1>3, <1>4, <1>5 DEF Path

Recurses(f, D, b, h, n) ==
  f \in [1 .. n -> D] /\ f = [i \in 1 .. n |-> IF i = 1 THEN b ELSE h[i][f[i - 1]]]

(* So has a recursion on the place itself. *)
LEMMA RecursionExists ==
  ASSUME NEW m \in Nat, NEW D, NEW b \in D, NEW h \in [1 .. m -> [D -> D]]
  PROVE  \E f : Recurses(f, D, b, h, m)
<1> DEFINE k == [i \in 1 .. m |-> IF i = 1 THEN [d \in D |-> d] ELSE h[i]]
<1>1. k \in [1 .. m -> [D -> D]]
  OBVIOUS
<1>2. PICK it : Iterates(it, D, b, k, m)
  <2> HIDE DEF k
  <2> QED BY <1>1, IterationExists
<1> DEFINE f == [i \in 1 .. m |-> it[1 .. i]]
<1>3. ASSUME NEW i \in 1 .. m
      PROVE  it[1 .. i] = k[i][it[1 .. i - 1]] /\ it[1 .. i] \in D /\ it[1 .. 0] = b
  <2>1. Max(1 .. i) = i /\ (1 .. i) \ {i} = 1 .. i - 1 /\ 1 .. i # {}
    BY PeelInterval, i \in Nat \ {0}
  <2>3. 1 .. 0 = {}
    OBVIOUS
  <2>2. 1 .. i \in SUBSET (1 .. m)
    OBVIOUS
  <2> HIDE DEF k
  <2> QED BY <1>2, <2>1, <2>2, <2>3, ZenonT(30) DEF Iterates
<1>4. ASSUME NEW i \in 1 .. m PROVE f[i] = (IF i = 1 THEN b ELSE h[i][f[i - 1]])
  <2>1. CASE i = 1
    <3>1. k[1] = [d \in D |-> d] /\ 1 - 1 = 0
      BY <2>1
    <3>2. f[1] = it[1 .. 1]
      BY <2>1
    <3> HIDE DEF k, f
    <3> QED BY <1>3, <2>1, <3>1, <3>2, ZenonT(30)
  <2>2. CASE i # 1
    <3>1. i - 1 \in 1 .. m /\ f[i] = it[1 .. i] /\ f[i - 1] = it[1 .. i - 1] /\ k[i] = h[i]
      BY <2>2
    <3> QED BY <1>3, <2>2, <3>1
  <2> QED BY <2>1, <2>2
<1>5. f \in [1 .. m -> D] /\ f = [i \in 1 .. m |-> f[i]]
  BY <1>3
<1> HIDE DEF f
<1> QED BY <1>4, <1>5 DEF Recurses

-----------------------------------------------------------------------------
(* Short sequences.                                                        *)

LEMMA AppendElements ==
  ASSUME NEW S, NEW a \in Seq(S), NEW z \in S, NEW c \in Seq(S), Len(c) = Len(a) + 1,
         \A i \in 1 .. Len(a) : c[i] = a[i], c[Len(a) + 1] = z
  PROVE  Append(a, z) = c /\ a \o <<z>> = c
<1> DEFINE d == Append(a, z)
<1>1. d \in Seq(S) /\ Len(d) = Len(a) + 1 /\ d[Len(a) + 1] = z /\ \A i \in 1 .. Len(a) : d[i] = a[i]
  BY AppendProperties
<1>2. Len(a) \in Nat
  OBVIOUS
<1>3. a \o <<z>> = d
  BY AppendIsConcat
<1> HIDE DEF d
<1>4. d = c
  <2>1. ASSUME NEW i \in 1 .. Len(d) PROVE d[i] = c[i]
    <3>1. i \in 1 .. Len(a) \/ i = Len(a) + 1
      BY <1>1, <1>2
    <3> QED BY <1>1, <3>1
  <2> QED BY <1>1, <2>1, SeqEqual
<1> QED BY <1>3, <1>4 DEF d

LEMMA TwoConcat ==
  ASSUME NEW S, NEW x \in S, NEW y \in S
  PROVE  /\ <<x>> \in Seq(S) /\ <<x, y>> \in Seq(S)
         /\ <<x>> \o <<y>> = <<x, y>> /\ Append(<<x>>, y) = <<x, y>>
<1> DEFINE a == <<x>>
           c == <<x, y>>
<1>1. a \in Seq(S) /\ c \in Seq(S)
  OBVIOUS
<1>2. Len(a) = 1 /\ Len(c) = 2 /\ a[1] = x /\ c[1] = x /\ c[2] = y
  OBVIOUS
<1> HIDE DEF a, c
<1>3. Len(c) = Len(a) + 1 /\ (\A i \in 1 .. Len(a) : c[i] = a[i]) /\ c[Len(a) + 1] = y
  BY <1>2
<1>4. Append(a, y) = c /\ a \o <<y>> = c
  BY <1>1, <1>3, AppendElements
<1> QED BY <1>1, <1>4 DEF a, c

LEMMA ThreeConcat ==
  ASSUME NEW S, NEW x \in S, NEW y \in S, NEW z \in S
  PROVE  <<x, y>> \o <<z>> = <<x, y, z>>
<1> DEFINE a == <<x, y>>
           c == <<x, y, z>>
<1>1. a \in Seq(S) /\ c \in Seq(S)
  OBVIOUS
<1>2. Len(a) = 2 /\ Len(c) = 3 /\ a[1] = x /\ a[2] = y /\ c[1] = x /\ c[2] = y /\ c[3] = z
  OBVIOUS
<1> HIDE DEF a, c
<1>3. Len(c) = Len(a) + 1 /\ (\A i \in 1 .. Len(a) : c[i] = a[i]) /\ c[Len(a) + 1] = z
  BY <1>2
<1>4. a \o <<z>> = c
  BY <1>1, <1>3, AppendElements
<1> QED BY <1>4 DEF a, c

-----------------------------------------------------------------------------
(* FlattenSeq.                                                             *)

LEMMA FlattenSteps ==
  ASSUME NEW S, NEW q \in Seq(Seq(S)), q # << >>
  PROVE  \E f : /\ FlattenSeq(q) = f[Len(q)]
                /\ f = [i \in 1 .. Len(q) |-> IF i = 1 THEN q[i] ELSE f[i - 1] \o q[i]]
<1> DEFINE D == Seq(S)
           m == Len(q)
           h == [i \in 1 .. m |-> [t \in D |-> t \o q[i]]]
           b == q[1]
<1>1. m \in Nat \ {0} /\ \A i \in 1 .. m : q[i] \in D
  BY EmptySeq
<1>2. b \in D /\ h \in [1 .. m -> [D -> D]]
  BY <1>1
<1>3. PICK f : Recurses(f, D, b, h, m)
  <2> HIDE DEF b, h, D, m
  <2> QED BY <1>1, <1>2, RecursionExists
<1>4. ASSUME NEW i \in 1 .. m, i # 1 PROVE h[i][f[i - 1]] = f[i - 1] \o q[i]
  <2>1. f[i - 1] \in D
    <3>1. f \in [1 .. m -> D]
      BY <1>3 DEF Recurses
    <3>2. i - 1 \in 1 .. m
      BY <1>1, <1>4
    <3> HIDE DEF D, m, h, b
    <3> QED BY <3>1, <3>2
  <2> HIDE DEF D, m
  <2> QED BY <2>1
<1>5. f = [i \in 1 .. m |-> IF i = 1 THEN q[i] ELSE f[i - 1] \o q[i]]
  <2>1. f = [i \in 1 .. m |-> IF i = 1 THEN q[i] ELSE h[i][f[i - 1]]]
    BY <1>3 DEF Recurses
  <2> HIDE DEF h, D, m
  <2> QED BY <1>4, <2>1
<1>6. FlattenSeq(q) = (CHOOSE g : g = [i \in 1 .. m |-> IF i = 1 THEN q[i] ELSE g[i - 1] \o q[i]])[m]
  BY <1>1 DEF FlattenSeq
<1> HIDE DEF m, D, h, b
<1>7. PICK g : FlattenSeq(q) = g[m] /\ g = [i \in 1 .. m |-> IF i = 1 THEN q[i] ELSE g[i - 1] \o q[i]]
  BY <1>5, <1>6
<1> QED BY <1>7 DEF m

LEMMA FlattenType ==
  ASSUME NEW S, NEW q \in Seq(Seq(S))
  PROVE  FlattenSeq(q) \in Seq(S)
<1>1. CASE q = << >>
  BY <1>1, EmptySeq DEF FlattenSeq
<1>2. CASE q # << >>
  <2>1. PICK f : /\ FlattenSeq(q) = f[Len(q)]
                 /\ f = [i \in 1 .. Len(q) |-> IF i = 1 THEN q[i] ELSE f[i - 1] \o q[i]]
    BY <1>2, FlattenSteps
  <2> DEFINE m == Len(q)
             N == {n \in 0 .. m : n = 0 \/ f[n] \in Seq(S)}
  <2>2. m \in Nat \ {0}
    BY <1>2, EmptySeq
  <2>3. 0 \in N
    BY <2>2
  <2>4. ASSUME NEW n \in 0 .. m - 1, n \in N PROVE n + 1 \in N
    <3>1. n + 1 \in 1 .. m /\ (n + 1 = 1 <=> n = 0) /\ (n + 1) - 1 = n
      BY <2>2
    <3>2. f[n + 1] = IF n + 1 = 1 THEN q[n + 1] ELSE f[n] \o q[n + 1]
      BY <2>1, <3>1
    <3>3. q[n + 1] \in Seq(S)
      BY <3>1
    <3>4. f[n + 1] \in Seq(S)
      <4> HIDE DEF m
      <4> QED BY <2>4, <3>1, <3>2, <3>3, ConcatProperties
    <3> QED BY <2>2, <3>4
  <2>5. 0 .. m \subseteq N
    <3> HIDE DEF N, m
    <3> QED BY <2>2, <2>3, <2>4, BoundedInduction
  <2>6. m \in N
    BY <2>2, <2>5
  <2> QED BY <2>1, <2>2, <2>6
<1> QED BY <1>1, <1>2

LEMMA FlattenAppend ==
  ASSUME NEW S, NEW q \in Seq(Seq(S)), NEW c \in Seq(S)
  PROVE  FlattenSeq(Append(q, c)) = FlattenSeq(q) \o c
<1> DEFINE r == Append(q, c)
           m == Len(q)
<1>1. r \in Seq(Seq(S)) /\ r # << >> /\ Len(r) = m + 1 /\ m \in Nat
      /\ (\A i \in 1 .. m : r[i] = q[i]) /\ r[m + 1] = c
  BY AppendProperties
<1>2. PICK g : /\ FlattenSeq(r) = g[m + 1]
               /\ g = [i \in 1 .. m + 1 |-> IF i = 1 THEN r[i] ELSE g[i - 1] \o r[i]]
  <2> HIDE DEF r, m
  <2>1. PICK g : /\ FlattenSeq(r) = g[Len(r)]
                 /\ g = [i \in 1 .. Len(r) |-> IF i = 1 THEN r[i] ELSE g[i - 1] \o r[i]]
    BY <1>1, FlattenSteps
  <2> QED BY <1>1, <2>1, ZenonT(30)
<1>3. CASE q = << >>
  <2>1. m = 0 /\ FlattenSeq(q) = << >>
    BY <1>3 DEF FlattenSeq
  <2>2. g[m + 1] = c
    BY <1>1, <1>2, <2>1, SMTT(30)
  <2> QED BY <1>2, <2>1, <2>2
<1>4. CASE q # << >>
  <2>1. PICK f : /\ FlattenSeq(q) = f[m]
                 /\ f = [i \in 1 .. m |-> IF i = 1 THEN q[i] ELSE f[i - 1] \o q[i]]
    BY <1>4, FlattenSteps
  <2>2. m \in Nat \ {0}
    BY <1>4, EmptySeq
  <2> DEFINE N == {n \in 0 .. m : n = 0 \/ f[n] = g[n]}
  <2> HIDE DEF r, m
  <2>3. 0 \in N
    BY <2>2
  <2>4. ASSUME NEW n \in 0 .. m - 1, n \in N PROVE n + 1 \in N
    <3>1. n + 1 \in 1 .. m /\ n + 1 \in 1 .. m + 1 /\ (n + 1 = 1 <=> n = 0) /\ (n + 1) - 1 = n
      BY <2>2
    <3>2. f[n + 1] = IF n + 1 = 1 THEN q[n + 1] ELSE f[n] \o q[n + 1]
      BY <2>1, <3>1
    <3>3. g[n + 1] = IF n + 1 = 1 THEN r[n + 1] ELSE g[n] \o r[n + 1]
      BY <1>2, <3>1
    <3>4. r[n + 1] = q[n + 1]
      BY <1>1, <3>1
    <3> QED BY <2>4, <3>1, <3>2, <3>3, <3>4
  <2>5. 0 .. m \subseteq N
    <3> HIDE DEF N
    <3> QED BY <2>2, <2>3, <2>4, BoundedInduction
  <2>6. f[m] = g[m]
    BY <2>2, <2>5
  <2>7. g[m + 1] = g[m] \o c
    <3>1. m + 1 \in 1 .. m + 1 /\ m + 1 # 1 /\ (m + 1) - 1 = m
      BY <2>2
    <3> QED BY <1>1, <1>2, <3>1
  <2> QED BY <1>2, <2>1, <2>6, <2>7 DEF r
<1> QED BY <1>3, <1>4

LEMMA FlattenHeadTail ==
  ASSUME NEW S, NEW q \in Seq(Seq(S)), q # << >>
  PROVE  FlattenSeq(q) = Head(q) \o FlattenSeq(Tail(q))
<1> DEFINE D == Seq(S)
           T == {s \in Seq(D) : s # << >> => FlattenSeq(s) = Head(s) \o FlattenSeq(Tail(s))}
<1>1. << >> \in T
  OBVIOUS
<1>2. ASSUME NEW s \in Seq(D), NEW e \in D, s \in T PROVE Append(s, e) \in T
  <2>1. Append(s, e) \in Seq(D)
    BY AppendProperties
  <2>2. FlattenSeq(Append(s, e)) = FlattenSeq(s) \o e
    BY FlattenAppend
  <2>3. CASE s = << >>
    <3>1. Head(Append(s, e)) = e /\ Tail(Append(s, e)) = << >>
      BY <2>3, HeadTailAppend
    <3>2. FlattenSeq(<< >>) = << >>
      BY DEF FlattenSeq
    <3>3. << >> \o e = e \o << >>
      BY ConcatEmptySeq
    <3> QED BY <2>1, <2>2, <2>3, <3>1, <3>2, <3>3
  <2>4. CASE s # << >>
    <3> DEFINE t == Tail(s)
    <3>1. Head(Append(s, e)) = Head(s) /\ Tail(Append(s, e)) = Append(t, e)
      BY <2>4, HeadTailAppend
    <3>2. Head(s) \in D /\ t \in Seq(D)
      BY <2>4, HeadTailProperties
    <3>3. FlattenSeq(Append(t, e)) = FlattenSeq(t) \o e /\ FlattenSeq(t) \in D
      <4> HIDE DEF t
      <4> QED BY <3>2, FlattenAppend, FlattenType
    <3>4. (Head(s) \o FlattenSeq(t)) \o e = Head(s) \o (FlattenSeq(t) \o e)
      <4> DEFINE x == Head(s)
                 y == FlattenSeq(t)
      <4>1. x \in Seq(S) /\ y \in Seq(S) /\ e \in Seq(S)
        BY <3>2, <3>3
      <4> HIDE DEF t, x, y, T, D
      <4>2. (x \o y) \o e = x \o (y \o e)
        BY <4>1, SMT
      <4> QED BY <4>2 DEF x, y
    <3>5. FlattenSeq(s) = Head(s) \o FlattenSeq(t)
      BY <1>2, <2>4
    <3> HIDE DEF t
    <3> QED BY <2>1, <2>2, <3>1, <3>3, <3>4, <3>5
  <2> QED BY <2>3, <2>4
<1>3. Seq(D) \subseteq T
  <2> HIDE DEF T, D
  <2> QED BY <1>1, <1>2, SeqInduction
<1> QED BY <1>3

LEMMA FlattenEmpty == FlattenSeq(<< >>) = << >>
BY DEF FlattenSeq

LEMMA FlattenOne ==
  ASSUME NEW S, NEW c \in Seq(S)
  PROVE  FlattenSeq(<<c>>) = c
<1>1. << >> \in Seq(Seq(S)) /\ Append(<< >>, c) = <<c>> /\ << >> \o c = c
  OBVIOUS
<1>2. FlattenSeq(Append(<< >>, c)) = FlattenSeq(<< >>) \o c
  BY <1>1, FlattenAppend
<1> QED BY <1>1, <1>2, FlattenEmpty

LEMMA FlattenConcat ==
  ASSUME NEW S, NEW p \in Seq(Seq(S))
  PROVE  \A q \in Seq(Seq(S)) : FlattenSeq(p \o q) = FlattenSeq(p) \o FlattenSeq(q)
<1> DEFINE D == Seq(S)
           T == {q \in Seq(D) : FlattenSeq(p \o q) = FlattenSeq(p) \o FlattenSeq(q)}
<1>1. << >> \in T
  <2>1. p \o << >> = p /\ << >> \in Seq(D) /\ FlattenSeq(p) \in Seq(S)
    BY FlattenType
  <2>2. FlattenSeq(p) \o << >> = FlattenSeq(p)
    BY <2>1, ConcatEmptySeq
  <2> QED BY <2>1, <2>2, FlattenEmpty
<1>2. ASSUME NEW q \in Seq(D), NEW e \in D, q \in T PROVE Append(q, e) \in T
  <2>1. p \o Append(q, e) = Append(p \o q, e) /\ p \o q \in Seq(D) /\ Append(q, e) \in Seq(D)
    OBVIOUS
  <2>2. /\ FlattenSeq(Append(p \o q, e)) = FlattenSeq(p \o q) \o e
        /\ FlattenSeq(Append(q, e)) = FlattenSeq(q) \o e
    BY <2>1, FlattenAppend
  <2>3. FlattenSeq(p \o q) = FlattenSeq(p) \o FlattenSeq(q)
    BY <1>2
  <2>4. (FlattenSeq(p) \o FlattenSeq(q)) \o e = FlattenSeq(p) \o (FlattenSeq(q) \o e)
    <3> DEFINE x == FlattenSeq(p)
               y == FlattenSeq(q)
    <3>1. x \in Seq(S) /\ y \in Seq(S) /\ e \in Seq(S)
      BY FlattenType
    <3> HIDE DEF x, y, T, D
    <3>2. (x \o y) \o e = x \o (y \o e)
      BY <3>1, SMT
    <3> QED BY <3>2 DEF x, y
  <2>5. FlattenSeq(p \o Append(q, e)) = FlattenSeq(p) \o FlattenSeq(Append(q, e))
    BY <2>1, <2>2, <2>3, <2>4, Zenon
  <2> QED BY <2>1, <2>5
<1>3. Seq(D) \subseteq T
  <2> HIDE DEF T, D
  <2> QED BY <1>1, <1>2, SeqInduction
<1> QED BY <1>3

-----------------------------------------------------------------------------
(* The sum of a sequence, a fold, by the sums of its prefixes.             *)

SumOf(s) == FoldLeft(LAMBDA n, b : n + b, 0, s)

LEMMA SumPath ==
  ASSUME NEW s \in Seq(Nat)
  PROVE  \E f \in [0 .. Len(s) -> Nat] :
           /\ f[0] = 0 /\ SumOf(s) = f[Len(s)]
           /\ \A i \in 1 .. Len(s) : f[i] = f[i - 1] + s[i]
<1> DEFINE m == Len(s)
           h == [i \in 1 .. m |-> [n \in Nat |-> n + s[i]]]
<1>1. m \in Nat /\ h \in [1 .. m -> [Nat -> Nat]] /\ DOMAIN s = 1 .. m
  OBVIOUS
<1>2. PICK it : Iterates(it, Nat, 0, h, m)
  <2> HIDE DEF m, h
  <2> QED BY <1>1, IterationExists
<1>3. it = [t \in SUBSET (1 .. m) |-> IF t = {} THEN 0 ELSE it[t \ {Max(t)}] + s[Max(t)]]
  <2>1. ASSUME NEW t \in SUBSET (1 .. m), t # {}
        PROVE  h[Max(t)][it[t \ {Max(t)}]] = it[t \ {Max(t)}] + s[Max(t)]
    <3>1. Max(t) \in 1 .. m
      BY <1>1, <2>1, MaxIsIn
    <3>2. it[t \ {Max(t)}] \in Nat
      BY <1>2 DEF Iterates
    <3> QED BY <3>1, <3>2
  <2> HIDE DEF m, h
  <2> QED BY <1>2, <2>1 DEF Iterates
<1>4. SumOf(s) = (CHOOSE g : g = [t \in SUBSET (1 .. m) |->
                    IF t = {} THEN 0 ELSE g[t \ {Max(t)}] + s[Max(t)]])[1 .. m]
  BY <1>1 DEF SumOf, FoldLeft, MapThenFoldSet
<1>5. PICK g : /\ SumOf(s) = g[1 .. m]
               /\ g = [t \in SUBSET (1 .. m) |->
                         IF t = {} THEN 0 ELSE g[t \ {Max(t)}] + s[Max(t)]]
  <2> HIDE DEF m, h
  <2> QED BY <1>3, <1>4
<1> DEFINE f == [i \in 0 .. m |-> g[1 .. i]]
<1>6. f[0] = 0
  <2>1. 1 .. 0 = {} /\ 0 \in 0 .. m
    BY <1>1
  <2>2. f[0] = g[{}]
    BY <2>1
  <2> HIDE DEF f, m, h
  <2> QED BY <1>5, <2>2
<1>7. ASSUME NEW i \in 1 .. m PROVE f[i] = f[i - 1] + s[i]
  <2>1. Max(1 .. i) = i /\ (1 .. i) \ {i} = 1 .. i - 1 /\ 1 .. i # {}
    BY PeelInterval, i \in Nat \ {0}
  <2>2. 1 .. i \in SUBSET (1 .. m) /\ i \in 0 .. m /\ i - 1 \in 0 .. m
    BY <1>1
  <2>3. f[i] = g[1 .. i] /\ f[i - 1] = g[1 .. i - 1]
    BY <2>2
  <2> HIDE DEF f, m, h
  <2>4. g[1 .. i] = g[(1 .. i) \ {Max(1 .. i)}] + s[Max(1 .. i)]
    BY <1>5, <2>1, <2>2
  <2> QED BY <2>1, <2>3, <2>4
<1> DEFINE N == {n \in 0 .. m : f[n] \in Nat}
<1>8. 0 .. m \subseteq N
  <2>1. 0 \in N
    BY <1>1, <1>6
  <2>2. ASSUME NEW n \in 0 .. m - 1, n \in N PROVE n + 1 \in N
    <3>1. n + 1 \in 1 .. m /\ (n + 1) - 1 = n /\ s[n + 1] \in Nat /\ f[n] \in Nat
      BY <1>1, <2>2
    <3>2. f[n + 1] = f[n] + s[n + 1]
      BY <1>7, <3>1
    <3> HIDE DEF f
    <3> QED BY <3>1, <3>2
  <2> HIDE DEF N, m
  <2> QED BY <1>1, <2>1, <2>2, BoundedInduction
<1>9. f \in [0 .. m -> Nat] /\ SumOf(s) = f[m]
  <2>1. \A n \in 0 .. m : f[n] \in Nat
    BY <1>8
  <2>2. f = [i \in 0 .. m |-> f[i]] /\ f[m] = g[1 .. m]
    BY <1>1
  <2> HIDE DEF f, m
  <2> QED BY <1>5, <2>1, <2>2
<1> HIDE DEF f
<1> QED BY <1>6, <1>7, <1>9

LEMMA SumType == \A s \in Seq(Nat) : SumOf(s) \in Nat
BY SumPath

LEMMA SumEmpty == SumOf(<< >>) = 0
<1>1. << >> \in Seq(Nat) /\ Len(<< >>) = 0
  OBVIOUS
<1> QED BY <1>1, SumPath

LEMMA SumAppend ==
  ASSUME NEW s \in Seq(Nat), NEW b \in Nat
  PROVE  SumOf(Append(s, b)) = SumOf(s) + b
<1> DEFINE r == Append(s, b)
           m == Len(s)
<1>1. r \in Seq(Nat) /\ Len(r) = m + 1 /\ m \in Nat /\ r[m + 1] = b
      /\ \A i \in 1 .. m : r[i] = s[i]
  OBVIOUS
<1>2. PICK f \in [0 .. m -> Nat] :
        f[0] = 0 /\ SumOf(s) = f[m] /\ \A i \in 1 .. m : f[i] = f[i - 1] + s[i]
  BY SumPath
<1>3. PICK g \in [0 .. m + 1 -> Nat] :
        g[0] = 0 /\ SumOf(r) = g[m + 1] /\ \A i \in 1 .. m + 1 : g[i] = g[i - 1] + r[i]
  <2> HIDE DEF r, m
  <2>1. PICK g \in [0 .. Len(r) -> Nat] :
          g[0] = 0 /\ SumOf(r) = g[Len(r)] /\ \A i \in 1 .. Len(r) : g[i] = g[i - 1] + r[i]
    BY <1>1, SumPath
  <2> QED BY <1>1, <2>1
<1> DEFINE N == {n \in 0 .. m : f[n] = g[n]}
<1> HIDE DEF r, m
<1>4. 0 \in N
  BY <1>1, <1>2, <1>3
<1>5. ASSUME NEW n \in 0 .. m - 1, n \in N PROVE n + 1 \in N
  <2>1. n + 1 \in 1 .. m /\ n + 1 \in 1 .. m + 1 /\ (n + 1) - 1 = n /\ n + 1 \in 0 .. m
    BY <1>1
  <2>2. f[n + 1] = f[n] + s[n + 1] /\ g[n + 1] = g[n] + r[n + 1] /\ r[n + 1] = s[n + 1]
    BY <1>1, <1>2, <1>3, <2>1
  <2> QED BY <1>5, <2>1, <2>2
<1>6. 0 .. m \subseteq N
  <2> HIDE DEF N
  <2> QED BY <1>1, <1>4, <1>5, BoundedInduction
<1>7. f[m] = g[m]
  BY <1>1, <1>6
<1>8. g[m + 1] = g[m] + b
  <2>1. m + 1 \in 1 .. m + 1 /\ (m + 1) - 1 = m
    BY <1>1
  <2> QED BY <1>1, <1>3, <2>1
<1> QED BY <1>2, <1>3, <1>7, <1>8 DEF r

LEMMA SumConcat ==
  ASSUME NEW s \in Seq(Nat)
  PROVE  \A t \in Seq(Nat) : SumOf(s \o t) = SumOf(s) + SumOf(t)
<1> DEFINE T == {t \in Seq(Nat) : SumOf(s \o t) = SumOf(s) + SumOf(t)}
<1>1. << >> \in T
  <2>1. s \o << >> = s /\ << >> \in Seq(Nat)
    OBVIOUS
  <2> QED BY <2>1, SumEmpty, SumType
<1>2. ASSUME NEW t \in Seq(Nat), NEW e \in Nat, t \in T PROVE Append(t, e) \in T
  <2>1. s \o Append(t, e) = Append(s \o t, e) /\ s \o t \in Seq(Nat) /\ Append(t, e) \in Seq(Nat)
    OBVIOUS
  <2>2. SumOf(Append(s \o t, e)) = SumOf(s \o t) + e /\ SumOf(Append(t, e)) = SumOf(t) + e
    BY <2>1, SumAppend
  <2>3. SumOf(s) \in Nat /\ SumOf(t) \in Nat /\ SumOf(s \o t) = SumOf(s) + SumOf(t)
    BY <1>2, SumType
  <2>4. (SumOf(s) + SumOf(t)) + e = SumOf(s) + (SumOf(t) + e)
    BY <2>3
  <2>5. SumOf(s \o Append(t, e)) = SumOf(s) + SumOf(Append(t, e))
    BY <2>1, <2>2, <2>3, <2>4, Zenon
  <2> QED BY <2>1, <2>5
<1>3. Seq(Nat) \subseteq T
  <2> HIDE DEF T
  <2> QED BY <1>1, <1>2, SeqInduction
<1> QED BY <1>3

LEMMA SumOne == \A a \in Nat : SumOf(<<a>>) = a
<1> SUFFICES ASSUME NEW a \in Nat PROVE SumOf(<<a>>) = a
  OBVIOUS
<1>1. <<a>> = Append(<< >>, a) /\ << >> \in Seq(Nat)
  OBVIOUS
<1>2. SumOf(Append(<< >>, a)) = 0 + a
  BY <1>1, SumAppend, SumEmpty
<1> QED BY <1>1, <1>2

LEMMA SumHeadTail ==
  ASSUME NEW s \in Seq(Nat), s # << >>
  PROVE  SumOf(s) = Head(s) + SumOf(Tail(s))
<1>1. <<Head(s)>> \in Seq(Nat) /\ Tail(s) \in Seq(Nat) /\ Head(s) \in Nat
  OBVIOUS
<1>2. s = <<Head(s)>> \o Tail(s)
  OBVIOUS
<1>3. SumOf(<<Head(s)>> \o Tail(s)) = SumOf(<<Head(s)>>) + SumOf(Tail(s))
  BY <1>1, SumConcat
<1> QED BY <1>1, <1>2, <1>3, SumOne

LEMMA SumRemoveAt ==
  ASSUME NEW s \in Seq(Nat), NEW i \in 1 .. Len(s)
  PROVE  RemoveAt(s, i) \in Seq(Nat) /\ SumOf(s) = SumOf(RemoveAt(s, i)) + s[i]
<1> DEFINE a == SubSeq(s, 1, i - 1)
           c == SubSeq(s, i + 1, Len(s))
           b == s[i]
<1>1. a \in Seq(Nat) /\ c \in Seq(Nat) /\ b \in Nat
  OBVIOUS
<1>2. s = Append(a, b) \o c
  <2> DEFINE d == Append(a, b)
             n == Len(s)
  <2>1. d \in Seq(Nat) /\ Len(d) = i /\ \A j \in 1 .. i : d[j] = s[j]
    OBVIOUS
  <2>2. Len(c) = n - i /\ \A j \in 1 .. n - i : c[j] = s[j + i]
    BY SMTT(30)
  <2>3. n \in Nat /\ i \in 1 .. n
    OBVIOUS
  <2> HIDE DEF a, b, c, d
  <2>4. d \o c \in Seq(Nat) /\ Len(d \o c) = i + (n - i)
        /\ \A j \in 1 .. i + (n - i) : (d \o c)[j] = IF j <= i THEN d[j] ELSE c[j - i]
    <3>1. /\ d \o c \in Seq(Nat) /\ Len(d \o c) = Len(d) + Len(c)
          /\ \A j \in 1 .. Len(d) + Len(c) :
               (d \o c)[j] = IF j <= Len(d) THEN d[j] ELSE c[j - Len(d)]
      BY <1>1, <2>1, ConcatProperties
    <3> QED BY <2>1, <2>2, <3>1
  <2> HIDE DEF n
  <2>5. i + (n - i) = n /\ \A j \in 1 .. n : j > i => j - i \in 1 .. n - i /\ (j - i) + i = j
    BY <2>3
  <2>6. ASSUME NEW j \in 1 .. n PROVE (d \o c)[j] = s[j]
    <3>1. CASE j <= i
      BY <2>1, <2>3, <2>4, <2>5, <3>1
    <3>2. CASE j > i
      <4>0. j \in 1 .. i + (n - i) /\ ~(j <= i)
        BY <2>3, <2>5, <3>2
      <4>1. (d \o c)[j] = c[j - i]
        BY <2>4, <4>0
      <4>2. c[j - i] = s[j]
        BY <2>2, <2>5, <3>2
      <4> QED BY <4>1, <4>2
    <3>3. j <= i \/ j > i
      BY <2>3
    <3> QED BY <3>1, <3>2, <3>3
  <2>7. s = d \o c
    BY <2>4, <2>5, <2>6, SeqEqual DEF n
  <2> QED BY <2>7 DEF d
<1>3. RemoveAt(s, i) = a \o c
  BY DEF RemoveAt
<1> HIDE DEF a, b, c
<1>4. Append(a, b) \in Seq(Nat) /\ a \o c \in Seq(Nat)
  BY <1>1
<1>5. SumOf(Append(a, b) \o c) = (SumOf(a) + b) + SumOf(c) /\ SumOf(a \o c) = SumOf(a) + SumOf(c)
  BY <1>1, <1>4, SumConcat, SumAppend, ZenonT(40)
<1>6. SumOf(a) \in Nat /\ SumOf(c) \in Nat
  BY <1>1, SumType
<1>7. SumOf(s) = SumOf(a \o c) + b
  BY <1>1, <1>2, <1>5, <1>6
<1> QED BY <1>3, <1>4, <1>7 DEF b

-----------------------------------------------------------------------------
(* Sums of prefixes.                                                       *)

Prefix(s, i) == SumOf(SubSeq(s, 1, i))

LEMMA PrefixEnds ==
  ASSUME NEW s \in Seq(Nat)
  PROVE  Prefix(s, 0) = 0 /\ Prefix(s, Len(s)) = SumOf(s)
<1>1. SubSeq(s, 1, 0) = << >> /\ SubSeq(s, 1, Len(s)) = s
  OBVIOUS
<1> QED BY <1>1, SumEmpty DEF Prefix

LEMMA PrefixType ==
  ASSUME NEW s \in Seq(Nat), NEW i \in 0 .. Len(s)
  PROVE  SubSeq(s, 1, i) \in Seq(Nat) /\ Len(SubSeq(s, 1, i)) = i /\ Prefix(s, i) \in Nat
<1>1. SubSeq(s, 1, i) \in Seq(Nat) /\ Len(SubSeq(s, 1, i)) = i
  OBVIOUS
<1> QED BY <1>1, SumType DEF Prefix

LEMMA PrefixStep ==
  ASSUME NEW s \in Seq(Nat), NEW i \in 1 .. Len(s)
  PROVE  Prefix(s, i) = Prefix(s, i - 1) + s[i]
<1> DEFINE a == SubSeq(s, 1, i - 1)
           c == SubSeq(s, 1, i)
           b == s[i]
<1>1. a \in Seq(Nat) /\ c \in Seq(Nat) /\ b \in Nat /\ Len(a) = i - 1 /\ Len(c) = i
  OBVIOUS
<1>2. (\A j \in 1 .. i - 1 : c[j] = a[j]) /\ c[i] = b
  OBVIOUS
<1> HIDE DEF a, b, c
<1>3. Len(c) = Len(a) + 1 /\ (\A j \in 1 .. Len(a) : c[j] = a[j]) /\ c[Len(a) + 1] = b
  BY <1>1, <1>2
<1>4. Append(a, b) = c
  BY <1>1, <1>3, AppendElements
<1>5. SumOf(c) = SumOf(a) + b
  BY <1>1, <1>4, SumAppend
<1> QED BY <1>5 DEF Prefix, a, b, c

\* A sequence is cut in two anywhere.
LEMMA CutAt ==
  ASSUME NEW S, NEW s \in Seq(S), NEW m \in 0 .. Len(s)
  PROVE  /\ SubSeq(s, 1, m) \in Seq(S) /\ SubSeq(s, m + 1, Len(s)) \in Seq(S)
         /\ SubSeq(s, 1, m) \o SubSeq(s, m + 1, Len(s)) = s
         /\ Len(SubSeq(s, m + 1, Len(s))) = Len(s) - m
         /\ \A j \in 1 .. Len(s) - m : SubSeq(s, m + 1, Len(s))[j] = s[m + j]
<1> DEFINE n == Len(s)
           d == SubSeq(s, 1, m)
           c == SubSeq(s, m + 1, n)
<1>1. d \in Seq(S) /\ c \in Seq(S) /\ Len(d) = m /\ n \in Nat /\ m \in 0 .. n
  OBVIOUS
<1>2. Len(c) = n - m /\ \A j \in 1 .. n - m : c[j] = s[m + j]
  BY SMTT(30)
<1>3. \A j \in 1 .. m : d[j] = s[j]
  OBVIOUS
<1> HIDE DEF c, d
<1>4. d \o c \in Seq(S) /\ Len(d \o c) = n
      /\ \A j \in 1 .. n : (d \o c)[j] = IF j <= m THEN d[j] ELSE c[j - m]
  <2>1. /\ d \o c \in Seq(S) /\ Len(d \o c) = Len(d) + Len(c)
        /\ \A j \in 1 .. Len(d) + Len(c) :
             (d \o c)[j] = IF j <= Len(d) THEN d[j] ELSE c[j - Len(d)]
    BY <1>1, ConcatProperties
  <2>2. Len(d) + Len(c) = n /\ Len(d) = m
    BY <1>1, <1>2
  <2> QED BY <2>1, <2>2
<1>5. ASSUME NEW j \in 1 .. n PROVE (d \o c)[j] = s[j]
  <2>1. CASE j <= m
    BY <1>1, <1>3, <1>4, <2>1
  <2>2. CASE j > m
    <3>1. ~(j <= m) /\ j - m \in 1 .. n - m /\ m + (j - m) = j
      BY <1>1, <2>2
    <3> QED BY <1>2, <1>4, <3>1
  <2>3. j <= m \/ j > m
    BY <1>1
  <2> QED BY <2>1, <2>2, <2>3
<1>6. d \o c = s
  BY <1>4, <1>5, SeqEqual DEF n
<1> QED BY <1>1, <1>2, <1>6 DEF c, d, n

LEMMA PrefixCut ==
  ASSUME NEW s \in Seq(Nat), NEW m \in 0 .. Len(s)
  PROVE  SumOf(s) = Prefix(s, m) + SumOf(SubSeq(s, m + 1, Len(s)))
<1> DEFINE a == SubSeq(s, 1, m)
           b == SubSeq(s, m + 1, Len(s))
<1>1. a \in Seq(Nat) /\ b \in Seq(Nat) /\ a \o b = s
  BY CutAt
<1> HIDE DEF a, b
<1>2. SumOf(s) = SumOf(a) + SumOf(b)
  BY <1>1, SumConcat
<1> QED BY <1>2 DEF Prefix, a, b

LEMMA PrefixGrows ==
  ASSUME NEW s \in Seq(Nat), NEW j \in 0 .. Len(s)
  PROVE  \A i \in 0 .. j : Prefix(s, i) <= Prefix(s, j)
<1> DEFINE N == {n \in 0 .. j : \A i \in 0 .. n : Prefix(s, i) <= Prefix(s, n)}
<1>1. 0 \in N
  BY PrefixType
<1>2. ASSUME NEW n \in 0 .. j - 1, n \in N PROVE n + 1 \in N
  <2>1. ASSUME NEW i \in 0 .. n + 1 PROVE Prefix(s, i) <= Prefix(s, n + 1)
    <3>1. n + 1 \in 1 .. Len(s) /\ (n + 1) - 1 = n /\ n \in 0 .. Len(s) /\ i \in 0 .. Len(s)
      BY <1>2
    <3>2. Prefix(s, n + 1) = Prefix(s, n) + s[n + 1] /\ s[n + 1] \in Nat
      BY <3>1, PrefixStep
    <3>3. Prefix(s, n) \in Nat /\ Prefix(s, i) \in Nat
      BY <3>1, PrefixType
    <3>4. i \in 0 .. n => Prefix(s, i) <= Prefix(s, n)
      BY <1>2
    <3>5. i \in 0 .. n \/ i = n + 1
      BY <1>2
    <3> QED BY <3>2, <3>3, <3>4, <3>5
  <2> QED BY <1>2, <2>1
<1>3. 0 .. j \subseteq N
  <2> HIDE DEF N
  <2>1. j \in Nat
    OBVIOUS
  <2> QED BY <1>1, <1>2, <2>1, BoundedInduction
<1> QED BY <1>3

\* The most places whose sum is no more than e.
LEMMA LongestPrefix ==
  ASSUME NEW s \in Seq(Nat), NEW e \in Nat
  PROVE  \E m \in 0 .. Len(s) :
           /\ Prefix(s, m) <= e
           /\ \A y \in 0 .. Len(s) : Prefix(s, y) <= e => y <= m
           /\ m < Len(s) => e < Prefix(s, m + 1)
<1> DEFINE n == Len(s)
           T == {k \in 0 .. n : Prefix(s, n - k) <= e}
<1>1. n \in Nat /\ n - n = 0
  OBVIOUS
<1>2. n \in T /\ T \subseteq Nat
  BY <1>1, PrefixEnds
<1>3. PICK x \in T : \A y \in T : x <= y
  <2> HIDE DEF n, T
  <2> QED BY <1>1, <1>2, LeastExists
<1> DEFINE m == n - x
<1>4. m \in 0 .. n /\ Prefix(s, m) <= e
  OBVIOUS
<1>5. ASSUME NEW y \in 0 .. n, Prefix(s, y) <= e PROVE y <= m
  <2>1. n - y \in T
    <3>1. n - y \in 0 .. n /\ n - (n - y) = y
      BY <1>1
    <3> QED BY <1>5, <3>1
  <2>2. x <= n - y
    BY <1>3, <2>1
  <2>3. x \in 0 .. n
    OBVIOUS
  <2> HIDE DEF T, n
  <2> QED BY <1>1, <2>2, <2>3
<1>6. m < n => e < Prefix(s, m + 1)
  <2> SUFFICES ASSUME m < n, ~(e < Prefix(s, m + 1)) PROVE FALSE
    OBVIOUS
  <2>1. m + 1 \in 0 .. n /\ ~(m + 1 <= m)
    BY <1>1, <1>4
  <2>2. Prefix(s, m + 1) \in Nat
    BY <2>1, PrefixType
  <2>3. Prefix(s, m + 1) <= e
    BY <2>2
  <2> HIDE DEF m
  <2> QED BY <1>5, <2>1, <2>3
<1> HIDE DEF m
<1> QED BY <1>4, <1>5, <1>6

\* Prefixes of a sequence t that repeats s from place m on.
LEMMA PrefixShift ==
  ASSUME NEW s \in Seq(Nat), NEW t \in Seq(Nat), NEW m \in Nat, NEW k \in 0 .. Len(t),
         m + k <= Len(s), \A i \in 1 .. k : t[i] = s[m + i]
  PROVE  \A j \in 0 .. k : Prefix(s, m + j) = Prefix(s, m) + Prefix(t, j)
<1> DEFINE N == {j \in 0 .. k : Prefix(s, m + j) = Prefix(s, m) + Prefix(t, j)}
<1>1. k \in Nat /\ m \in 0 .. Len(s) /\ m + 0 = m
  OBVIOUS
<1>2. 0 \in N
  <2>1. Prefix(s, m) \in Nat /\ Prefix(t, 0) = 0
    BY <1>1, PrefixType, PrefixEnds
  <2> QED BY <1>1, <2>1
<1>3. ASSUME NEW n \in 0 .. k - 1, n \in N PROVE n + 1 \in N
  <2>1. /\ n + 1 \in 1 .. k /\ n + 1 \in 1 .. Len(t) /\ (n + 1) - 1 = n /\ n \in 0 .. Len(t)
        /\ m + (n + 1) \in 1 .. Len(s) /\ (m + (n + 1)) - 1 = m + n /\ m + n \in 0 .. Len(s)
    BY <1>3, <1>1
  <2>2. Prefix(t, n + 1) = Prefix(t, n) + t[n + 1]
    BY <2>1, PrefixStep
  <2>3. Prefix(s, m + (n + 1)) = Prefix(s, m + n) + s[m + (n + 1)]
    BY <2>1, PrefixStep
  <2>4. t[n + 1] = s[m + (n + 1)] /\ t[n + 1] \in Nat
    BY <2>1
  <2>5. Prefix(t, n) \in Nat /\ Prefix(s, m + n) \in Nat /\ Prefix(s, m) \in Nat
    BY <1>1, <2>1, PrefixType
  <2>6. Prefix(s, m + n) = Prefix(s, m) + Prefix(t, n)
    BY <1>3
  <2>7. Prefix(s, m + (n + 1)) = Prefix(s, m) + Prefix(t, n + 1)
    <3> DEFINE a == Prefix(s, m)
               b == Prefix(t, n)
               c == Prefix(s, m + n)
               e == t[n + 1]
    <3>1. a \in Nat /\ b \in Nat /\ e \in Nat /\ c = a + b
      BY <2>4, <2>5, <2>6
    <3>2. Prefix(s, m + (n + 1)) = c + e /\ Prefix(t, n + 1) = b + e
      BY <2>2, <2>3, <2>4
    <3> HIDE DEF a, b, c, e
    <3> QED BY <3>1, <3>2 DEF a
  <2> QED BY <2>1, <2>7
<1>4. 0 .. k \subseteq N
  <2> HIDE DEF N
  <2> QED BY <1>1, <1>2, <1>3, BoundedInduction
<1> QED BY <1>4

=============================================================================
