-------------------------- MODULE EventQueueProofs --------------------------
(***************************************************************************)
(* Why the event queue is sound: its links spell out a sequence, and each  *)
(* operation on the links is one on that sequence.                         *)
(***************************************************************************)
EXTENDS EventQueue, SequenceLemmas, FiniteSetTheorems

ListType == [head : Node \cup {Null}, tail : Links, next : [Node -> Node \cup {Null}], size : Int]

\* l's links spell out w: from the head on, to a null link, which is the tail's.
IsList(l, w) ==
  /\ l \in ListType /\ w \in Seq(Node)
  /\ \A i, j \in 1 .. Len(w) : w[i] = w[j] => i = j
  /\ l.size = Len(w)
  /\ l.head = IF Len(w) = 0 THEN Null ELSE w[1]
  /\ l.tail = IF Len(w) = 0 THEN HeadLink ELSE w[Len(w)]
  /\ \A i \in 1 .. Len(w) : l.next[w[i]] = IF i = Len(w) THEN Null ELSE w[i + 1]

Elements(w) == {w[i] : i \in 1 .. Len(w)}

LEMMA Nodes == Null \notin Node /\ HeadLink \notin Node /\ IsFiniteSet(Node)
               /\ Cardinality(Node) \in Nat
BY ConstantsAssumption, FS_CardinalityType

(* A list has no more elements than there are. *)
LEMMA ListLength ==
  ASSUME NEW w \in Seq(Node), \A i, j \in 1 .. Len(w) : w[i] = w[j] => i = j
  PROVE  Len(w) <= Cardinality(Node)
<1> DEFINE m == Len(w)
           S == 1 .. m
<1>1. m \in Nat /\ w \in [S -> Node]
  OBVIOUS
<1>2. IsFiniteSet(S) /\ Cardinality(S) = m
  BY <1>1, FS_Interval, SMTT(30)
<1>3. w \in Injection(S, Node)
  BY <1>1 DEF Injection, IsInjective
<1> HIDE DEF S, m
<1>4. Cardinality(S) <= Cardinality(Node)
  BY <1>2, <1>3, Nodes, FS_Injection, Zenon DEF ExistsInjection
<1> QED BY <1>2, <1>4 DEF m

(* Chain(l) reads the sequence off the links. *)
LEMMA ChainIs ==
  ASSUME NEW l, NEW w, IsList(l, w)
  PROVE  Chain(l) = w
<1> DEFINE N == Cardinality(Node)
           m == Len(w)
           D == [Node \cup {Null} -> Seq(Node)]
           b == [n \in Node \cup {Null} |-> << >>]
           h == [k \in 1 .. N |-> [d \in D |->
                   [n \in Node \cup {Null} |-> IF n = Null THEN << >> ELSE <<n>> \o d[l.next[n]]]]]
<1>1. N \in Nat /\ Null \notin Node /\ m \in Nat /\ w \in Seq(Node) /\ l \in ListType
  BY Nodes DEF IsList
<1>2. \A n \in Node : l.next[n] \in Node \cup {Null}
  BY <1>1 DEF ListType
<1>3. b \in D
  OBVIOUS
<1>4. h \in [1 .. N -> [D -> D]]
  <2>1. ASSUME NEW d \in D, NEW n \in Node \cup {Null}
        PROVE  (IF n = Null THEN << >> ELSE <<n>> \o d[l.next[n]]) \in Seq(Node)
    <3>1. CASE n = Null
      BY <3>1
    <3>2. CASE n # Null
      <4>1. <<n>> \in Seq(Node) /\ d[l.next[n]] \in Seq(Node)
        BY <1>2, <3>2
      <4> QED BY <3>2, <4>1, ConcatProperties
    <3> QED BY <3>1, <3>2
  <2>2. ASSUME NEW d \in D
        PROVE  [n \in Node \cup {Null} |-> IF n = Null THEN << >> ELSE <<n>> \o d[l.next[n]]] \in D
    BY <2>1
  <2> HIDE DEF D, N
  <2> QED BY <2>2
<1>5. PICK f : Path(f, D, b, h, N)
  <2> HIDE DEF D, b, h, N
  <2> QED BY <1>1, <1>3, <1>4, PathExists
<1> DEFINE F(g) == [k \in 0 .. N |-> [n \in Node \cup {Null} |->
                      IF k = 0 \/ n = Null THEN << >> ELSE <<n>> \o g[k - 1][l.next[n]]]]
<1>6. f = F(f)
  <2>1. ASSUME NEW k \in 0 .. N
        PROVE  f[k] = [n \in Node \cup {Null} |->
                         IF k = 0 \/ n = Null THEN << >> ELSE <<n>> \o f[k - 1][l.next[n]]]
    <3>1. CASE k = 0
      BY <1>5, <3>1 DEF Path
    <3>2. CASE k # 0
      <4>1. k \in 1 .. N /\ f[k - 1] \in D
        <5> HIDE DEF N, D, b, h
        <5>1. k \in 1 .. N /\ k - 1 \in 0 .. N
          BY <1>1, <3>2
        <5> QED BY <1>5, <5>1 DEF Path
      <4>2. h[k][f[k - 1]] = [n \in Node \cup {Null} |->
                                IF n = Null THEN << >> ELSE <<n>> \o f[k - 1][l.next[n]]]
        <5> HIDE DEF D, N
        <5> QED BY <4>1
      <4> HIDE DEF h, D, N
      <4>3. f[k] = h[k][f[k - 1]]
        BY <1>5, <4>1 DEF Path
      <4> QED BY <3>2, <4>2, <4>3
    <3> QED BY <3>1, <3>2
  <2>2. f = [k \in 0 .. N |-> f[k]]
    <3> HIDE DEF D, N, h, b
    <3> QED BY <1>5 DEF Path
  <2> HIDE DEF D, N, h, b
  <2> QED BY <2>1, <2>2
<1>7. Chain(l) = (CHOOSE g : g = F(g))[N][l.head]
  BY DEF Chain
<1>8. PICK g : g = F(g) /\ Chain(l) = g[N][l.head]
  <2>1. \E g : g = F(g)
    BY <1>6, Zenon
  <2>2. (CHOOSE g : g = F(g)) = F(CHOOSE g : g = F(g))
    BY <2>1, Zenon
  <2> HIDE DEF F
  <2> QED BY <1>7, <2>2
<1> DEFINE at(i) == IF i = m + 1 THEN Null ELSE w[i]
           T == {k \in 0 .. N : \A i \in 1 .. m + 1 :
                   m + 1 - i <= k => g[k][at(i)] = SubSeq(w, i, m)}
<1>9. ASSUME NEW i \in 1 .. m + 1 PROVE at(i) \in Node \cup {Null} /\ (at(i) = Null <=> i = m + 1)
  BY <1>1
<1>10. g[0][at(m + 1)] = << >> /\ SubSeq(w, m + 1, m) = << >>
  <2>1. 0 \in 0 .. N /\ at(m + 1) = Null
    BY <1>1
  <2> HIDE DEF N, at
  <2> QED BY <1>1, <1>8, <2>1, SubSeqEmpty
<1>11. 0 \in T
  <2>1. \A i \in 1 .. m + 1 : m + 1 - i <= 0 => i = m + 1
    BY <1>1
  <2>2. ASSUME NEW i \in 1 .. m + 1, m + 1 - i <= 0 PROVE g[0][at(i)] = SubSeq(w, i, m)
    <3>1. i = m + 1
      BY <2>1, <2>2
    <3> HIDE DEF at
    <3> QED BY <1>10, <3>1
  <2>3. 0 \in 0 .. N
    BY <1>1
  <2> HIDE DEF at, N
  <2> QED BY <2>2, <2>3
<1>12. ASSUME NEW k \in 0 .. N - 1, k \in T PROVE k + 1 \in T
  <2>1. ASSUME NEW i \in 1 .. m + 1, m + 1 - i <= k + 1
        PROVE  g[k + 1][at(i)] = SubSeq(w, i, m)
    <3>1. k + 1 \in 0 .. N /\ k + 1 # 0 /\ (k + 1) - 1 = k
      BY <1>1
    <3>2. g[k + 1][at(i)] = IF at(i) = Null THEN << >> ELSE <<at(i)>> \o g[k][l.next[at(i)]]
      <4> DEFINE x == at(i)
      <4>1. x \in Node \cup {Null}
        BY <1>9, SMTT(30)
      <4> HIDE DEF at, N, x
      <4>2. g[k + 1] = [n \in Node \cup {Null} |->
                          IF k + 1 = 0 \/ n = Null THEN << >> ELSE <<n>> \o g[(k + 1) - 1][l.next[n]]]
        BY <1>8, <3>1
      <4>3. g[k + 1][x] = IF x = Null THEN << >> ELSE <<x>> \o g[k][l.next[x]]
        BY <3>1, <4>1, <4>2
      <4> QED BY <4>3 DEF x
    <3>3. CASE i = m + 1
      BY <1>9, <1>10, <3>2, <3>3
    <3>4. CASE i # m + 1
      <4>1. at(i) = w[i] /\ i \in 1 .. m /\ i + 1 \in 1 .. m + 1 /\ m + 1 - (i + 1) <= k
        BY <1>1, <2>1, <3>4
      <4>2. l.next[w[i]] = at(i + 1)
        <5>1. l.next[w[i]] = IF i = m THEN Null ELSE w[i + 1]
          BY <4>1 DEF IsList
        <5>2. i = m <=> i + 1 = m + 1
          BY <1>1, <4>1
        <5> HIDE DEF m
        <5> QED BY <5>1, <5>2
      <4>3. g[k][at(i + 1)] = SubSeq(w, i + 1, m)
        BY <1>12, <4>1
      <4>4. SubSeq(w, i, m) = <<w[i]>> \o SubSeq(w, i + 1, m)
        BY <1>1, <4>1, SubSeqRecursiveFirst
      <4> QED BY <1>9, <3>2, <3>4, <4>1, <4>2, <4>3, <4>4
    <3> QED BY <3>3, <3>4
  <2> QED BY <1>1, <2>1
<1>13. 0 .. N \subseteq T
  <2> HIDE DEF T, N
  <2> QED BY <1>1, <1>11, <1>12, BoundedInduction
<1>14. m <= N
  BY ListLength DEF IsList
<1>15. g[N][at(1)] = SubSeq(w, 1, m)
  <2>1. N \in T /\ 1 \in 1 .. m + 1 /\ m + 1 - 1 <= N
    BY <1>1, <1>13, <1>14
  <2> HIDE DEF at, N
  <2> QED BY <2>1
<1>16. at(1) = l.head
  BY <1>1 DEF IsList
<1>17. SubSeq(w, 1, m) = w
  BY <1>1, SubSeqFull
<1> HIDE DEF at, N, m
<1> QED BY <1>8, <1>15, <1>16, <1>17

-----------------------------------------------------------------------------
(* What the operations on the links do to the sequence.                    *)

Relinked(l, head, tail, next, size) ==
  [l EXCEPT !.head = head, !.tail = tail, !.next = next, !.size = size]

LEMMA RelinkedIs ==
  ASSUME NEW l \in ListType, NEW h \in Node \cup {Null}, NEW t \in Links,
         NEW x \in [Node -> Node \cup {Null}], NEW z \in Int
  PROVE  LET r == Relinked(l, h, t, x, z)
         IN  r \in ListType /\ r.head = h /\ r.tail = t /\ r.next = x /\ r.size = z
BY DEF ListType, Relinked

LEMMA PushBackIs ==
  ASSUME NEW l, NEW w, IsList(l, w), NEW n \in Node, n \notin Elements(w), l.next[n] = Null
  PROVE  IsList(PushBack(l, n), Append(w, n))
<1> DEFINE m == Len(w)
           v == Append(w, n)
           p == PushBack(l, n)
           nx == IF m = 0 THEN l.next ELSE [l.next EXCEPT ![w[m]] = n]
<1>1. m \in Nat /\ w \in Seq(Node) /\ l \in ListType /\ Null \notin Node /\ HeadLink \notin Node
  BY Nodes DEF IsList
<1>2. v \in Seq(Node) /\ Len(v) = m + 1 /\ v[m + 1] = n /\ \A i \in 1 .. m : v[i] = w[i]
  BY <1>1, AppendProperties
<1>3. \A i \in 1 .. m : w[i] \in Node /\ w[i] # n
  BY <1>1 DEF Elements
<1>4. /\ p.head = (IF m = 0 THEN n ELSE l.head) /\ p.tail = n /\ p.next = nx
      /\ p.size = m + 1 /\ p \in ListType
  <2>1. l.size = m /\ n \in Links
    BY DEF IsList, Links
  <2>2. CASE m = 0
    <3>1. l.tail = HeadLink
      BY <2>2 DEF IsList
    <3>2. p = [[l EXCEPT !.head = n] EXCEPT !.tail = n, !.size = @ + 1]
      BY <3>1 DEF PushBack, Store
    <3>3. nx = l.next /\ nx \in [Node -> Node \cup {Null}] /\ m + 1 \in Int
      BY <1>1, <2>2 DEF ListType
    <3> HIDE DEF p, nx, m
    <3>4. p = Relinked(l, n, n, nx, m + 1)
      BY <1>1, <2>1, <3>2, <3>3 DEF ListType, Relinked
    <3> QED BY <1>1, <2>1, <2>2, <3>3, <3>4, RelinkedIs
  <2>3. CASE m # 0
    <3>1. l.tail = w[m] /\ l.tail # HeadLink /\ w[m] \in Node
      BY <1>1, <1>3, <2>3 DEF IsList
    <3>2. p = [[l EXCEPT !.next[w[m]] = n] EXCEPT !.tail = n, !.size = @ + 1]
      BY <3>1 DEF PushBack, Store
    <3>3. nx = [l.next EXCEPT ![w[m]] = n] /\ nx \in [Node -> Node \cup {Null}]
          /\ m + 1 \in Int /\ l.head \in Node \cup {Null}
      BY <1>1, <2>3 DEF ListType
    <3> HIDE DEF p, nx, m
    <3>4. p = Relinked(l, l.head, n, nx, m + 1)
      BY <1>1, <2>1, <3>2, <3>3 DEF ListType, Relinked
    <3>5. n \in Links /\ l.head \in Node \cup {Null} /\ nx \in [Node -> Node \cup {Null}]
          /\ m + 1 \in Int
      BY <2>1, <3>3
    <3>6. p \in ListType /\ p.head = l.head /\ p.tail = n /\ p.next = nx /\ p.size = m + 1
      BY <1>1, <3>4, <3>5, RelinkedIs, SMTT(30)
    <3> QED BY <2>3, <3>6
  <2> QED BY <2>2, <2>3
<1>7. ASSUME NEW i \in 1 .. m + 1
      PROVE  nx[v[i]] = IF i = m + 1 THEN Null ELSE v[i + 1]
  <2>1. CASE i = m + 1
    <3>1. nx[n] = l.next[n]
      BY <1>1, <1>3 DEF ListType
    <3> QED BY <1>2, <2>1, <3>1
  <2>2. CASE i = m
    <3>1. nx[w[m]] = n /\ i \in 1 .. m
      BY <1>1, <1>3, <2>2 DEF ListType
    <3> HIDE DEF nx, v, m
    <3> QED BY <1>1, <1>2, <2>2, <3>1
  <2>3. CASE i # m + 1 /\ i # m
    <3>1. i \in 1 .. m /\ i + 1 \in 1 .. m /\ m # 0 /\ m \in 1 .. m
      BY <1>1, <2>3
    <3>2. w[i] # w[m] /\ l.next[w[i]] = w[i + 1]
      BY <2>3, <3>1 DEF IsList
    <3>3. nx[w[i]] = l.next[w[i]]
      BY <1>1, <1>3, <3>1, <3>2 DEF ListType
    <3> HIDE DEF nx, v, m
    <3> QED BY <1>2, <2>3, <3>1, <3>2, <3>3
  <2> QED BY <2>1, <2>2, <2>3
<1>8. ASSUME NEW i \in 1 .. m + 1, NEW j \in 1 .. m + 1, v[i] = v[j] PROVE i = j
  <2>1. \A a \in 1 .. m + 1 : a \in 1 .. m \/ a = m + 1
    BY <1>1
  <2>2. \A a, c \in 1 .. m : w[a] = w[c] => a = c
    BY DEF IsList
  <2> HIDE DEF v, m
  <2> QED BY <1>2, <1>3, <1>8, <2>1, <2>2
<1>9. p.head = v[1] /\ p.tail = v[m + 1] /\ p.size = m + 1 /\ p.next = nx
  <2>1. m # 0 => 1 \in 1 .. m /\ l.head = w[1]
    BY <1>1 DEF IsList
  <2>2. v[1] = IF m = 0 THEN n ELSE l.head
    BY <1>2, <2>1
  <2> HIDE DEF nx, v, m
  <2> QED BY <1>2, <1>4, <2>2
<1> HIDE DEF nx, p
<1>10. IsList(p, v)
  <2>1. m + 1 # 0
    BY <1>1
  <2> HIDE DEF v, m
  <2> QED BY <1>2, <1>4, <1>7, <1>8, <1>9, <2>1 DEF IsList
<1> QED BY <1>10 DEF p

LEMMA PushFrontIs ==
  ASSUME NEW l, NEW w, IsList(l, w), NEW n \in Node, n \notin Elements(w)
  PROVE  IsList(PushFront(l, n), <<n>> \o w)
<1> DEFINE m == Len(w)
           v == <<n>> \o w
           p == PushFront(l, n)
           nx == [l.next EXCEPT ![n] = l.head]
<1>1. m \in Nat /\ w \in Seq(Node) /\ l \in ListType /\ Null \notin Node
  BY Nodes DEF IsList
<1>2. v \in Seq(Node) /\ Len(v) = m + 1 /\ v[1] = n /\ \A i \in 1 .. m : v[i + 1] = w[i]
  BY <1>1
<1>3. \A i \in 1 .. m : w[i] \in Node /\ w[i] # n
  BY <1>1 DEF Elements
<1>4. l.head = Null <=> m = 0
  BY <1>1, <1>3 DEF IsList
<1>5. /\ p.head = n /\ p.tail = (IF m = 0 THEN n ELSE l.tail) /\ p.next = nx
      /\ p.size = m + 1 /\ p \in ListType
  <2>1. l.size = m /\ n \in Links
    BY DEF IsList, Links
  <2> DEFINE t == IF m = 0 THEN n ELSE l.tail
  <2>2. p = [l EXCEPT !.tail = t, !.next[n] = l.head, !.head = n, !.size = @ + 1]
    BY <1>4 DEF PushFront
  <2>3. t \in Links
    BY <1>1, <2>1 DEF ListType
  <2>4. m + 1 \in Int /\ nx \in [Node -> Node \cup {Null}]
    BY <1>1 DEF ListType
  <2> HIDE DEF p, t, m
  <2>5. p = Relinked(l, n, t, nx, m + 1)
    BY <1>1, <2>1, <2>2 DEF ListType, Relinked
  <2> HIDE DEF nx
  <2>6. /\ p.head = n /\ p.tail = t /\ p.next = nx /\ p.size = m + 1 /\ p \in ListType
    BY <1>1, <2>1, <2>3, <2>4, <2>5, RelinkedIs
  <2> QED BY <2>6 DEF t
<1>6. nx \in [Node -> Node \cup {Null}] /\ nx[n] = l.head
      /\ \A x \in Node : x # n => nx[x] = l.next[x]
  BY <1>1 DEF ListType
<1>8. \A i \in 1 .. m + 1 : i = 1 \/ (i - 1 \in 1 .. m /\ (i - 1) + 1 = i)
  BY <1>1
<1>9. ASSUME NEW i \in 1 .. m + 1
      PROVE  nx[v[i]] = IF i = m + 1 THEN Null ELSE v[i + 1]
  <2>1. CASE i = 1
    <3>1. nx[v[i]] = l.head
      BY <1>2, <1>6, <2>1
    <3>2. CASE m = 0
      BY <1>4, <2>1, <3>1, <3>2
    <3>3. CASE m # 0
      <4>1. l.head = w[1] /\ 1 \in 1 .. m /\ v[1 + 1] = w[1] /\ 1 # m + 1
        BY <1>1, <1>2, <3>3 DEF IsList
      <4> QED BY <2>1, <3>1, <4>1
    <3> QED BY <3>2, <3>3
  <2>2. CASE i # 1
    <3> DEFINE j == i - 1
    <3>1. j \in 1 .. m /\ i = j + 1 /\ (i = m + 1 <=> j = m) /\ (j # m => j + 1 \in 1 .. m)
      BY <1>1, <2>2
    <3>2. l.next[w[j]] = IF j = m THEN Null ELSE w[j + 1]
      BY <3>1 DEF IsList
    <3>3. v[i] = w[j] /\ nx[w[j]] = l.next[w[j]]
      <4> HIDE DEF v, nx, j, m
      <4> QED BY <1>2, <1>3, <1>6, <3>1
    <3>4. j # m => v[i + 1] = w[j + 1]
      <4> HIDE DEF v, nx, j, m
      <4> QED BY <1>2, <3>1
    <3> HIDE DEF v, nx, j, m
    <3> QED BY <3>1, <3>2, <3>3, <3>4
  <2> QED BY <2>1, <2>2
<1>10. ASSUME NEW i \in 1 .. m + 1, NEW j \in 1 .. m + 1, v[i] = v[j] PROVE i = j
  <2>1. \A a, c \in 1 .. m : w[a] = w[c] => a = c
    BY DEF IsList
  <2>2. \A a \in 1 .. m + 1 : a # 1 => a - 1 \in 1 .. m /\ v[a] = w[a - 1]
    <3> HIDE DEF v, m
    <3> QED BY <1>2, <1>8
  <2>3. i # 1 /\ j # 1 => i - 1 = j - 1
    <3> HIDE DEF v, m
    <3> QED BY <1>10, <2>1, <2>2
  <2>4. i # 1 /\ j # 1 => i = j
    BY <1>1, <2>3
  <2> HIDE DEF v, m
  <2> QED BY <1>2, <1>3, <1>10, <2>2, <2>4
<1>11. p.head = v[1] /\ p.tail = v[m + 1] /\ p.size = m + 1 /\ p.next = nx
  <2>1. m # 0 => m \in 1 .. m /\ l.tail = w[m]
    BY <1>1 DEF IsList
  <2>2. v[m + 1] = IF m = 0 THEN n ELSE l.tail
    <3> HIDE DEF v, m
    <3> QED BY <1>2, <2>1
  <2> HIDE DEF nx, v, m
  <2> QED BY <1>2, <1>5, <2>2
<1> HIDE DEF nx, p
<1>12. IsList(p, v)
  <2>1. m + 1 # 0
    BY <1>1
  <2> HIDE DEF v, m
  <2> QED BY <1>2, <1>5, <1>9, <1>10, <1>11, <2>1 DEF IsList
<1> QED BY <1>12 DEF p

Drop(w, k) == SubSeq(w, k + 1, Len(w))

LEMMA DropIs ==
  ASSUME NEW S, NEW w \in Seq(S), NEW k \in Nat
  PROVE  /\ Drop(w, k) \in Seq(S)
         /\ Len(Drop(w, k)) = IF k <= Len(w) THEN Len(w) - k ELSE 0
         /\ \A i \in 1 .. Len(w) - k : Drop(w, k)[i] = w[k + i]
<1> DEFINE m == Len(w)
<1>1. m \in Nat /\ \A i \in k + 1 .. m : w[i] \in S
  OBVIOUS
<1>2. k + 1 \in Int /\ m - (k + 1) + 1 = m - k /\ (k + 1 <= m <=> k < m)
      /\ \A i \in 1 .. m - k : (k + 1) + i - 1 = k + i
  BY <1>1
<1> DEFINE a == k + 1
<1>3. /\ SubSeq(w, a, m) \in Seq(S)
      /\ Len(SubSeq(w, a, m)) = IF a <= m THEN m - a + 1 ELSE 0
      /\ \A i \in 1 .. m - a + 1 : SubSeq(w, a, m)[i] = w[a + i - 1]
  <2>1. a \in Int /\ m \in Int /\ \A i \in a .. m : w[i] \in S
    BY <1>1, <1>2
  <2> HIDE DEF a, m
  <2> QED BY <2>1, SubSeqProperties
<1> HIDE DEF m
<1>4. Drop(w, k) = SubSeq(w, a, m)
  BY DEF Drop, m
<1>5. Len(Drop(w, k)) = IF k <= m THEN m - k ELSE 0
  BY <1>1, <1>2, <1>3, <1>4
<1>6. \A i \in 1 .. m - k : Drop(w, k)[i] = w[k + i]
  BY <1>2, <1>3, <1>4
<1> QED BY <1>3, <1>4, <1>5, <1>6 DEF m

LEMMA DropDrop ==
  ASSUME NEW S, NEW w \in Seq(S), NEW j \in Nat, NEW k \in Nat
  PROVE  Drop(Drop(w, j), k) = Drop(w, j + k)
<1> DEFINE m == Len(w)
           u == Drop(w, j)
           v == Drop(u, k)
           x == Drop(w, j + k)
<1>1. m \in Nat
  OBVIOUS
<1>2. u \in Seq(S) /\ Len(u) = (IF j <= m THEN m - j ELSE 0) /\ \A i \in 1 .. m - j : u[i] = w[j + i]
  BY DropIs
<1>3. v \in Seq(S) /\ Len(v) = (IF k <= Len(u) THEN Len(u) - k ELSE 0)
      /\ \A i \in 1 .. Len(u) - k : v[i] = u[k + i]
  <2> HIDE DEF u
  <2> QED BY <1>2, DropIs
<1>4. x \in Seq(S) /\ Len(x) = (IF j + k <= m THEN m - (j + k) ELSE 0)
      /\ \A i \in 1 .. m - (j + k) : x[i] = w[(j + k) + i]
  <2>1. j + k \in Nat
    OBVIOUS
  <2> QED BY <2>1, DropIs
<1> HIDE DEF m, u, v, x
<1>5. Len(v) = Len(x)
  BY <1>1, <1>2, <1>3, <1>4
<1>6. ASSUME NEW i \in 1 .. Len(v) PROVE v[i] = x[i]
  <2>1. /\ i \in 1 .. Len(u) - k /\ i \in 1 .. m - (j + k) /\ k + i \in 1 .. m - j
        /\ (j + k) + i = j + (k + i)
    BY <1>1, <1>2, <1>3
  <2> QED BY <1>2, <1>3, <1>4, <2>1
<1>7. v = x
  BY <1>3, <1>4, <1>5, <1>6, SeqEqual
<1> QED BY <1>7 DEF v, u, x

LEMMA DropNone == ASSUME NEW S, NEW w \in Seq(S) PROVE Drop(w, 0) = w
BY SubSeqFull DEF Drop

LEMMA PopFrontIs ==
  ASSUME NEW l, NEW w, IsList(l, w)
  PROVE  IsList(PopFront(l), Drop(w, 1)) /\ PopFront(l).next = l.next
<1> DEFINE m == Len(w)
           v == Drop(w, 1)
           p == PopFront(l)
<1>1. m \in Nat /\ w \in Seq(Node) /\ l \in ListType /\ Null \notin Node /\ HeadLink \notin Node
  BY Nodes DEF IsList
<1>2. v \in Seq(Node) /\ Len(v) = (IF 1 <= m THEN m - 1 ELSE 0) /\ \A i \in 1 .. m - 1 : v[i] = w[1 + i]
  BY <1>1, DropIs
<1>3. \A i \in 1 .. m : w[i] \in Node
  BY <1>1
<1>4. CASE m = 0
  <2>1. p = l
    BY <1>4 DEF PopFront, IsList
  <2>2. v = w
    <3>1. Len(v) = Len(w)
      BY <1>2, <1>4
    <3>2. \A i \in 1 .. Len(v) : v[i] = w[i]
      BY <1>4, <3>1
    <3> HIDE DEF v, m
    <3> QED BY <1>1, <1>2, <3>1, <3>2, SeqEqual
  <2> QED BY <2>1, <2>2
<1>5. CASE m # 0
  <2>1. l.head = w[1] /\ l.head \in Node /\ l.tail = w[m] /\ l.size = m /\ 1 \in 1 .. m /\ m \in 1 .. m
    BY <1>1, <1>3, <1>5 DEF IsList
  <2>2. l.tail = l.head <=> m = 1
    <3>1. w[1] = w[m] => 1 = m
      BY <2>1 DEF IsList
    <3> QED BY <2>1, <3>1
  <2> DEFINE t == IF m = 1 THEN HeadLink ELSE l.tail
             h == l.next[l.head]
  <2>3. p = [l EXCEPT !.tail = t, !.head = h, !.size = @ - 1]
    BY <1>1, <2>1, <2>2 DEF PopFront, ListType
  <2>4. t \in Links /\ h \in Node \cup {Null} /\ m - 1 \in Int
        /\ l.next \in [Node -> Node \cup {Null}]
    BY <1>1, <2>1 DEF ListType, Links
  <2>5. h = IF m = 1 THEN Null ELSE w[2]
    <3>1. l.next[w[1]] = IF 1 = m THEN Null ELSE w[1 + 1]
      BY <2>1 DEF IsList
    <3> QED BY <2>1, <3>1
  <2> HIDE DEF p, t, h
  <2>6. p = Relinked(l, h, t, l.next, m - 1)
    <3> HIDE DEF m
    <3> QED BY <1>1, <2>1, <2>3 DEF ListType, Relinked
  <2>7. p \in ListType /\ p.head = h /\ p.tail = t /\ p.next = l.next /\ p.size = m - 1
    <3> HIDE DEF m
    <3> QED BY <1>1, <2>4, <2>6, RelinkedIs
  <2>8. Len(v) = m - 1 /\ m - 1 \in Nat
    BY <1>1, <1>2, <1>5
  <2>9. ASSUME NEW i \in 1 .. m - 1
        PROVE  v[i] = w[1 + i] /\ p.next[v[i]] = IF i = m - 1 THEN Null ELSE v[i + 1]
    <3> DEFINE j == 1 + i
    <3>1. j \in 1 .. m /\ (i = m - 1 <=> j = m) /\ (i # m - 1 => i + 1 \in 1 .. m - 1)
          /\ 1 + (i + 1) = j + 1
      BY <1>1
    <3>2. l.next[w[j]] = IF j = m THEN Null ELSE w[j + 1]
      BY <3>1 DEF IsList
    <3> HIDE DEF v, m
    <3>3. v[i] = w[j] /\ (i # m - 1 => v[i + 1] = w[1 + (i + 1)])
      BY <1>2, <3>1
    <3> HIDE DEF j
    <3> QED BY <2>7, <3>1, <3>2, <3>3 DEF j
  <2>10. ASSUME NEW i \in 1 .. m - 1, NEW j \in 1 .. m - 1, v[i] = v[j] PROVE i = j
    <3>1. 1 + i \in 1 .. m /\ 1 + j \in 1 .. m
      BY <1>1
    <3>2. w[1 + i] = w[1 + j]
      BY <2>9, <2>10
    <3>3. 1 + i = 1 + j
      BY <3>1, <3>2 DEF IsList
    <3> QED BY <3>3
  <2>11. p.head = IF m - 1 = 0 THEN Null ELSE v[1]
    <3>1. m - 1 = 0 <=> m = 1
      BY <1>1
    <3>2. m # 1 => 1 \in 1 .. m - 1 /\ 1 + 1 = 2
      <4> HIDE DEF m
      <4> QED BY <1>1, <1>5
    <3> HIDE DEF m, v
    <3> QED BY <2>5, <2>7, <2>9, <3>1, <3>2
  <2>12. p.tail = IF m - 1 = 0 THEN HeadLink ELSE v[m - 1]
    <3>1. m - 1 = 0 <=> m = 1
      BY <1>1
    <3>2. m # 1 => m - 1 \in 1 .. m - 1 /\ 1 + (m - 1) = m
      <4> HIDE DEF m
      <4> QED BY <1>1, <1>5
    <3>3. m # 1 => v[m - 1] = w[m]
      <4> HIDE DEF m, v
      <4> QED BY <2>9, <3>2
    <3> HIDE DEF m, v
    <3> QED BY <2>1, <2>7, <3>1, <3>3 DEF t
  <2> HIDE DEF m, v
  <2>13. IsList(p, v)
    BY <1>2, <2>7, <2>8, <2>9, <2>10, <2>11, <2>12 DEF IsList
  <2> QED BY <2>7, <2>13 DEF v, p
<1> QED BY <1>4, <1>5

LEMMA PopFrontType == \A l \in ListType : PopFront(l) \in ListType
<1> SUFFICES ASSUME NEW l \in ListType PROVE PopFront(l) \in ListType
  OBVIOUS
<1>1. CASE l.head = Null
  BY <1>1 DEF PopFront
<1>2. CASE l.head # Null
  <2> DEFINE t == IF l.tail = l.head THEN HeadLink ELSE l.tail
             h == l.next[l.head]
             z == l.size - 1
  <2>1. PopFront(l) = [l EXCEPT !.tail = t, !.head = h, !.size = @ - 1]
    BY <1>2 DEF PopFront, ListType
  <2>2. t \in Links /\ h \in Node \cup {Null} /\ z \in Int /\ l.next \in [Node -> Node \cup {Null}]
    BY <1>2 DEF ListType, Links
  <2>3. PopFront(l) = Relinked(l, h, t, l.next, z)
    BY <2>1 DEF ListType, Relinked
  <2> HIDE DEF t, h, z
  <2>4. Relinked(l, h, t, l.next, z) \in ListType
    BY <2>2, RelinkedIs
  <2> QED BY <2>3, <2>4
<1> QED BY <1>1, <1>2

(* PopN: the fold that takes k elements off, as the lists on the way. *)
LEMMA PopNPath ==
  ASSUME NEW l \in ListType, NEW k \in Nat
  PROVE  \E f : /\ f \in [0 .. k -> ListType] /\ f[0] = l /\ PopN(l, k) = f[k]
                /\ \A i \in 1 .. k : f[i] = PopFront(f[i - 1])
<1> DEFINE h == [i \in 1 .. k |-> [x \in ListType |-> PopFront(x)]]
<1>1. h \in [1 .. k -> [ListType -> ListType]]
  BY PopFrontType
<1>2. PICK it : Iterates(it, ListType, l, h, k)
  <2> HIDE DEF h
  <2> QED BY <1>1, IterationExists
<1> DEFINE F(g) == [t \in SUBSET (1 .. k) |-> IF t = {} THEN l ELSE PopFront(g[t \ {Max(t)}])]
<1>3. it = F(it)
  <2>1. ASSUME NEW t \in SUBSET (1 .. k), t # {}
        PROVE  h[Max(t)][it[t \ {Max(t)}]] = PopFront(it[t \ {Max(t)}])
    <3>1. Max(t) \in 1 .. k
      BY <2>1, MaxIsIn
    <3>2. it[t \ {Max(t)}] \in ListType
      BY <1>2 DEF Iterates
    <3> QED BY <3>1, <3>2
  <2> HIDE DEF h
  <2> QED BY <1>2, <2>1 DEF Iterates
<1>4. PopN(l, k) = (CHOOSE g : g = F(g))[1 .. k]
  <2>1. DOMAIN [i \in 1 .. k |-> i] = 1 .. k
    OBVIOUS
  <2> QED BY <2>1 DEF PopN, FoldLeft, MapThenFoldSet
<1>5. PICK g : PopN(l, k) = g[1 .. k] /\ g = F(g)
  <2>1. (CHOOSE g : g = F(g)) = F(CHOOSE g : g = F(g))
    <3>1. \E g : g = F(g)
      BY <1>3
    <3> HIDE DEF F
    <3> QED BY <3>1
  <2> HIDE DEF F
  <2> QED BY <1>4, <2>1
<1> DEFINE f == [i \in 0 .. k |-> g[1 .. i]]
<1>6. f[0] = l
  <2>1. 1 .. 0 = {} /\ 0 \in 0 .. k /\ {} \in SUBSET (1 .. k)
    OBVIOUS
  <2>2. f[0] = g[{}]
    BY <2>1
  <2> HIDE DEF f
  <2> QED BY <1>5, <2>1, <2>2
<1>7. ASSUME NEW i \in 1 .. k PROVE f[i] = PopFront(f[i - 1])
  <2>1. Max(1 .. i) = i /\ (1 .. i) \ {i} = 1 .. i - 1 /\ 1 .. i # {}
    BY PeelInterval, i \in Nat \ {0}
  <2>2. 1 .. i \in SUBSET (1 .. k) /\ f[i] = g[1 .. i] /\ f[i - 1] = g[1 .. i - 1]
    OBVIOUS
  <2> HIDE DEF f
  <2>3. g[1 .. i] = PopFront(g[(1 .. i) \ {Max(1 .. i)}])
    BY <1>5, <2>1, <2>2
  <2> QED BY <2>1, <2>2, <2>3
<1> DEFINE N == {n \in 0 .. k : f[n] \in ListType}
<1>8. 0 .. k \subseteq N
  <2>1. 0 \in N
    BY <1>6
  <2>2. ASSUME NEW n \in 0 .. k - 1, n \in N PROVE n + 1 \in N
    <3>1. n + 1 \in 1 .. k /\ (n + 1) - 1 = n /\ f[n] \in ListType /\ n + 1 \in 0 .. k
      BY <2>2
    <3> HIDE DEF f
    <3> QED BY <1>7, <3>1, PopFrontType
  <2> HIDE DEF N
  <2> QED BY <2>1, <2>2, BoundedInduction
<1>9. f \in [0 .. k -> ListType] /\ PopN(l, k) = f[k]
  <2>1. \A n \in 0 .. k : f[n] \in ListType
    BY <1>8
  <2>2. f = [i \in 0 .. k |-> f[i]] /\ f[k] = g[1 .. k]
    OBVIOUS
  <2> HIDE DEF f
  <2> QED BY <1>5, <2>1, <2>2
<1> HIDE DEF f
<1> QED BY <1>6, <1>7, <1>9

LEMMA PopNIs ==
  ASSUME NEW l, NEW w, IsList(l, w), NEW k \in Nat
  PROVE  IsList(PopN(l, k), Drop(w, k)) /\ PopN(l, k).next = l.next
<1>1. l \in ListType /\ w \in Seq(Node)
  BY DEF IsList
<1>2. PICK f : /\ f \in [0 .. k -> ListType] /\ f[0] = l /\ PopN(l, k) = f[k]
               /\ \A i \in 1 .. k : f[i] = PopFront(f[i - 1])
  BY <1>1, PopNPath
<1> DEFINE N == {n \in 0 .. k : IsList(f[n], Drop(w, n)) /\ f[n].next = l.next}
<1>3. 0 \in N
  BY <1>1, <1>2, DropNone
<1>4. ASSUME NEW n \in 0 .. k - 1, n \in N PROVE n + 1 \in N
  <2>1. n + 1 \in 1 .. k /\ (n + 1) - 1 = n /\ n + 1 \in 0 .. k /\ n \in Nat
    OBVIOUS
  <2>2. f[n + 1] = PopFront(f[n])
    BY <1>2, <2>1
  <2>3. IsList(f[n], Drop(w, n)) /\ f[n].next = l.next
    BY <1>4
  <2>4. IsList(PopFront(f[n]), Drop(Drop(w, n), 1)) /\ PopFront(f[n]).next = f[n].next
    BY <2>3, PopFrontIs
  <2>5. Drop(Drop(w, n), 1) = Drop(w, n + 1)
    BY <1>1, <2>1, DropDrop
  <2> QED BY <2>1, <2>2, <2>3, <2>4, <2>5
<1>5. k \in N
  <2>1. 0 .. k \subseteq N
    <3> HIDE DEF N
    <3> QED BY <1>3, <1>4, BoundedInduction
  <2> QED BY <2>1
<1> QED BY <1>2, <1>5

(* Voiding the links of packets that are not in the list. *)
Voided(l, S) == [l EXCEPT !.next = [n \in Node |-> IF n \in S THEN Null ELSE @[n]]]

LEMMA VoidedIs ==
  ASSUME NEW l, NEW w, IsList(l, w), NEW S, S \cap Elements(w) = {}
  PROVE  IsList(Voided(l, S), w)
<1> DEFINE x == [n \in Node |-> IF n \in S THEN Null ELSE l.next[n]]
           p == Voided(l, S)
<1>1. l \in ListType /\ w \in Seq(Node)
  BY DEF IsList
<1>2. x \in [Node -> Node \cup {Null}] /\ l.size \in Int /\ l.tail \in Links
      /\ l.head \in Node \cup {Null}
  BY <1>1 DEF ListType
<1>3. \A i \in 1 .. Len(w) : w[i] \in Node /\ w[i] \notin S /\ x[w[i]] = l.next[w[i]]
  BY <1>1 DEF Elements
<1> HIDE DEF x
<1>4. p = Relinked(l, l.head, l.tail, x, l.size)
  BY <1>1 DEF Voided, Relinked, ListType, x
<1> HIDE DEF p
<1>5. p \in ListType /\ p.head = l.head /\ p.tail = l.tail /\ p.next = x /\ p.size = l.size
  <2> DEFINE r == Relinked(l, l.head, l.tail, x, l.size)
  <2>1. r \in ListType /\ r.head = l.head /\ r.tail = l.tail /\ r.next = x /\ r.size = l.size
    BY <1>1, <1>2, RelinkedIs
  <2> QED BY <1>4, <2>1
<1>6. IsList(p, w)
  BY <1>3, <1>5 DEF IsList
<1> QED BY <1>6 DEF p

-----------------------------------------------------------------------------
(* remove_if.                                                              *)

\* What a round of remove_if makes of the list when it unlinks n.
Unlinked(l, at, n, removed) ==
  [Store(l, at, l.next[n]) EXCEPT !.tail = IF l.next[n] = Null THEN at ELSE @,
                                  !.size = @ - 1, !.next[n] = removed]

UnlinkedNext(l, at, n, removed) ==
  IF at = HeadLink THEN [l.next EXCEPT ![n] = removed]
  ELSE [[l.next EXCEPT ![at] = l.next[n]] EXCEPT ![n] = removed]

LEMMA UnlinkedIs ==
  ASSUME NEW l \in ListType, NEW at \in Links, NEW n \in Node, NEW removed \in Node \cup {Null}
  PROVE  LET p == Unlinked(l, at, n, removed)
         IN  /\ p \in ListType
             /\ p.head = (IF at = HeadLink THEN l.next[n] ELSE l.head)
             /\ p.tail = (IF l.next[n] = Null THEN at ELSE l.tail)
             /\ p.next = UnlinkedNext(l, at, n, removed)
             /\ p.size = l.size - 1
<1> DEFINE h == IF at = HeadLink THEN l.next[n] ELSE l.head
           t == IF l.next[n] = Null THEN at ELSE l.tail
           x == UnlinkedNext(l, at, n, removed)
           z == l.size - 1
           p == Unlinked(l, at, n, removed)
<1>1. l.next[n] \in Node \cup {Null} /\ (at # HeadLink => at \in Node) /\ HeadLink \notin Node
  BY Nodes DEF ListType, Links
<1>2. h \in Node \cup {Null} /\ t \in Links /\ z \in Int
  BY <1>1 DEF ListType
<1>3. x \in [Node -> Node \cup {Null}]
  BY <1>1 DEF ListType, UnlinkedNext
<1>4. p = Relinked(l, h, t, x, z)
  <2>1. CASE at = HeadLink
    <3>1. p = [[l EXCEPT !.head = l.next[n]] EXCEPT !.tail = IF l.next[n] = Null THEN at ELSE @,
                  !.size = @ - 1, !.next[n] = removed]
      BY <2>1 DEF Unlinked, Store
    <3>2. h = l.next[n] /\ x = [l.next EXCEPT ![n] = removed]
      BY <2>1 DEF UnlinkedNext
    <3> HIDE DEF p, h, x
    <3> QED BY <3>1, <3>2 DEF Relinked, ListType
  <2>2. CASE at # HeadLink
    <3>1. p = [[l EXCEPT !.next[at] = l.next[n]] EXCEPT !.tail = IF l.next[n] = Null THEN at ELSE @,
                  !.size = @ - 1, !.next[n] = removed]
      BY <2>2 DEF Unlinked, Store
    <3>2. h = l.head /\ x = [[l.next EXCEPT ![at] = l.next[n]] EXCEPT ![n] = removed]
      BY <2>2 DEF UnlinkedNext
    <3> HIDE DEF p, h, x
    <3> QED BY <3>1, <3>2 DEF Relinked, ListType
  <2> QED BY <2>1, <2>2
<1> HIDE DEF p, h, t, x, z
<1> DEFINE r == Relinked(l, h, t, x, z)
<1>5. r \in ListType /\ r.head = h /\ r.tail = t /\ r.next = x /\ r.size = z
  <2>1. l \in ListType
    OBVIOUS
  <2> QED BY <1>2, <1>3, <2>1 DEF ListType, Relinked
<1>6. p \in ListType /\ p.head = h /\ p.tail = t /\ p.next = x /\ p.size = z
  BY <1>4, <1>5
<1> QED BY <1>6 DEF p, h, t, x, z

(* Unlinking the element at place p, with the link before it. *)
LEMMA UnlinkAt ==
  ASSUME NEW l, NEW x, IsList(l, x), NEW p \in 1 .. Len(x), NEW removed \in Node \cup {Null},
         NEW at, at = IF p = 1 THEN HeadLink ELSE x[p - 1],
         NEW y \in Seq(Node), Len(y) = Len(x) - 1,
         \A i \in 1 .. p - 1 : y[i] = x[i], \A i \in p .. Len(x) - 1 : y[i] = x[i + 1]
  PROVE  IsList(Unlinked(l, at, x[p], removed), y)
<1> DEFINE m == Len(x)
           n == x[p]
           r == Unlinked(l, at, n, removed)
           nx == UnlinkedNext(l, at, n, removed)
           e == l.next[n]
<1>1. m \in Nat /\ p \in 1 .. m /\ x \in Seq(Node) /\ l \in ListType
      /\ Null \notin Node /\ HeadLink \notin Node
  BY Nodes DEF IsList
<1>2. \A i \in 1 .. m : x[i] \in Node
  BY <1>1
<1>3. \A i, j \in 1 .. m : x[i] = x[j] => i = j
  BY DEF IsList
<1>4. n \in Node /\ at \in Links /\ (p # 1 => p - 1 \in 1 .. m /\ at = x[p - 1] /\ at \in Node)
      /\ (p = 1 => at = HeadLink) /\ (at = HeadLink <=> p = 1)
  <2>1. p # 1 => p - 1 \in 1 .. m
    <3> HIDE DEF m
    <3> QED BY <1>1
  <2>2. n \in Node
    BY <1>1, <1>2
  <2>3. p # 1 => x[p - 1] \in Node
    BY <1>2, <2>1
  <2> HIDE DEF m, n
  <2> QED BY <1>1, <2>1, <2>2, <2>3 DEF Links
<1>5. e = IF p = m THEN Null ELSE x[p + 1]
  BY <1>1 DEF IsList
<1>6. p # m => p + 1 \in 1 .. m /\ e \in Node
  <2>1. p # m => p + 1 \in 1 .. m
    <3> HIDE DEF m
    <3> QED BY <1>1
  <2> HIDE DEF m, e
  <2> QED BY <1>2, <1>5, <2>1
<1>7. /\ r \in ListType /\ r.head = (IF at = HeadLink THEN e ELSE l.head)
      /\ r.tail = (IF e = Null THEN at ELSE l.tail) /\ r.next = nx /\ r.size = l.size - 1
  <2>1. n \in Node /\ at \in Links /\ removed \in Node \cup {Null} /\ l \in ListType
    BY <1>1, <1>4
  <2> HIDE DEF n
  <2> QED BY <2>1, UnlinkedIs
<1>8. \A z \in Node : z # n => nx[z] = IF z = at THEN e ELSE l.next[z]
  <2> HIDE DEF n, m, e
  <2>1. l.next \in [Node -> Node \cup {Null}]
    BY <1>1 DEF ListType
  <2>2. CASE at = HeadLink
    <3>1. nx = [l.next EXCEPT ![n] = removed]
      BY <2>2 DEF UnlinkedNext
    <3> HIDE DEF nx
    <3> QED BY <1>1, <2>1, <2>2, <3>1
  <2>3. CASE at # HeadLink
    <3>1. nx = [[l.next EXCEPT ![at] = l.next[n]] EXCEPT ![n] = removed]
      BY <2>3 DEF UnlinkedNext
    <3> HIDE DEF nx
    <3> QED BY <1>1, <1>4, <2>1, <2>3, <3>1 DEF e
  <2> QED BY <2>2, <2>3
<1>9. Len(y) = m - 1 /\ m - 1 \in Nat
      /\ (\A i \in 1 .. p - 1 : y[i] = x[i]) /\ (\A i \in p .. m - 1 : y[i] = x[i + 1])
  BY <1>1
<1>10. l.size = m /\ (m # 0 => l.head = x[1] /\ l.tail = x[m])
       /\ \A i \in 1 .. m : l.next[x[i]] = IF i = m THEN Null ELSE x[i + 1]
  BY DEF IsList
<1> HIDE DEF m, n, r, nx, e
<1>11. ASSUME NEW i \in 1 .. m - 1
       PROVE  nx[y[i]] = IF i = m - 1 THEN Null ELSE y[i + 1]
  <2>1. CASE i < p - 1
    <3>1. /\ i \in 1 .. p - 1 /\ i + 1 \in 1 .. p - 1 /\ i \in 1 .. m /\ i # m - 1 /\ i # p /\ i # p - 1
          /\ i # m /\ p # 1
      BY <1>1, <2>1
    <3>2. y[i] = x[i] /\ y[i + 1] = x[i + 1] /\ l.next[x[i]] = x[i + 1]
      BY <1>9, <1>10, <3>1
    <3>3. x[i] # n /\ x[i] # at /\ x[i] \in Node
      BY <1>1, <1>2, <1>3, <1>4, <3>1 DEF n
    <3> QED BY <1>8, <3>1, <3>2, <3>3
  <2>2. CASE i = p - 1
    <3>1. i \in 1 .. p - 1 /\ i \in 1 .. m /\ i # p /\ p # 1 /\ (i = m - 1 <=> p = m)
      BY <1>1, <2>2
    <3>2. i # m - 1 => i + 1 \in p .. m - 1 /\ (i + 1) + 1 = p + 1
      BY <1>1, <2>2
    <3>3. y[i] = x[i] /\ (i # m - 1 => y[i + 1] = x[p + 1])
      BY <1>9, <3>1, <3>2
    <3>4. x[i] # n /\ x[i] = at /\ x[i] \in Node
      BY <1>1, <1>2, <1>3, <1>4, <2>2, <3>1 DEF n
    <3> QED BY <1>5, <1>8, <3>1, <3>3, <3>4
  <2>3. CASE i >= p
    <3> DEFINE j == i + 1
    <3>1. /\ i \in p .. m - 1 /\ j \in 1 .. m /\ j # p /\ j # p - 1 /\ (i = m - 1 <=> j = m)
          /\ (i # m - 1 => i + 1 \in p .. m - 1)
      BY <1>1, <2>3
    <3>2. y[i] = x[j] /\ (i # m - 1 => y[i + 1] = x[j + 1])
      BY <1>9, <3>1
    <3>3. l.next[x[j]] = IF j = m THEN Null ELSE x[j + 1]
      BY <1>10, <3>1
    <3> HIDE DEF j
    <3>4. x[j] # n /\ x[j] # at /\ x[j] \in Node
      <4>1. x[j] # n /\ x[j] \in Node
        BY <1>1, <1>2, <1>3, <3>1 DEF n
      <4>2. CASE p = 1
        BY <1>1, <1>4, <4>1, <4>2
      <4>3. CASE p # 1
        BY <1>3, <1>4, <3>1, <4>1, <4>3
      <4> QED BY <4>1, <4>2, <4>3
    <3> QED BY <1>8, <3>1, <3>2, <3>3, <3>4
  <2>4. i < p - 1 \/ i = p - 1 \/ i >= p
    BY <1>1
  <2> QED BY <2>1, <2>2, <2>3, <2>4
<1>12. ASSUME NEW i \in 1 .. m - 1, NEW j \in 1 .. m - 1, y[i] = y[j] PROVE i = j
  <2>1. \A a \in 1 .. m - 1 : \/ a < p /\ a \in 1 .. m /\ y[a] = x[a]
                              \/ a >= p /\ a + 1 \in 1 .. m /\ y[a] = x[a + 1]
    <3> SUFFICES ASSUME NEW a \in 1 .. m - 1
                 PROVE  \/ a < p /\ a \in 1 .. m /\ y[a] = x[a]
                        \/ a >= p /\ a + 1 \in 1 .. m /\ y[a] = x[a + 1]
      OBVIOUS
    <3>1. a < p \/ a >= p
      BY <1>1
    <3>2. a < p => a \in 1 .. p - 1 /\ a \in 1 .. m
      BY <1>1
    <3>3. a >= p => a \in p .. m - 1 /\ a + 1 \in 1 .. m
      BY <1>1
    <3> QED BY <1>9, <3>1, <3>2, <3>3
  <2>2. CASE i < p /\ j < p
    BY <1>1, <1>3, <1>12, <2>1, <2>2
  <2>3. CASE i >= p /\ j >= p
    <3>1. i + 1 = j + 1
      BY <1>1, <1>3, <1>12, <2>1, <2>3
    <3> QED BY <3>1
  <2>4. CASE i < p /\ j >= p
    <3>1. i = j + 1
      BY <1>1, <1>3, <1>12, <2>1, <2>4
    <3> QED BY <1>1, <2>4, <3>1
  <2>5. CASE i >= p /\ j < p
    <3>1. i + 1 = j
      BY <1>1, <1>3, <1>12, <2>1, <2>5
    <3> QED BY <1>1, <2>5, <3>1
  <2>6. (i < p \/ i >= p) /\ (j < p \/ j >= p)
    BY <1>1
  <2> QED BY <2>2, <2>3, <2>4, <2>5, <2>6
<1>13. r.head = IF m - 1 = 0 THEN Null ELSE y[1]
  <2>1. CASE p = 1
    <3>1. (m - 1 = 0 <=> p = m) /\ (m - 1 # 0 => 1 \in p .. m - 1)
      BY <1>1, <2>1
    <3> QED BY <1>4, <1>5, <1>7, <1>9, <2>1, <3>1
  <2>2. CASE p # 1
    <3>1. m - 1 # 0 /\ m # 0 /\ 1 \in 1 .. p - 1
      BY <1>1, <2>2
    <3> QED BY <1>4, <1>7, <1>9, <1>10, <2>2, <3>1
  <2> QED BY <2>1, <2>2
<1>14. r.tail = IF m - 1 = 0 THEN HeadLink ELSE y[m - 1]
  <2>1. CASE p = m
    <3>1. e = Null /\ (m - 1 = 0 <=> p = 1) /\ (p # 1 => m - 1 \in 1 .. p - 1)
      BY <1>1, <1>5, <2>1
    <3>2. p # 1 => y[m - 1] = x[m - 1] /\ at = x[m - 1]
      BY <1>4, <1>9, <2>1, <3>1
    <3> QED BY <1>4, <1>7, <3>1, <3>2
  <2>2. CASE p # m
    <3>1. m - 1 # 0 /\ m # 0 /\ m - 1 \in p .. m - 1 /\ (m - 1) + 1 = m
      BY <1>1, <2>2
    <3>2. e # Null
      BY <1>1, <1>6, <2>2
    <3>3. y[m - 1] = x[m]
      BY <1>9, <3>1
    <3> QED BY <1>7, <1>10, <3>1, <3>2, <3>3
  <2> QED BY <2>1, <2>2
<1>15. IsList(r, y)
  BY <1>7, <1>9, <1>10, <1>11, <1>12, <1>13, <1>14 DEF IsList
<1> QED BY <1>15 DEF r, n

\* k[i] is what S leaves of the first i elements of w.
Keeps(k, w, S) ==
  /\ k \in [0 .. Len(w) -> Seq(Node)] /\ k[0] = << >>
  /\ \A i \in 1 .. Len(w) : k[i] = IF w[i] \in S THEN k[i - 1] ELSE Append(k[i - 1], w[i])

LEMMA KeepsExists ==
  ASSUME NEW w \in Seq(Node), NEW S
  PROVE  \E k : Keeps(k, w, S)
<1> DEFINE m == Len(w)
           D == Seq(Node)
           h == [i \in 1 .. m |-> [v \in D |-> IF w[i] \in S THEN v ELSE Append(v, w[i])]]
<1>1. m \in Nat /\ << >> \in D /\ \A i \in 1 .. m : w[i] \in Node
  OBVIOUS
<1>2. h \in [1 .. m -> [D -> D]]
  <2>1. ASSUME NEW i \in 1 .. m, NEW v \in D
        PROVE  (IF w[i] \in S THEN v ELSE Append(v, w[i])) \in D
    BY <1>1, AppendProperties
  <2> HIDE DEF D, m
  <2> QED BY <2>1
<1>3. PICK f : Path(f, D, << >>, h, m)
  <2> HIDE DEF D, h, m
  <2> QED BY <1>1, <1>2, PathExists
<1>4. ASSUME NEW i \in 1 .. m
      PROVE  f[i] = IF w[i] \in S THEN f[i - 1] ELSE Append(f[i - 1], w[i])
  <2>1. f[i - 1] \in D
    <3>1. i - 1 \in 0 .. m
      BY <1>1
    <3> HIDE DEF D, h, m
    <3> QED BY <1>3, <3>1 DEF Path
  <2>2. f[i] = h[i][f[i - 1]]
    <3> HIDE DEF D, h, m
    <3> QED BY <1>3 DEF Path
  <2> HIDE DEF D, m
  <2> QED BY <2>1, <2>2
<1>5. Keeps(f, w, S)
  <2> HIDE DEF h
  <2> QED BY <1>3, <1>4 DEF Path, Keeps
<1> QED BY <1>5

RemoveStates == [l : ListType, at : Links, removed : Node \cup {Null}]

LEMMA RemoveStepType ==
  ASSUME NEW st \in RemoveStates, NEW n \in Node, NEW S
  PROVE  /\ RemoveStep(st, n, S) \in RemoveStates
         /\ RemoveStep(st, n, S).l = IF n \in S THEN Unlinked(st.l, st.at, n, st.removed) ELSE st.l
         /\ RemoveStep(st, n, S).at = IF n \in S THEN st.at ELSE n
<1>1. st.l \in ListType /\ st.at \in Links /\ st.removed \in Node \cup {Null} /\ n \in Links
  BY DEF RemoveStates, Links
<1>2. CASE n \notin S
  BY <1>1, <1>2 DEF RemoveStep, RemoveStates
<1>3. CASE n \in S
  <2> DEFINE p == Unlinked(st.l, st.at, n, st.removed)
  <2>1. p \in ListType
    BY <1>1, UnlinkedIs
  <2>2. RemoveStep(st, n, S) = [l |-> p, at |-> st.at, removed |-> n]
    BY <1>3 DEF RemoveStep, Unlinked
  <2> HIDE DEF p
  <2>3. /\ [l |-> p, at |-> st.at, removed |-> n] \in RemoveStates
        /\ [l |-> p, at |-> st.at, removed |-> n].l = p
        /\ [l |-> p, at |-> st.at, removed |-> n].at = st.at
    BY <1>1, <2>1 DEF RemoveStates
  <2> QED BY <1>3, <2>2, <2>3 DEF p
<1> QED BY <1>2, <1>3

(* remove_if: the fold over the elements, as the rounds on the way. *)
LEMMA RemovePath ==
  ASSUME NEW l, NEW w, IsList(l, w), Len(w) # 0, NEW S
  PROVE  \E f : /\ f \in [0 .. Len(w) -> RemoveStates]
                /\ f[0] = [l |-> l, at |-> HeadLink, removed |-> Null]
                /\ RemoveIf(l, S) = f[Len(w)].l
                /\ \A i \in 1 .. Len(w) : f[i] = RemoveStep(f[i - 1], w[i], S)
<1> DEFINE m == Len(w)
           b == [l |-> l, at |-> HeadLink, removed |-> Null]
           h == [i \in 1 .. m |-> [st \in RemoveStates |-> RemoveStep(st, w[i], S)]]
<1>1. m \in Nat /\ w \in Seq(Node) /\ l \in ListType /\ DOMAIN w = 1 .. m
      /\ \A i \in 1 .. m : w[i] \in Node
  BY DEF IsList
<1>2. b \in RemoveStates
  BY <1>1 DEF RemoveStates, Links
<1>3. h \in [1 .. m -> [RemoveStates -> RemoveStates]]
  BY <1>1, RemoveStepType
<1>4. PICK it : Iterates(it, RemoveStates, b, h, m)
  <2> HIDE DEF h, b, m
  <2> QED BY <1>1, <1>2, <1>3, IterationExists
<1> DEFINE F(g) == [t \in SUBSET (1 .. m) |->
                      IF t = {} THEN b ELSE RemoveStep(g[t \ {Max(t)}], w[Max(t)], S)]
<1>5. it = F(it)
  <2>1. ASSUME NEW t \in SUBSET (1 .. m), t # {}
        PROVE  h[Max(t)][it[t \ {Max(t)}]] = RemoveStep(it[t \ {Max(t)}], w[Max(t)], S)
    <3>1. Max(t) \in 1 .. m
      BY <1>1, <2>1, MaxIsIn
    <3>2. it[t \ {Max(t)}] \in RemoveStates
      BY <1>4 DEF Iterates
    <3> HIDE DEF b, m
    <3> QED BY <3>1, <3>2
  <2> HIDE DEF h, b, m
  <2> QED BY <1>4, <2>1 DEF Iterates
<1>6. RemoveIf(l, S) = ((CHOOSE g : g = F(g))[1 .. m]).l
  <2>1. l.head # Null
    <3>1. Len(w) # 0 /\ l.head = IF Len(w) = 0 THEN Null ELSE w[1]
      BY DEF IsList
    <3>2. w[1] \in Node /\ l.head = w[1]
      BY <1>1, <3>1
    <3> QED BY <3>1, <3>2, Nodes
  <2>2. Chain(l) = w
    BY ChainIs
  <2> QED BY <1>1, <2>1, <2>2 DEF RemoveIf, FoldLeft, MapThenFoldSet
<1>7. PICK g : RemoveIf(l, S) = (g[1 .. m]).l /\ g = F(g)
  <2>1. (CHOOSE g : g = F(g)) = F(CHOOSE g : g = F(g))
    <3>1. \E g : g = F(g)
      BY <1>5
    <3> HIDE DEF F
    <3> QED BY <3>1
  <2> HIDE DEF F
  <2> QED BY <1>6, <2>1
<1> DEFINE f == [i \in 0 .. m |-> g[1 .. i]]
<1>8. f[0] = b
  <2>1. 1 .. 0 = {} /\ 0 \in 0 .. m /\ {} \in SUBSET (1 .. m)
    BY <1>1
  <2>2. f[0] = g[{}]
    BY <2>1
  <2> HIDE DEF f, b, m
  <2> QED BY <1>7, <2>1, <2>2
<1>9. ASSUME NEW i \in 1 .. m PROVE f[i] = RemoveStep(f[i - 1], w[i], S)
  <2>1. Max(1 .. i) = i /\ (1 .. i) \ {i} = 1 .. i - 1 /\ 1 .. i # {}
    BY PeelInterval, i \in Nat \ {0}
  <2>2. 1 .. i \in SUBSET (1 .. m) /\ f[i] = g[1 .. i] /\ f[i - 1] = g[1 .. i - 1]
    BY <1>1
  <2> HIDE DEF f, b, m
  <2>3. g[1 .. i] = RemoveStep(g[(1 .. i) \ {Max(1 .. i)}], w[Max(1 .. i)], S)
    BY <1>7, <2>1, <2>2
  <2> QED BY <2>1, <2>2, <2>3
<1> DEFINE N == {n \in 0 .. m : f[n] \in RemoveStates}
<1>10. 0 .. m \subseteq N
  <2>1. 0 \in N
    BY <1>1, <1>2, <1>8
  <2>2. ASSUME NEW n \in 0 .. m - 1, n \in N PROVE n + 1 \in N
    <3>1. n + 1 \in 1 .. m /\ (n + 1) - 1 = n /\ f[n] \in RemoveStates /\ n + 1 \in 0 .. m
      BY <1>1, <2>2
    <3> HIDE DEF f, m
    <3> QED BY <1>1, <1>9, <3>1, RemoveStepType
  <2> HIDE DEF N, m
  <2> QED BY <1>1, <2>1, <2>2, BoundedInduction
<1>11. f \in [0 .. m -> RemoveStates] /\ RemoveIf(l, S) = f[m].l
  <2>1. \A n \in 0 .. m : f[n] \in RemoveStates
    BY <1>10
  <2>2. f = [i \in 0 .. m |-> f[i]] /\ f[m] = g[1 .. m]
    BY <1>1
  <2> HIDE DEF f, b, m
  <2> QED BY <1>7, <2>1, <2>2
<1> HIDE DEF f
<1> QED BY <1>8, <1>9, <1>11

LEMMA ConcatIs ==
  ASSUME NEW S, NEW s \in Seq(S), NEW t \in Seq(S)
  PROVE  /\ s \o t \in Seq(S) /\ Len(s \o t) = Len(s) + Len(t)
         /\ \A i \in 1 .. Len(s) : (s \o t)[i] = s[i]
         /\ \A i \in 1 .. Len(t) : (s \o t)[Len(s) + i] = t[i]
BY ConcatProperties

(* One round: the elements that were passed are v, those from n on are u. *)
LEMMA RemoveRound ==
  ASSUME NEW st \in RemoveStates, NEW v \in Seq(Node), NEW u \in Seq(Node), Len(u) # 0,
         IsList(st.l, v \o u), st.at = IF Len(v) = 0 THEN HeadLink ELSE v[Len(v)], NEW S
  PROVE  LET new == RemoveStep(st, u[1], S)
             kept == IF u[1] \in S THEN v ELSE Append(v, u[1])
         IN  /\ IsList(new.l, kept \o Drop(u, 1))
             /\ new.at = IF Len(kept) = 0 THEN HeadLink ELSE kept[Len(kept)]
<1> DEFINE a == Len(v)
           c == Len(u)
           n == u[1]
           x == v \o u
           d == Drop(u, 1)
           new == RemoveStep(st, n, S)
<1>1. a \in Nat /\ c \in Nat \ {0} /\ n \in Node
  OBVIOUS
<1>2. x \in Seq(Node) /\ Len(x) = a + c /\ (\A i \in 1 .. a : x[i] = v[i])
      /\ \A i \in 1 .. c : x[a + i] = u[i]
  OBVIOUS
<1>3. d \in Seq(Node) /\ Len(d) = c - 1 /\ \A i \in 1 .. c - 1 : d[i] = u[1 + i]
  <2>1. 1 <= c
    BY <1>1
  <2> QED BY <2>1, DropIs
<1>4. new.l = (IF n \in S THEN Unlinked(st.l, st.at, n, st.removed) ELSE st.l)
      /\ new.at = IF n \in S THEN st.at ELSE n
  <2> HIDE DEF n
  <2> QED BY <1>1, RemoveStepType
<1>5. CASE n \in S
  <2> DEFINE y == v \o d
             p == a + 1
  <2> HIDE DEF d, n
  <2>1. y \in Seq(Node) /\ Len(y) = a + (c - 1) /\ (\A i \in 1 .. a : y[i] = v[i])
        /\ \A i \in 1 .. c - 1 : y[a + i] = d[i]
    <3>1. v \in Seq(Node) /\ d \in Seq(Node) /\ Len(d) = c - 1
      BY <1>3
    <3>2. v \o d \in Seq(Node) /\ Len(v \o d) = Len(v) + Len(d)
      BY <3>1, ConcatIs
    <3>3. \A i \in 1 .. Len(v) : (v \o d)[i] = v[i]
      BY <3>1, ConcatIs
    <3>4. \A i \in 1 .. Len(d) : (v \o d)[Len(v) + i] = d[i]
      BY <3>1, ConcatIs
    <3> HIDE DEF c
    <3> QED BY <3>1, <3>2, <3>3, <3>4
  <2> HIDE DEF a, c, x, y
  <2>2. p \in 1 .. Len(x) /\ x[p] = n /\ Len(y) = Len(x) - 1 /\ p - 1 = a /\ (p = 1 <=> a = 0)
    <3>1. x[a + 1] = u[1]
      BY <1>1, <1>2
    <3> QED BY <1>1, <1>2, <2>1, <3>1 DEF n
  <2>3. \A i \in 1 .. p - 1 : y[i] = x[i]
    BY <1>2, <2>1, <2>2
  <2>4. ASSUME NEW i \in p .. Len(x) - 1 PROVE y[i] = x[i + 1]
    <3> DEFINE j == i - a
    <3>1. j \in 1 .. c - 1 /\ 1 + j \in 1 .. c /\ a + j = i /\ a + (1 + j) = i + 1
      BY <1>1, <1>2
    <3> HIDE DEF j
    <3>2. y[a + j] = u[1 + j] /\ x[a + (1 + j)] = u[1 + j]
      BY <1>2, <1>3, <2>1, <3>1
    <3> QED BY <3>1, <3>2
  <2>5. st.at = IF p = 1 THEN HeadLink ELSE x[p - 1]
    <3>1. a # 0 => a \in 1 .. a
      BY <1>1
    <3> QED BY <1>2, <2>2, <3>1 DEF a
  <2>6. st.removed \in Node \cup {Null} /\ IsList(st.l, x)
    BY DEF RemoveStates, x
  <2>7. IsList(Unlinked(st.l, st.at, x[p], st.removed), y)
    <3> DEFINE g == st.at
               o == st.removed
               l == st.l
    <3>1. /\ y \in Seq(Node) /\ Len(y) = Len(x) - 1 /\ p \in 1 .. Len(x) /\ IsList(l, x)
          /\ o \in Node \cup {Null} /\ g = (IF p = 1 THEN HeadLink ELSE x[p - 1])
          /\ (\A i \in 1 .. p - 1 : y[i] = x[i]) /\ \A i \in p .. Len(x) - 1 : y[i] = x[i + 1]
      BY <2>1, <2>2, <2>3, <2>4, <2>5, <2>6
    <3> HIDE DEF p, g, o, l
    <3>2. IsList(Unlinked(l, g, x[p], o), y)
      BY <3>1, UnlinkAt, ZenonT(30)
    <3> QED BY <3>2 DEF g, o, l
  <2>8. IsList(new.l, y)
    BY <1>4, <1>5, <2>2, <2>7
  <2> HIDE DEF new
  <2> QED BY <1>4, <1>5, <2>8 DEF y, n, d, a, new
<1>6. CASE n \notin S
  <2> DEFINE k == Append(v, n)
  <2> HIDE DEF d, n
  <2>1. k \in Seq(Node) /\ Len(k) = a + 1 /\ k[a + 1] = n /\ \A i \in 1 .. a : k[i] = v[i]
    BY <1>1, AppendProperties
  <2> HIDE DEF k
  <2>2. k \o d \in Seq(Node) /\ Len(k \o d) = (a + 1) + (c - 1)
        /\ (\A i \in 1 .. a + 1 : (k \o d)[i] = k[i])
        /\ \A i \in 1 .. c - 1 : (k \o d)[(a + 1) + i] = d[i]
    <3>1. d \in Seq(Node) /\ Len(d) = c - 1
      BY <1>3
    <3>5. k \in Seq(Node) /\ d \in Seq(Node)
      BY <2>1, <3>1
    <3>2. k \o d \in Seq(Node) /\ Len(k \o d) = Len(k) + Len(d)
      BY <3>5, ConcatIs
    <3>3. \A i \in 1 .. Len(k) : (k \o d)[i] = k[i]
      BY <3>5, ConcatIs
    <3>4. \A i \in 1 .. Len(d) : (k \o d)[Len(k) + i] = d[i]
      BY <3>5, ConcatIs
    <3> HIDE DEF a, c
    <3> QED BY <2>1, <3>1, <3>2, <3>3, <3>4
  <2> HIDE DEF a, c, x
  <2>3. ASSUME NEW i \in 1 .. a + c PROVE x[i] = (k \o d)[i]
    <3>1. CASE i <= a
      <4>1. i \in 1 .. a /\ i \in 1 .. a + 1
        BY <1>1, <3>1
      <4> QED BY <1>2, <2>1, <2>2, <4>1
    <3>2. CASE i = a + 1
      <4>1. 1 \in 1 .. c /\ i \in 1 .. a + 1
        BY <1>1, <3>2
      <4> QED BY <1>2, <2>1, <2>2, <3>2, <4>1 DEF n
    <3>3. CASE i > a + 1
      <4> DEFINE j == i - (a + 1)
      <4>1. j \in 1 .. c - 1 /\ 1 + j \in 1 .. c /\ (a + 1) + j = i /\ a + (1 + j) = i
        BY <1>1, <3>3
      <4> HIDE DEF j
      <4>2. (k \o d)[(a + 1) + j] = u[1 + j] /\ x[a + (1 + j)] = u[1 + j]
        BY <1>2, <1>3, <2>2, <4>1
      <4> QED BY <4>1, <4>2
    <3>4. i <= a \/ i = a + 1 \/ i > a + 1
      BY <1>1
    <3> QED BY <3>1, <3>2, <3>3, <3>4
  <2>4. Len(k \o d) = a + c
    BY <1>1, <2>2
  <2>5. x = k \o d
    BY <1>2, <2>2, <2>3, <2>4, SeqEqual
  <2>6. Len(k) # 0 /\ k[Len(k)] = n
    BY <1>1, <2>1
  <2>7. IsList(new.l, k \o d) /\ new.at = n
    BY <1>4, <1>6, <2>5 DEF x
  <2> HIDE DEF new
  <2> QED BY <1>6, <2>6, <2>7 DEF k, n, d, new
<1> QED BY <1>5, <1>6

(* remove_if takes the elements of S out and keeps the others in their order. *)
LEMMA RemoveIfIs ==
  ASSUME NEW l, NEW w, IsList(l, w), NEW S, NEW k, Keeps(k, w, S)
  PROVE  IsList(RemoveIf(l, S), k[Len(w)])
<1> DEFINE m == Len(w)
<1>1. m \in Nat /\ w \in Seq(Node)
  BY DEF IsList
<1>2. /\ k \in [0 .. m -> Seq(Node)] /\ k[0] = << >>
      /\ \A i \in 1 .. m : k[i] = IF w[i] \in S THEN k[i - 1] ELSE Append(k[i - 1], w[i])
  BY DEF Keeps
<1>3. CASE m = 0
  <2>1. l.head = Null /\ w = << >>
    BY <1>1, <1>3, EmptySeq DEF IsList
  <2>2. RemoveIf(l, S) = l
    BY <2>1 DEF RemoveIf
  <2> QED BY <1>2, <1>3, <2>1, <2>2
<1>4. CASE m # 0
  <2>1. PICK f : /\ f \in [0 .. m -> RemoveStates]
                 /\ f[0] = [l |-> l, at |-> HeadLink, removed |-> Null]
                 /\ RemoveIf(l, S) = f[m].l
                 /\ \A i \in 1 .. m : f[i] = RemoveStep(f[i - 1], w[i], S)
    BY <1>4, RemovePath
  <2> DEFINE last(v) == IF Len(v) = 0 THEN HeadLink ELSE v[Len(v)]
             N == {n \in 0 .. m : f[n].at = last(k[n]) /\ IsList(f[n].l, k[n] \o Drop(w, n))}
  <2>2. 0 \in N
    <3>1. k[0] \o Drop(w, 0) = w
      BY <1>1, <1>2, DropNone, ConcatEmptySeq
    <3>2. f[0].l = l /\ f[0].at = HeadLink /\ Len(k[0]) = 0
      BY <1>2, <2>1
    <3>3. 0 \in 0 .. m
      BY <1>1
    <3> HIDE DEF m
    <3> QED BY <3>1, <3>2, <3>3
  <2>3. ASSUME NEW n \in 0 .. m - 1, n \in N PROVE n + 1 \in N
    <3> DEFINE st == f[n]
               v == k[n]
               u == Drop(w, n)
               e == w[n + 1]
               kept == IF e \in S THEN v ELSE Append(v, e)
    <3>1. /\ n + 1 \in 1 .. m /\ (n + 1) - 1 = n /\ n \in 0 .. m /\ n + 1 \in 0 .. m /\ n \in Nat
          /\ n <= m /\ 1 \in 1 .. m - n /\ m - n # 0
      BY <1>1, <2>3
    <3>2. st \in RemoveStates /\ v \in Seq(Node)
      <4> HIDE DEF m
      <4> QED BY <1>2, <2>1, <3>1
    <3>3. u \in Seq(Node) /\ Len(u) = m - n /\ u[1] = e
      BY <1>1, <3>1, DropIs
    <3>4. Drop(u, 1) = Drop(w, n + 1)
      BY <1>1, <3>1, DropDrop
    <3>5. f[n + 1] = RemoveStep(st, e, S) /\ k[n + 1] = kept
      <4> HIDE DEF m
      <4> QED BY <1>2, <2>1, <3>1
    <3>6. IsList(st.l, v \o u) /\ st.at = IF Len(v) = 0 THEN HeadLink ELSE v[Len(v)]
      BY <2>3
    <3>7. Len(u) # 0
      BY <3>1, <3>3
    <3> HIDE DEF st, v, u, m, N
    <3>8. /\ IsList(RemoveStep(st, u[1], S).l, (IF u[1] \in S THEN v ELSE Append(v, u[1])) \o Drop(u, 1))
          /\ RemoveStep(st, u[1], S).at = last(IF u[1] \in S THEN v ELSE Append(v, u[1]))
      BY <3>2, <3>3, <3>6, <3>7, RemoveRound
    <3> HIDE DEF e, last
    <3>9. IsList(f[n + 1].l, k[n + 1] \o Drop(w, n + 1)) /\ f[n + 1].at = last(k[n + 1])
      BY <3>3, <3>4, <3>5, <3>8
    <3> QED BY <3>1, <3>9 DEF N
  <2>4. m \in N
    <3>1. 0 .. m \subseteq N
      <4> HIDE DEF N, m
      <4> QED BY <1>1, <2>2, <2>3, BoundedInduction
    <3> QED BY <1>1, <3>1
  <2>5. k[m] \in Seq(Node) /\ Drop(w, m) = << >>
    <3>1. m \in 0 .. m
      BY <1>1
    <3>2. k[m] \in Seq(Node)
      <4> HIDE DEF m
      <4> QED BY <1>2, <3>1
    <3>3. Drop(w, m) \in Seq(Node) /\ Len(Drop(w, m)) = 0
      BY <1>1, DropIs
    <3> HIDE DEF m
    <3> QED BY <3>2, <3>3, EmptySeq
  <2>6. k[m] \o Drop(w, m) = k[m]
    <3> DEFINE v == k[m]
    <3>1. v \in Seq(Node)
      BY <2>5
    <3> HIDE DEF v, m
    <3>2. v \o << >> = v
      BY <3>1, ConcatEmptySeq
    <3> QED BY <2>5, <3>2 DEF v
  <2>7. IsList(f[m].l, k[m] \o Drop(w, m))
    BY <2>4
  <2> HIDE DEF m
  <2> QED BY <2>1, <2>6, <2>7 DEF m
<1> QED BY <1>3, <1>4

LEMMA KeepsElements ==
  ASSUME NEW w \in Seq(Node), NEW S, NEW k, Keeps(k, w, S)
  PROVE  /\ \A i \in 0 .. Len(w) : k[i] \in Seq(Node) /\ Elements(k[i]) = {w[j] : j \in 1 .. i} \ S
         /\ k[Len(w)] \in Seq(Node) /\ Elements(k[Len(w)]) = Elements(w) \ S
<1> DEFINE m == Len(w)
           N == {n \in 0 .. m : Elements(k[n]) = {w[j] : j \in 1 .. n} \ S}
<1>1. m \in Nat
  OBVIOUS
<1>2. /\ k \in [0 .. m -> Seq(Node)] /\ k[0] = << >>
      /\ \A i \in 1 .. m : k[i] = IF w[i] \in S THEN k[i - 1] ELSE Append(k[i - 1], w[i])
  BY DEF Keeps
<1> HIDE DEF m
<1>3. 0 \in N
  <2>1. Elements(k[0]) = {} /\ {w[j] : j \in 1 .. 0} = {} /\ 0 \in 0 .. m
    BY <1>1, <1>2 DEF Elements
  <2> QED BY <2>1
<1>4. ASSUME NEW n \in 0 .. m - 1, n \in N PROVE n + 1 \in N
  <2> DEFINE v == k[n]
             e == w[n + 1]
             P == {w[j] : j \in 1 .. n}
  <2>1. n + 1 \in 1 .. m /\ (n + 1) - 1 = n /\ n \in 0 .. m /\ n + 1 \in 0 .. m /\ n \in Nat
    BY <1>1, <1>4
  <2>2. v \in Seq(Node) /\ k[n + 1] = IF e \in S THEN v ELSE Append(v, e)
    BY <1>2, <2>1
  <2>3. {w[j] : j \in 1 .. n + 1} = P \cup {e}
    <3>1. 1 .. n + 1 = (1 .. n) \cup {n + 1}
      BY <2>1
    <3> QED BY <3>1
  <2>4. Elements(v) = P \ S
    BY <1>4
  <2> HIDE DEF v, e, P
  <2>5. Elements(Append(v, e)) = Elements(v) \cup {e}
    <3>1. Len(v) \in Nat /\ Len(Append(v, e)) = Len(v) + 1 /\ Append(v, e)[Len(v) + 1] = e
          /\ \A i \in 1 .. Len(v) : Append(v, e)[i] = v[i]
      BY <2>2
    <3>2. 1 .. Len(v) + 1 = (1 .. Len(v)) \cup {Len(v) + 1}
      BY <3>1
    <3> QED BY <3>1, <3>2 DEF Elements
  <2>6. Elements(k[n + 1]) = (P \cup {e}) \ S
    BY <2>2, <2>4, <2>5
  <2> QED BY <2>1, <2>3, <2>6
<1>5. 0 .. m \subseteq N
  <2> HIDE DEF N
  <2> QED BY <1>1, <1>3, <1>4, BoundedInduction
<1>6. \A i \in 0 .. m : k[i] \in Seq(Node) /\ Elements(k[i]) = {w[j] : j \in 1 .. i} \ S
  BY <1>2, <1>5
<1>7. m \in 0 .. m
  BY <1>1
<1>8. Elements(w) = {w[j] : j \in 1 .. m}
  BY DEF Elements, m
<1> QED BY <1>6, <1>7, <1>8 DEF m

-----------------------------------------------------------------------------
(* Taking events out.                                                      *)

(* What follows and is coalesced are polls of the client. *)
LEMMA FollowingIs ==
  ASSUME NEW l, NEW w, IsList(l, w), NEW c
  PROVE  /\ Following(l, c) \in 0 .. Len(w)
         /\ \A i \in 1 .. Following(l, c) : pkt[w[i]].kind = "POLL"
<1> DEFINE m == Len(w)
           stops == {i \in 1 .. m : w[i] \notin Polls(l, c)}
           least == CHOOSE i \in stops : \A j \in stops : i <= j
<1>1. m \in Nat /\ w \in Seq(Node) /\ Chain(l) = w
  BY ChainIs DEF IsList
<1>2. Following(l, c) = IF stops = {} THEN m ELSE least - 1
  BY <1>1 DEF Following
<1>3. ASSUME NEW i \in 1 .. m, i \notin stops PROVE pkt[w[i]].kind = "POLL"
  <2>1. w[i] \in Polls(l, c)
    BY <1>3
  <2> QED BY <2>1 DEF Polls
<1>4. CASE stops = {}
  BY <1>1, <1>2, <1>3, <1>4
<1>5. CASE stops # {}
  <2>1. least \in stops /\ \A j \in stops : least <= j
    <3>1. stops \in SUBSET Nat
      OBVIOUS
    <3> HIDE DEF stops
    <3>2. \E i \in stops : \A j \in stops : i <= j
      BY <1>5, <3>1, LeastExists
    <3> QED BY <3>2
  <2> HIDE DEF least
  <2>2. least \in 1 .. m
    BY <2>1
  <2>3. ASSUME NEW i \in 1 .. least - 1 PROVE i \in 1 .. m /\ i \notin stops
    <3>1. i \in 1 .. m /\ ~(least <= i)
      BY <1>1, <2>2
    <3> QED BY <2>1, <3>1
  <2>4. least - 1 \in 0 .. m
    BY <1>1, <2>2
  <2> HIDE DEF stops
  <2> QED BY <1>2, <1>3, <1>5, <2>3, <2>4
<1> QED BY <1>4, <1>5

(* What a taker holds of w: it took the first d, of which it keeps the one at *)
(* p, or none when p is 0; the others are polls, which are freed.          *)
Takes(r, w, d, p) ==
  /\ r \in [n : Node \cup {Null}, l : ListType, freed : SUBSET Node]
  /\ d \in 0 .. Len(w) /\ p \in 0 .. d /\ (p = 0 => d = Len(w))
  /\ IsList(r.l, Drop(w, d))
  /\ r.n = IF p = 0 THEN Null ELSE w[p]
  /\ r.freed = {w[i] : i \in (1 .. d) \ {p}}
  /\ \A i \in (1 .. d) \ {p} : pkt[w[i]].kind = "POLL"

LEMMA RestRange ==
  ASSUME NEW S, NEW w \in Seq(S), NEW d \in 1 .. Len(w)
  PROVE  Range(SubSeq(w, 2, d)) = {w[i] : i \in (1 .. d) \ {1}}
<1> DEFINE u == SubSeq(w, 2, d)
<1>1. Len(w) \in Nat /\ d \in Nat /\ \A i \in 2 .. d : w[i] \in S
  OBVIOUS
<1>2. u \in Seq(S) /\ Len(u) = (IF 2 <= d THEN d - 2 + 1 ELSE 0)
      /\ \A i \in 1 .. d - 2 + 1 : u[i] = w[2 + i - 1]
  BY <1>1, SubSeqProperties
<1> HIDE DEF u
<1>3. DOMAIN u = 1 .. d - 1 /\ \A i \in 1 .. d - 1 : u[i] = w[i + 1]
  <2>1. Len(u) = d - 1 /\ d - 2 + 1 = d - 1 /\ \A i \in 1 .. d - 1 : 2 + i - 1 = i + 1
    BY <1>1, <1>2
  <2> QED BY <1>2, <2>1
<1>4. Range(u) = {w[i + 1] : i \in 1 .. d - 1}
  BY <1>3 DEF Range
<1>5. (\A i \in 1 .. d - 1 : i + 1 \in (1 .. d) \ {1})
      /\ \A i \in (1 .. d) \ {1} : i - 1 \in 1 .. d - 1 /\ (i - 1) + 1 = i
  BY <1>1
<1> QED BY <1>4, <1>5 DEF u

LEMMA RoundIs ==
  ASSUME NEW l, NEW w, IsList(l, w)
  PROVE  \E d \in 0 .. Len(w) : Takes(Round(l), w, d, IF Len(w) = 0 THEN 0 ELSE 1)
<1> DEFINE m == Len(w)
           n == l.head
           k == IF n # Null /\ pkt[n].kind = "POLL" THEN Following(PopFront(l), pkt[n].client) ELSE 0
           t == PopN(l, k + 1)
           gone == Range(SubSeq(w, 2, k + 1))
           r == Round(l)
<1>1. m \in Nat /\ w \in Seq(Node) /\ l \in ListType /\ Chain(l) = w /\ Null \notin Node
      /\ n = IF m = 0 THEN Null ELSE w[1]
  BY ChainIs, Nodes DEF IsList
<1>2. r = [n |-> n, l |-> t, freed |-> gone]
  BY <1>1 DEF Round
<1>3. m # 0 => w[1] \in Node
  BY <1>1
<1>4. IsList(PopFront(l), Drop(w, 1)) /\ Drop(w, 1) \in Seq(Node)
      /\ Len(Drop(w, 1)) = (IF 1 <= m THEN m - 1 ELSE 0) /\ \A i \in 1 .. m - 1 : Drop(w, 1)[i] = w[1 + i]
  BY <1>1, PopFrontIs, DropIs
<1> HIDE DEF m, n, t, gone, r
<1>5. CASE m = 0
  <2>1. n = Null /\ k = 0 /\ k + 1 = 1
    BY <1>1, <1>5
  <2> HIDE DEF k
  <2>2. IsList(t, Drop(w, 1))
    <3>1. 1 \in Nat
      OBVIOUS
    <3>2. IsList(PopN(l, 1), Drop(w, 1))
      BY <3>1, PopNIs
    <3> QED BY <2>1, <3>2 DEF t
  <2>3. w = << >> /\ Drop(w, 1) = << >> /\ Drop(w, 0) = w
    BY <1>1, <1>4, <1>5, EmptySeq, DropNone DEF m
  <2>4. gone = {}
    <3>1. SubSeq(w, 2, 1) = << >>
      BY <2>3
    <3> QED BY <2>1, <3>1 DEF gone, Range
  <2>5. t \in ListType
    BY <2>2 DEF IsList
  <2>6. r \in [n : Node \cup {Null}, l : ListType, freed : SUBSET Node] /\ r.n = Null /\ r.l = t /\ r.freed = {}
    BY <1>2, <2>1, <2>4, <2>5
  <2>7. 0 \in 0 .. m /\ 0 \in 0 .. 0 /\ (1 .. 0) \ {0} = {}
    BY <1>1
  <2>8. Takes(r, w, 0, 0)
    <3>1. IsList(r.l, Drop(w, 0))
      BY <2>2, <2>3, <2>6
    <3>2. {w[i] : i \in (1 .. 0) \ {0}} = {}
      BY <2>7
    <3> QED BY <1>5, <2>6, <2>7, <3>1, <3>2 DEF Takes, m
  <2> QED BY <1>5, <2>7, <2>8 DEF m, r
<1>6. CASE m # 0
  <2>1. n = w[1] /\ n \in Node /\ n # Null /\ 1 <= m
    BY <1>1, <1>3, <1>6
  <2>2. k \in 0 .. m - 1 /\ \A i \in 1 .. k : pkt[w[1 + i]].kind = "POLL"
    <3>1. CASE pkt[n].kind = "POLL"
      <4> DEFINE c == pkt[n].client
                 v == Drop(w, 1)
                 g == PopFront(l)
      <4>1. k = Following(g, c)
        BY <2>1, <3>1
      <4>2. IsList(g, v) /\ Len(v) = m - 1 /\ \A i \in 1 .. m - 1 : v[i] = w[1 + i]
        BY <1>4, <2>1
      <4> HIDE DEF k, c, v, g
      <4>3. Following(g, c) \in 0 .. Len(v) /\ \A i \in 1 .. Following(g, c) : pkt[v[i]].kind = "POLL"
        BY <4>2, FollowingIs
      <4>4. k \in 0 .. m - 1
        BY <4>1, <4>2, <4>3
      <4>5. ASSUME NEW i \in 1 .. k PROVE pkt[w[1 + i]].kind = "POLL"
        <5>1. i \in 1 .. m - 1
          BY <1>1, <4>4
        <5>2. v[i] = w[1 + i]
          BY <4>2, <5>1
        <5> QED BY <4>1, <4>3, <5>2
      <4> QED BY <4>4, <4>5
    <3>2. CASE pkt[n].kind # "POLL"
      <4>1. k = 0
        BY <3>2
      <4> HIDE DEF k
      <4> QED BY <1>1, <2>1, <4>1
    <3> QED BY <3>1, <3>2
  <2> DEFINE d == k + 1
  <2> HIDE DEF k
  <2>3. d \in 1 .. m /\ d \in Nat /\ d \in 0 .. m /\ 1 \in 0 .. d
    BY <1>1, <2>2
  <2>4. IsList(t, Drop(w, d))
    <3> HIDE DEF d
    <3>1. IsList(PopN(l, d), Drop(w, d))
      BY <2>3, PopNIs
    <3> QED BY <3>1 DEF t, d
  <2>5. gone = {w[i] : i \in (1 .. d) \ {1}}
    <3> HIDE DEF d
    <3>1. Range(SubSeq(w, 2, d)) = {w[i] : i \in (1 .. d) \ {1}}
      BY <1>1, <2>3, RestRange DEF m
    <3> QED BY <3>1 DEF gone, d
  <2>6. ASSUME NEW i \in (1 .. d) \ {1} PROVE pkt[w[i]].kind = "POLL" /\ w[i] \in Node
    <3>1. i - 1 \in 1 .. k /\ 1 + (i - 1) = i /\ i \in 1 .. m
      BY <1>1, <2>2, <2>6
    <3>2. w[i] \in Node
      BY <1>1, <3>1 DEF m
    <3>3. pkt[w[1 + (i - 1)]].kind = "POLL"
      BY <2>2, <3>1
    <3> QED BY <3>1, <3>2, <3>3
  <2>7. t \in ListType /\ gone \in SUBSET Node
    BY <2>4, <2>5, <2>6 DEF IsList
  <2>8. r \in [n : Node \cup {Null}, l : ListType, freed : SUBSET Node] /\ r.n = w[1] /\ r.l = t
        /\ r.freed = gone
    BY <1>2, <2>1, <2>7
  <2> HIDE DEF d
  <2>9. Takes(r, w, d, 1)
    BY <2>3, <2>4, <2>5, <2>6, <2>8 DEF Takes, m
  <2> QED BY <1>6, <2>3, <2>9 DEF m, r
<1> QED BY <1>5, <1>6

\* A poll that was dropped is freed, and the next round follows.
More(r) == LET t == Round(r.l) IN [t EXCEPT !.freed = @ \cup r.freed \cup {r.n}]

LEMMA MoreIs ==
  ASSUME NEW w \in Seq(Node), NEW r, NEW d, NEW p, Takes(r, w, d, p), Discards(r)
  PROVE  \E e, s : Takes(More(r), w, e, s)
<1> DEFINE m == Len(w)
           u == Drop(w, d)
           t == Round(r.l)
           a == Len(u)
           s == IF a = 0 THEN 0 ELSE 1
           q == IF a = 0 THEN 0 ELSE d + 1
           x == More(r)
<1>1. /\ m \in Nat /\ d \in 0 .. m /\ p \in 0 .. d /\ d \in Nat /\ IsList(r.l, u)
      /\ r \in [n : Node \cup {Null}, l : ListType, freed : SUBSET Node]
      /\ r.n = (IF p = 0 THEN Null ELSE w[p])
      /\ r.freed = {w[i] : i \in (1 .. d) \ {p}}
      /\ \A i \in (1 .. d) \ {p} : pkt[w[i]].kind = "POLL"
  BY DEF Takes
<1>2. r.n # Null /\ pkt[r.n].kind = "POLL"
  BY DEF Discards
<1>3. p # 0 /\ r.n = w[p] /\ p \in 1 .. d
  BY <1>1, <1>2
<1>4. u \in Seq(Node) /\ a = m - d /\ \A i \in 1 .. m - d : u[i] = w[d + i]
  <2>1. d <= m
    BY <1>1
  <2> QED BY <1>1, <2>1, DropIs
<1>5. PICK e \in 0 .. a : Takes(t, u, e, s)
  <2> HIDE DEF u
  <2> QED BY <1>1, RoundIs
<1> HIDE DEF m, u, t, a, x
<1>6. /\ t \in [n : Node \cup {Null}, l : ListType, freed : SUBSET Node]
      /\ e \in 0 .. a /\ s \in 0 .. e /\ (s = 0 => e = a) /\ IsList(t.l, Drop(u, e))
      /\ t.n = (IF s = 0 THEN Null ELSE u[s])
      /\ t.freed = {u[i] : i \in (1 .. e) \ {s}}
      /\ \A i \in (1 .. e) \ {s} : pkt[u[i]].kind = "POLL"
  BY <1>5 DEF Takes, a
<1>7. /\ d + e \in 0 .. m /\ q \in 0 .. d + e /\ (q = 0 => d + e = m) /\ e \in Nat
      /\ (q = 0 <=> s = 0) /\ (s # 0 => 1 \in 1 .. m - d /\ s = 1 /\ q = d + 1)
  <2>1. CASE a = 0
    BY <1>1, <1>4, <1>6, <2>1
  <2>2. CASE a # 0
    BY <1>1, <1>4, <1>6, <2>2
  <2> QED BY <2>1, <2>2
<1>8. /\ x.freed = t.freed \cup r.freed \cup {r.n} /\ x.n = t.n /\ x.l = t.l
      /\ x \in [n : Node \cup {Null}, l : ListType, freed : SUBSET Node]
  BY <1>1, <1>2, <1>6 DEF More, x, t
<1>9. IsList(x.l, Drop(w, d + e))
  <2>1. Drop(u, e) = Drop(w, d + e)
    BY <1>1, <1>7, DropDrop DEF u
  <2> QED BY <1>6, <1>8, <2>1
<1>10. x.n = IF q = 0 THEN Null ELSE w[q]
  BY <1>4, <1>6, <1>7, <1>8
<1>11. ASSUME NEW i \in (1 .. d + e) \ {q}
       PROVE  \/ i \in (1 .. d) \ {p} \/ i = p
              \/ i - d \in (1 .. e) \ {s} /\ d + (i - d) = i /\ i - d \in 1 .. m - d
  BY <1>1, <1>3, <1>4, <1>6, <1>7
<1>12. ASSUME NEW i \in (1 .. d) PROVE i \in (1 .. d + e) \ {q}
  <2>1. i \in 1 .. d + e
    BY <1>1, <1>7
  <2>2. i # q
    BY <1>1, <1>4
  <2> QED BY <2>1, <2>2
<1>13. ASSUME NEW i \in (1 .. e) \ {s}
       PROVE  d + i \in (1 .. d + e) \ {q} /\ u[i] = w[d + i]
  <2>1. i \in 1 .. m - d
    BY <1>1, <1>4, <1>6
  <2>2. d + i \in 1 .. d + e
    BY <1>1, <1>7
  <2>3. d + i # q
    BY <1>1, <1>4, <1>6, <1>13
  <2> QED BY <1>4, <2>1, <2>2, <2>3
<1> HIDE DEF q, s
<1>14. x.freed = {w[i] : i \in (1 .. d + e) \ {q}}
  <2>1. ASSUME NEW i \in (1 .. d + e) \ {q} PROVE w[i] \in x.freed
    <3>1. CASE i \in (1 .. d) \ {p}
      BY <1>1, <1>8, <3>1
    <3>2. CASE i = p
      BY <1>3, <1>8, <3>2
    <3>3. CASE i - d \in (1 .. e) \ {s} /\ d + (i - d) = i /\ i - d \in 1 .. m - d
      <4>1. u[i - d] = w[i] /\ u[i - d] \in t.freed
        BY <1>4, <1>6, <3>3
      <4> QED BY <1>8, <4>1
    <3> QED BY <1>11, <3>1, <3>2, <3>3
  <2>2. ASSUME NEW y \in x.freed PROVE y \in {w[i] : i \in (1 .. d + e) \ {q}}
    <3>1. CASE y \in t.freed
      BY <1>6, <1>13, <3>1
    <3>2. CASE y \in r.freed
      BY <1>1, <1>12, <3>2
    <3>3. CASE y = r.n
      BY <1>3, <1>12, <3>3
    <3> QED BY <1>8, <3>1, <3>2, <3>3
  <2> QED BY <2>1, <2>2
<1>15. ASSUME NEW i \in (1 .. d + e) \ {q} PROVE pkt[w[i]].kind = "POLL"
  <2>1. CASE i - d \in (1 .. e) \ {s} /\ d + (i - d) = i /\ i - d \in 1 .. m - d
    <3>1. u[i - d] = w[i]
      BY <1>4, <2>1
    <3> QED BY <1>6, <2>1, <3>1
  <2> QED BY <1>1, <1>2, <1>3, <1>11, <2>1
<1>16. Takes(x, w, d + e, q)
  BY <1>7, <1>8, <1>9, <1>10, <1>14, <1>15 DEF Takes, m
<1> QED BY <1>16 DEF x

(* Whatever the rounds drop, the event taken is one of the first, and those  *)
(* that went with it are polls.                                            *)
LEMMA GetsIs ==
  ASSUME NEW w, IsList(list, w), NEW r \in Gets
  PROVE  \E d, p : Takes(r, w, d, p)
<1> DEFINE Records == [n : Node \cup {Null}, l : ListType, freed : SUBSET Node]
           T == {x \in Records : \E d, p : Takes(x, w, d, p)}
           D == SUBSET T
           N == Cardinality(Node)
           more(x) == LET t == Round(x.l) IN [t EXCEPT !.freed = @ \cup x.freed \cup {x.n}]
           b == {Round(list)}
           h == [k \in 1 .. N |-> [X \in D |-> {more(x) : x \in {y \in X : Discards(y)}}]]
<1>1. N \in Nat /\ w \in Seq(Node)
  BY Nodes DEF IsList
<1>2. b \in D
  <2> DEFINE x == Round(list)
  <2>1. \E d, p : Takes(x, w, d, p)
    BY RoundIs
  <2> HIDE DEF x
  <2>2. x \in Records
    BY <2>1 DEF Takes
  <2> QED BY <2>1, <2>2 DEF x
<1>3. ASSUME NEW x \in T, Discards(x) PROVE more(x) \in T
  <2>1. PICK d, p : Takes(x, w, d, p)
    OBVIOUS
  <2>2. \E e, s : Takes(More(x), w, e, s)
    BY <1>1, <1>3, <2>1, MoreIs
  <2>3. more(x) = More(x)
    BY DEF More
  <2> HIDE DEF more
  <2>4. more(x) \in Records
    BY <2>2, <2>3 DEF Takes
  <2> QED BY <2>2, <2>3, <2>4
<1>4. h \in [1 .. N -> [D -> D]]
  <2> HIDE DEF more, T
  <2>1. ASSUME NEW X \in D PROVE {more(x) : x \in {y \in X : Discards(y)}} \in D
    BY <1>3
  <2> HIDE DEF D, N
  <2> QED BY <2>1
<1>5. PICK f : Path(f, D, b, h, N)
  <2> HIDE DEF D, b, h, N
  <2> QED BY <1>1, <1>2, <1>4, PathExists
<1> DEFINE F(g) == [k \in 0 .. N |->
                      IF k = 0 THEN {Round(list)} ELSE {more(x) : x \in {y \in g[k - 1] : Discards(y)}}]
<1> HIDE DEF more, T
<1>6. f = F(f)
  <2>1. ASSUME NEW k \in 0 .. N
        PROVE  f[k] = IF k = 0 THEN {Round(list)}
                      ELSE {more(x) : x \in {y \in f[k - 1] : Discards(y)}}
    <3>1. CASE k = 0
      BY <1>5, <3>1 DEF Path
    <3>2. CASE k # 0
      <4>1. k \in 1 .. N /\ f[k - 1] \in D
        <5> HIDE DEF N, D, b, h
        <5>1. k \in 1 .. N /\ k - 1 \in 0 .. N
          BY <1>1, <3>2
        <5> QED BY <1>5, <5>1 DEF Path
      <4>2. h[k][f[k - 1]] = {more(x) : x \in {y \in f[k - 1] : Discards(y)}}
        <5> HIDE DEF D, N
        <5> QED BY <4>1
      <4> HIDE DEF h, D, N
      <4>3. f[k] = h[k][f[k - 1]]
        BY <1>5, <4>1 DEF Path
      <4> QED BY <3>2, <4>2, <4>3
    <3> QED BY <3>1, <3>2
  <2>2. f = [k \in 0 .. N |-> f[k]]
    <3> HIDE DEF D, N, h, b
    <3> QED BY <1>5 DEF Path
  <2> HIDE DEF D, N, h, b
  <2> QED BY <2>1, <2>2
<1>7. PICK g : g = F(g) /\ \E k \in 0 .. N : r \in g[k]
  <2>1. (CHOOSE g : g = F(g)) = F(CHOOSE g : g = F(g))
    <3>1. \E g : g = F(g)
      BY <1>6
    <3> HIDE DEF F
    <3> QED BY <3>1
  <2>2. \E k \in 0 .. N : r \in (CHOOSE g : g = F(g))[k]
    BY DEF Gets, more
  <2> HIDE DEF F
  <2> QED BY <2>1, <2>2
<1> DEFINE M == {k \in 0 .. N : g[k] \in D}
<1> HIDE DEF N
<1>8. 0 \in M
  <2>1. 0 \in 0 .. N
    BY <1>1
  <2>2. g[0] = b
    BY <1>7, <2>1
  <2> HIDE DEF D, b
  <2> QED BY <1>2, <2>1, <2>2
<1>9. ASSUME NEW k \in 0 .. N - 1, k \in M PROVE k + 1 \in M
  <2>1. k + 1 \in 0 .. N /\ k + 1 # 0 /\ (k + 1) - 1 = k
    BY <1>1
  <2>2. g[k + 1] = {more(x) : x \in {y \in g[k] : Discards(y)}}
    BY <1>7, <2>1
  <2>3. \A x \in g[k] : x \in T
    BY <1>9
  <2>4. g[k + 1] \in D
    <3> HIDE DEF F
    <3> QED BY <1>3, <2>2, <2>3
  <2> QED BY <2>1, <2>4
<1>10. r \in T
  <2>1. 0 .. N \subseteq M
    <3> HIDE DEF M, F
    <3> QED BY <1>1, <1>8, <1>9, BoundedInduction
  <2> QED BY <1>7, <2>1
<1> QED BY <1>10 DEF T

-----------------------------------------------------------------------------
(* The order of the events.                                                *)

Events == [kind : {"ACCEPT", "DATA", "POLL"}, client : Client]
Accept(c) == [kind |-> "ACCEPT", client |-> c]

\* c was announced, or it will be by one of the first i events of q.
Announced(q, told, i, c) == c \in told \/ \E j \in 1 .. i : q[j] = Accept(c)
\* No event comes before its client's announcement.
Ordered(q, told) == \A i \in 1 .. Len(q) : Announced(q, told, i, q[i].client)

LEMMA AppendOrdered ==
  ASSUME NEW q \in Seq(Events), NEW told, NEW e \in Events, Ordered(q, told),
         Announced(q, told, Len(q), e.client)
  PROVE  /\ Ordered(Append(q, e), told)
         /\ \A c : Announced(q, told, Len(q), c) => Announced(Append(q, e), told, Len(Append(q, e)), c)
<1> DEFINE x == Append(q, e)
           m == Len(q)
<1>1. m \in Nat /\ Len(x) = m + 1 /\ x[m + 1] = e /\ \A i \in 1 .. m : x[i] = q[i]
  BY AppendProperties
<1> HIDE DEF x
<1>2. \A i \in 1 .. m : \A c : Announced(q, told, i, c) => Announced(x, told, i, c)
  <2>1. \A i \in 1 .. m : \A j \in 1 .. i : j \in 1 .. m
    BY <1>1
  <2> HIDE DEF m
  <2> QED BY <1>1, <2>1 DEF Announced
<1>3. \A c : Announced(q, told, m, c) => Announced(x, told, m + 1, c)
  <2>1. \A j \in 1 .. m : j \in 1 .. m + 1
    BY <1>1
  <2> HIDE DEF m
  <2> QED BY <1>1, <2>1 DEF Announced
<1>4. ASSUME NEW i \in 1 .. m + 1 PROVE Announced(x, told, i, x[i].client)
  <2>1. CASE i \in 1 .. m
    BY <1>1, <1>2, <2>1 DEF Ordered
  <2>2. CASE i = m + 1
    BY <1>1, <1>3, <2>2
  <2> HIDE DEF m
  <2> QED BY <1>1, <2>1, <2>2
<1>5. Ordered(x, told)
  <2> HIDE DEF m
  <2> QED BY <1>1, <1>4 DEF Ordered
<1> QED BY <1>1, <1>3, <1>5 DEF x

LEMMA PrependOrdered ==
  ASSUME NEW q \in Seq(Events), NEW told, NEW d \in Client, Ordered(q, told)
  PROVE  LET x == <<Accept(d)>> \o q
         IN  /\ Ordered(x, told) /\ Announced(x, told, Len(x), d)
             /\ \A c : Announced(q, told, Len(q), c) => Announced(x, told, Len(x), c)
<1> DEFINE a == Accept(d)
           x == <<a>> \o q
           m == Len(q)
<1>0. a \in Events
  BY DEF Accept, Events
<1>1. m \in Nat /\ Len(x) = m + 1 /\ x[1] = a /\ \A i \in 1 .. m : x[i + 1] = q[i]
  <2>1. <<a>> \in Seq(Events) /\ Len(<<a>>) = 1 /\ <<a>>[1] = a
    BY <1>0
  <2> DEFINE s == <<a>>
  <2>2. Len(s \o q) = Len(s) + Len(q)
    BY <2>1, ConcatIs
  <2>3. \A i \in 1 .. Len(s) : (s \o q)[i] = s[i]
    BY <2>1, ConcatIs
  <2>4. \A i \in 1 .. Len(q) : (s \o q)[Len(s) + i] = q[i]
    BY <2>1, ConcatIs
  <2>5. m \in Nat /\ \A i \in 1 .. m : 1 + i = i + 1
    OBVIOUS
  <2> HIDE DEF s, a
  <2> QED BY <2>1, <2>2, <2>3, <2>4, <2>5 DEF s
<1> HIDE DEF x, m
<1>2. \A i \in 1 .. m + 1 : 1 \in 1 .. i
  BY <1>1
<1>3. \A i \in 1 .. m + 1 : Announced(x, told, i, d)
  BY <1>1, <1>2 DEF Announced
<1>4. \A i \in 0 .. m : \A c : Announced(q, told, i, c) => Announced(x, told, i + 1, c)
  <2>1. \A i \in 0 .. m : \A j \in 1 .. i : j \in 1 .. m /\ j + 1 \in 1 .. i + 1
    BY <1>1
  <2> QED BY <1>1, <2>1 DEF Announced
<1>5. ASSUME NEW i \in 1 .. m + 1 PROVE Announced(x, told, i, x[i].client)
  <2>1. CASE i = 1
    <3>1. x[i].client = d
      BY <1>1, <2>1 DEF a, Accept
    <3> QED BY <1>3, <3>1
  <2>2. CASE i # 1
    <3>1. i - 1 \in 1 .. m /\ i - 1 \in 0 .. m /\ (i - 1) + 1 = i
      BY <1>1, <2>2
    <3>2. Announced(q, told, i - 1, q[i - 1].client)
      BY <3>1 DEF Ordered, m
    <3>3. x[i] = q[i - 1]
      BY <1>1, <3>1
    <3> QED BY <1>4, <3>1, <3>2, <3>3
  <2> QED BY <2>1, <2>2
<1>6. m \in 0 .. m /\ m + 1 \in 1 .. m + 1
  BY <1>1
<1>7. Ordered(x, told)
  BY <1>1, <1>5 DEF Ordered
<1> QED BY <1>1, <1>3, <1>4, <1>6, <1>7 DEF x, m, a

\* Those told when the p-th event of q is handed over, or none when p is 0.
ToldAfter(told, q, p) == IF p # 0 /\ q[p].kind = "ACCEPT" THEN told \cup {q[p].client} ELSE told

(* What is taken may leave polls out. *)
LEMMA DropOrdered ==
  ASSUME NEW q \in Seq(Events), NEW told, NEW d \in 0 .. Len(q), NEW p \in 0 .. d, Ordered(q, told),
         \A i \in (1 .. d) \ {p} : q[i].kind = "POLL"
  PROVE  LET x == Drop(q, d)
             new == ToldAfter(told, q, p)
         IN  /\ Ordered(x, new) /\ (p # 0 => q[p].client \in new)
             /\ \A c : Announced(q, told, Len(q), c) => Announced(x, new, Len(x), c)
<1> DEFINE x == Drop(q, d)
           m == Len(q)
           new == ToldAfter(told, q, p)
<1>0. new = IF p # 0 /\ q[p].kind = "ACCEPT" THEN told \cup {q[p].client} ELSE told
  BY DEF ToldAfter
<1>1. m \in Nat /\ d \in Nat /\ d \in 0 .. m /\ p \in 0 .. d /\ Len(x) = m - d
      /\ \A i \in 1 .. m - d : x[i] = q[d + i]
  <2>1. d \in Nat /\ d <= m
    OBVIOUS
  <2>2. Len(x) = (IF d <= m THEN m - d ELSE 0) /\ \A i \in 1 .. m - d : x[i] = q[d + i]
    BY <2>1, DropIs
  <2>3. m \in Nat /\ d \in 0 .. m /\ p \in 0 .. d
    OBVIOUS
  <2> HIDE DEF x, m, new
  <2> QED BY <2>1, <2>2, <2>3
<1> HIDE DEF x, m, new
<1>2. ASSUME NEW i \in 1 .. d, NEW c, q[i] = Accept(c) PROVE c \in new
  <2>1. q[i].kind = "ACCEPT" /\ q[i].client = c
    BY <1>2 DEF Accept
  <2>2. i = p
    <3>1. i \in (1 .. d) \ {p} => q[i].kind = "POLL"
      OBVIOUS
    <3> QED BY <2>1, <3>1
  <2>3. p # 0
    BY <1>1, <2>2
  <2> QED BY <1>0, <2>1, <2>2, <2>3
<1>3. ASSUME NEW i \in 0 .. m - d, NEW c, Announced(q, told, d + i, c) PROVE Announced(x, new, i, c)
  <2>1. CASE c \in told
    BY <1>0, <2>1 DEF Announced
  <2>2. CASE c \notin told
    <3>1. PICK j \in 1 .. d + i : q[j] = Accept(c)
      BY <1>3, <2>2 DEF Announced
    <3>2. CASE j \in 1 .. d
      BY <1>2, <3>1, <3>2 DEF Announced
    <3>3. CASE j \notin 1 .. d
      <4>1. j - d \in 1 .. i /\ j - d \in 1 .. m - d /\ d + (j - d) = j
        BY <1>1, <3>3
      <4>2. x[j - d] = Accept(c)
        BY <1>1, <3>1, <4>1
      <4> QED BY <4>1, <4>2 DEF Announced
    <3> QED BY <3>2, <3>3
  <2> QED BY <2>1, <2>2
<1>4. ASSUME NEW i \in 1 .. m - d PROVE Announced(x, new, i, x[i].client)
  <2>1. d + i \in 1 .. m /\ i \in 0 .. m - d
    BY <1>1
  <2>2. Announced(q, told, d + i, q[d + i].client)
    BY <2>1 DEF Ordered, m
  <2> QED BY <1>1, <1>3, <2>1, <2>2
<1>5. ASSUME p # 0 PROVE q[p].client \in new
  <2>1. p \in 1 .. m /\ p \in 1 .. d
    BY <1>1, <1>5
  <2>2. Announced(q, told, p, q[p].client)
    BY <2>1 DEF Ordered, m
  <2>3. \A j \in 1 .. p : j \in 1 .. d
    BY <1>1
  <2> QED BY <1>0, <1>2, <2>2, <2>3 DEF Announced
<1>6. m - d \in 0 .. m - d /\ d + (m - d) = m
  BY <1>1
<1>7. \A c : Announced(q, told, m, c) => Announced(x, new, m - d, c)
  BY <1>3, <1>6
<1>8. Ordered(x, new)
  BY <1>1, <1>4 DEF Ordered
<1> QED BY <1>1, <1>5, <1>7, <1>8 DEF x, m, new

\* k[i] is what the purge of client c leaves of the first i events of q.
Purges(k, q, c) ==
  /\ k \in [0 .. Len(q) -> Seq(Events)] /\ k[0] = << >>
  /\ \A i \in 1 .. Len(q) : k[i] = IF q[i].client = c /\ q[i].kind # "ACCEPT"
                                   THEN k[i - 1] ELSE Append(k[i - 1], q[i])

LEMMA PurgeOrdered ==
  ASSUME NEW q \in Seq(Events), NEW told, NEW d, Ordered(q, told), NEW k, Purges(k, q, d)
  PROVE  LET x == k[Len(q)]
         IN  /\ Ordered(x, told)
             /\ \A c : Announced(q, told, Len(q), c) => Announced(x, told, Len(x), c)
<1> DEFINE m == Len(q)
           Good(i) == /\ Ordered(k[i], told)
                      /\ \A c : Announced(q, told, i, c) => Announced(k[i], told, Len(k[i]), c)
           N == {i \in 0 .. m : Good(i)}
<1>1. m \in Nat
  OBVIOUS
<1>2. /\ k \in [0 .. m -> Seq(Events)] /\ k[0] = << >>
      /\ \A i \in 1 .. m : k[i] = IF q[i].client = d /\ q[i].kind # "ACCEPT"
                                  THEN k[i - 1] ELSE Append(k[i - 1], q[i])
  BY DEF Purges
<1>3. 0 \in N
  <2>1. 0 \in 0 .. m /\ 1 .. 0 = {} /\ Len(k[0]) = 0
    BY <1>1, <1>2
  <2>2. Ordered(k[0], told)
    BY <2>1 DEF Ordered
  <2>3. \A c : Announced(q, told, 0, c) => Announced(k[0], told, Len(k[0]), c)
    BY <2>1 DEF Announced
  <2> HIDE DEF m
  <2> QED BY <2>1, <2>2, <2>3
<1>4. ASSUME NEW i \in 0 .. m - 1, i \in N PROVE i + 1 \in N
  <2> DEFINE v == k[i]
             e == q[i + 1]
  <2>1. i + 1 \in 1 .. m /\ i + 1 \in 0 .. m /\ (i + 1) - 1 = i /\ i \in 0 .. m /\ i \in Nat
    BY <1>1
  <2>2. v \in Seq(Events)
    <3> HIDE DEF m
    <3> QED BY <1>2, <2>1
  <2>3. e \in Events
    BY <2>1
  <2>4. Announced(q, told, i + 1, e.client)
    BY <2>1 DEF Ordered
  <2>5. k[i + 1] = IF e.client = d /\ e.kind # "ACCEPT" THEN v ELSE Append(v, e)
    <3> HIDE DEF m
    <3> QED BY <1>2, <2>1
  <2>6. Ordered(v, told) /\ \A c : Announced(q, told, i, c) => Announced(v, told, Len(v), c)
    <3> HIDE DEF m
    <3> QED BY <1>4
  <2>7. ASSUME NEW c, Announced(q, told, i + 1, c)
        PROVE  Announced(q, told, i, c) \/ e = Accept(c)
    <3>1. CASE c \in told
      BY <3>1 DEF Announced
    <3>2. CASE c \notin told
      <4>1. PICK j \in 1 .. i + 1 : q[j] = Accept(c)
        BY <2>7, <3>2 DEF Announced
      <4>2. j \in 1 .. i \/ j = i + 1
        BY <2>1
      <4> QED BY <4>1, <4>2 DEF Announced
    <3> QED BY <3>1, <3>2
  <2> HIDE DEF v, e, m
  <2>8. CASE e.client = d /\ e.kind # "ACCEPT"
    <3>1. \A c : e # Accept(c)
      BY <2>8 DEF Accept
    <3> QED BY <2>1, <2>5, <2>6, <2>7, <2>8, <3>1
  <2>9. CASE ~(e.client = d /\ e.kind # "ACCEPT")
    <3> DEFINE x == Append(v, e)
    <3>1. k[i + 1] = x
      BY <2>5, <2>9
    <3>2. Len(v) \in Nat /\ Len(x) = Len(v) + 1 /\ x[Len(v) + 1] = e
          /\ \A j \in 1 .. Len(v) : x[j] = v[j]
      BY <2>2, <2>3, AppendProperties
    <3>3. \A j \in 1 .. Len(v) : j \in 1 .. Len(v) + 1
      BY <3>2
    <3> HIDE DEF x
    <3>4. ASSUME NEW c, Announced(q, told, i + 1, c) PROVE Announced(x, told, Len(x), c)
      <4>1. CASE Announced(q, told, i, c)
        <5>1. Announced(v, told, Len(v), c)
          BY <2>6, <4>1
        <5> QED BY <3>2, <3>3, <5>1 DEF Announced
      <4>2. CASE e = Accept(c)
        <5>1. Len(v) + 1 \in 1 .. Len(x)
          BY <3>2
        <5> QED BY <3>2, <4>2, <5>1 DEF Announced
      <4> QED BY <2>7, <3>4, <4>1, <4>2
    <3>5. ASSUME NEW j \in 1 .. Len(x) PROVE Announced(x, told, j, x[j].client)
      <4>1. CASE j \in 1 .. Len(v)
        <5>1. Announced(v, told, j, v[j].client)
          BY <2>6, <4>1 DEF Ordered
        <5>2. \A y \in 1 .. j : y \in 1 .. Len(v)
          BY <3>2, <4>1
        <5> QED BY <3>2, <4>1, <5>1, <5>2 DEF Announced
      <4>2. CASE j = Len(x)
        BY <2>4, <3>2, <3>4, <4>2
      <4>3. j \in 1 .. Len(v) \/ j = Len(x)
        BY <3>2
      <4> QED BY <4>1, <4>2, <4>3
    <3>6. Good(i + 1)
      <4>1. Ordered(x, told)
        BY <3>5 DEF Ordered
      <4> QED BY <3>1, <3>4, <4>1
    <3> HIDE DEF Good
    <3> QED BY <2>1, <3>6
  <2> QED BY <2>8, <2>9
<1>5. m \in N
  <2>1. 0 .. m \subseteq N
    <3> HIDE DEF N, m
    <3> QED BY <1>1, <1>3, <1>4, BoundedInduction
  <2> QED BY <1>1, <2>1
<1> QED BY <1>5

-----------------------------------------------------------------------------
(* The invariant.                                                          *)

Packets == {Free} \cup Events
WorkType == [plat : Platforms, at : {"idle", "wait", "handle"}, cur : Node \cup {Null},
             note : BOOLEAN, fns : Nat, told : SUBSET Client]
TypeInv ==
  /\ pkt \in [Node -> Packets]
  /\ lwip \in {[at |-> "idle"]} \cup [at : {"poll", "error"}, client : Client]
  /\ client \in [Client -> [st : {"new", "bound", "gone", "refused"}, left : Int]]
  /\ work \in WorkType

\* The list has the packets that are allocated, but for the one being handled.
ListInv ==
  /\ IsList(list, Chain(list))
  /\ Elements(Chain(list)) = {n \in Node : pkt[n] # Free} \ {work.cur}
  /\ work.cur # Null => pkt[work.cur] # Free

WakeInv == (work.at = "handle" <=> work.cur # Null) /\ NoLostWakeup

\* The events of the packets w.
EventsIn(p, w) == [i \in 1 .. Len(w) |-> p[w[i]]]
Waiting == EventsIn(pkt, Chain(list))

\* A client that may have events is announced.
Known(q, told, clients) == \A c \in Client : clients[c].st # "new" => Announced(q, told, Len(q), c)

\* The clients whose events may come: those told of, and the refused ones.
Heard(told, clients) == told \cup {c \in Client : clients[c].st = "refused"}

AcceptInv ==
  /\ Ordered(Waiting, Heard(work.told, client))
  /\ Known(Waiting, Heard(work.told, client), client)
  /\ lwip.at # "idle" => client[lwip.client].st # "new"
  /\ work.cur # Null => pkt[work.cur].client \in Heard(work.told, client)

\* Packet n has an event of c.
Has(p, n, c) == p[n] # Free /\ p[n].client = c

\* A client has no event before it is accepted; a refused one is never told of
\* and has its ERROR only, for which lwIP may still be on the way.
Untold(p, told, c) == c \notin told /\ \A n \in Node : ~Has(p, n, c)
OneError(p, l, told, c) ==
  /\ c \notin told
  /\ \A n \in Node : Has(p, n, c) => p[n].kind # "ACCEPT"
  /\ \A m, n \in Node : Has(p, m, c) /\ Has(p, n, c) => m = n
  /\ l.at # "idle" /\ l.client = c => \A n \in Node : ~Has(p, n, c)
RefusedFor(p, l, told, clients) ==
  \A c \in Client :
    /\ clients[c].st = "new" => Untold(p, told, c)
    /\ clients[c].st = "refused" => OneError(p, l, told, c)
RefusedInv == RefusedFor(pkt, lwip, work.told, client)

QueueInv == TypeInv /\ ListInv /\ WakeInv /\ AcceptInv /\ RefusedInv


LEMMA EventsInIs ==
  ASSUME NEW p \in [Node -> Packets], NEW w \in Seq(Node), \A i \in 1 .. Len(w) : p[w[i]] # Free
  PROVE  /\ EventsIn(p, w) \in Seq(Events) /\ Len(EventsIn(p, w)) = Len(w)
         /\ \A i \in 1 .. Len(w) : EventsIn(p, w)[i] = p[w[i]]
<1>1. Len(w) \in Nat /\ \A i \in 1 .. Len(w) : w[i] \in Node
  OBVIOUS
<1>2. \A i \in 1 .. Len(w) : p[w[i]] \in Events
  BY <1>1 DEF Packets
<1>3. EventsIn(p, w) \in Seq(Events)
  BY <1>1, <1>2 DEF EventsIn
<1> QED BY <1>1, <1>3 DEF EventsIn

(* A packet's memory is prepared before it is put in. *)
LEMMA ClearedIs ==
  ASSUME NEW l, NEW w, IsList(l, w), NEW n \in Node, n \notin Elements(w)
  PROVE  LET m == [l EXCEPT !.next[n] = Null]
         IN  IsList(m, w) /\ m.next[n] = Null
<1> DEFINE m == [l EXCEPT !.next[n] = Null]
           x == [l.next EXCEPT ![n] = Null]
<1>1. l \in ListType /\ w \in Seq(Node)
  BY DEF IsList
<1>2. x \in [Node -> Node \cup {Null}] /\ l.size \in Int /\ l.tail \in Links
      /\ l.head \in Node \cup {Null} /\ x[n] = Null
  BY <1>1 DEF ListType
<1>3. \A i \in 1 .. Len(w) : w[i] \in Node /\ x[w[i]] = l.next[w[i]]
  <2>1. \A i \in 1 .. Len(w) : w[i] \in Node /\ w[i] # n
    BY <1>1 DEF Elements
  <2> QED BY <1>1, <2>1 DEF ListType
<1>4. m = Relinked(l, l.head, l.tail, x, l.size)
  BY <1>1 DEF Relinked, ListType
<1> HIDE DEF m, x
<1>5. m \in ListType /\ m.head = l.head /\ m.tail = l.tail /\ m.next = x /\ m.size = l.size
  <2> DEFINE r == Relinked(l, l.head, l.tail, x, l.size)
  <2>1. r \in ListType /\ r.head = l.head /\ r.tail = l.tail /\ r.next = x /\ r.size = l.size
    BY <1>1, <1>2 DEF ListType, Relinked
  <2> QED BY <1>4, <2>1
<1>6. IsList(m, w)
  BY <1>3, <1>5 DEF IsList
<1> QED BY <1>2, <1>5, <1>6 DEF m

(* What putting a packet in does to the list. *)
LEMMA PutIs ==
  ASSUME NEW l, NEW w, IsList(l, w), NEW n \in Node, n \notin Elements(w)
  PROVE  LET m == [l EXCEPT !.next[n] = Null]
         IN  /\ IsList(PushBack(m, n), Append(w, n))
             /\ IsList(PushFront(m, n), <<n>> \o w)
<1> DEFINE m == [l EXCEPT !.next[n] = Null]
<1>1. IsList(m, w) /\ m.next[n] = Null
  BY ClearedIs
<1> HIDE DEF m
<1>2. IsList(PushBack(m, n), Append(w, n))
  BY <1>1, PushBackIs
<1>3. IsList(PushFront(m, n), <<n>> \o w)
  BY <1>1, PushFrontIs
<1> QED BY <1>2, <1>3 DEF m

\* w with x at one end.
Put(end, w, x) == IF end = "front" THEN <<x>> \o w ELSE Append(w, x)

Holds(p, w) ==
  p \in [Node -> Packets] /\ w \in Seq(Node) /\ \A i \in 1 .. Len(w) : p[w[i]] # Free
Puts(s, p, n, e) ==
  /\ n \in Node /\ e \in Events /\ e # Free
  /\ s \in [Node -> Packets] /\ s[n] = e /\ \A x \in Node : x # n => s[x] = p[x]

(* The events in one more packet. *)
LEMMA PutEvents ==
  ASSUME NEW p, NEW w, Holds(p, w), NEW s, NEW n, NEW e, Puts(s, p, n, e), n \notin Elements(w),
         NEW end
  PROVE  /\ Put(end, w, n) \in Seq(Node) /\ Len(Put(end, w, n)) = Len(w) + 1
         /\ Elements(Put(end, w, n)) = Elements(w) \cup {n}
         /\ EventsIn(s, Put(end, w, n)) = Put(end, EventsIn(p, w), e)
<1> DEFINE m == Len(w)
           q == EventsIn(p, w)
           a == Append(w, n)
           b == <<n>> \o w
<1>0. /\ p \in [Node -> Packets] /\ w \in Seq(Node) /\ (\A i \in 1 .. Len(w) : p[w[i]] # Free)
      /\ n \in Node /\ e \in Events /\ e # Free
      /\ s \in [Node -> Packets] /\ s[n] = e /\ \A x \in Node : x # n => s[x] = p[x]
  BY DEF Holds, Puts
<1>1. m \in Nat /\ (\A i \in 1 .. m : w[i] \in Node /\ w[i] # n)
  BY <1>0 DEF Elements
<1>2. q \in Seq(Events) /\ Len(q) = m /\ \A i \in 1 .. m : q[i] = p[w[i]]
  BY <1>0, EventsInIs
<1>3. s \in [Node -> Packets] /\ s[n] = e /\ \A i \in 1 .. m : s[w[i]] = p[w[i]]
  BY <1>0, <1>1
<1>4. a \in Seq(Node) /\ Len(a) = m + 1 /\ a[m + 1] = n /\ \A i \in 1 .. m : a[i] = w[i]
  BY <1>0, AppendProperties
<1> DEFINE u == <<n>>
           v == <<e>>
<1>5. u \in Seq(Node) /\ Len(u) = 1 /\ u[1] = n /\ v \in Seq(Events) /\ Len(v) = 1 /\ v[1] = e
  BY <1>0
<1>6. b \in Seq(Node) /\ Len(b) = 1 + m /\ b[1] = n /\ \A i \in 1 .. m : b[1 + i] = w[i]
  <2> HIDE DEF u
  <2>0. u \in Seq(Node) /\ w \in Seq(Node)
    BY <1>0, <1>5
  <2>1. u \o w \in Seq(Node) /\ Len(u \o w) = Len(u) + Len(w)
    BY <2>0, ConcatIs
  <2>2. \A i \in 1 .. Len(u) : (u \o w)[i] = u[i]
    BY <2>0, ConcatIs
  <2>3. \A i \in 1 .. Len(w) : (u \o w)[Len(u) + i] = w[i]
    BY <2>0, ConcatIs
  <2>4. b = u \o w /\ 1 \in 1 .. 1
    BY DEF u
  <2> HIDE DEF b
  <2> QED BY <1>5, <2>1, <2>2, <2>3, <2>4
<1> DEFINE x == v \o q
<1>7. x \in Seq(Events) /\ Len(x) = 1 + m /\ x[1] = e /\ \A i \in 1 .. m : x[1 + i] = q[i]
  <2> HIDE DEF v, q
  <2>0. v \in Seq(Events) /\ q \in Seq(Events)
    BY <1>2, <1>5
  <2>1. v \o q \in Seq(Events) /\ Len(v \o q) = Len(v) + Len(q)
    BY <2>0, ConcatIs
  <2>2. \A i \in 1 .. Len(v) : (v \o q)[i] = v[i]
    BY <2>0, ConcatIs
  <2>3. \A i \in 1 .. Len(q) : (v \o q)[Len(v) + i] = q[i]
    BY <2>0, ConcatIs
  <2>4. x = v \o q /\ 1 \in 1 .. 1
    OBVIOUS
  <2> HIDE DEF x
  <2> QED BY <1>2, <1>5, <2>1, <2>2, <2>3, <2>4
<1> DEFINE y == Append(q, e)
<1>8. y \in Seq(Events) /\ Len(y) = m + 1 /\ y[m + 1] = e /\ \A i \in 1 .. m : y[i] = q[i]
  <2>1. q \in Seq(Events) /\ e \in Events /\ Len(q) = m
    BY <1>0, <1>2
  <2> HIDE DEF q, m
  <2>2. y \in Seq(Events) /\ Len(y) = Len(q) + 1 /\ y[Len(q) + 1] = e /\ \A i \in 1 .. Len(q) : y[i] = q[i]
    BY <2>1, AppendProperties
  <2> QED BY <2>1, <2>2
<1>9. b = u \o w /\ v \o q = x
  OBVIOUS
<1> HIDE DEF a, b, q, u, v, x, y, m
<1>10. Elements(a) = Elements(w) \cup {n}
  <2>1. 1 .. m + 1 = (1 .. m) \cup {m + 1}
    BY <1>1
  <2> QED BY <1>4, <2>1 DEF Elements, m
<1>11. \A i \in 1 .. 1 + m : i = 1 \/ (i - 1 \in 1 .. m /\ 1 + (i - 1) = i)
  BY <1>1
<1>12. Elements(b) = Elements(w) \cup {n}
  <2>1. 1 \in 1 .. 1 + m /\ \A i \in 1 .. m : 1 + i \in 1 .. 1 + m
    BY <1>1
  <2>2. ASSUME NEW i \in 1 .. 1 + m PROVE b[i] \in {w[z] : z \in 1 .. m} \cup {n}
    <3>1. CASE i = 1
      BY <1>6, <3>1
    <3>2. CASE i # 1
      <4>1. i - 1 \in 1 .. m /\ b[1 + (i - 1)] = w[i - 1] /\ 1 + (i - 1) = i
        BY <1>6, <1>11, <3>2
      <4> QED BY <4>1
    <3> QED BY <3>1, <3>2
  <2>3. \A i \in 1 .. m : w[i] \in {b[z] : z \in 1 .. 1 + m}
    BY <1>6, <2>1
  <2>4. Elements(b) = {b[z] : z \in 1 .. 1 + m}
    BY <1>6 DEF Elements
  <2>5. Elements(w) = {w[z] : z \in 1 .. m}
    BY DEF Elements, m
  <2>6. 1 \in 1 .. 1 + m
    BY <1>1
  <2>7. n \in {b[z] : z \in 1 .. 1 + m}
    BY <1>6, <2>6
  <2> QED BY <2>2, <2>3, <2>4, <2>5, <2>7
<1>13. EventsIn(s, a) = y
  <2>1. ASSUME NEW i \in 1 .. m + 1 PROVE s[a[i]] # Free /\ s[a[i]] = y[i]
    <3>1. i \in 1 .. m \/ i = m + 1
      BY <1>1
    <3> QED BY <1>0, <1>2, <1>3, <1>4, <1>8, <3>1 DEF m
  <2>2. a \in Seq(Node) /\ s \in [Node -> Packets] /\ \A i \in 1 .. Len(a) : s[a[i]] # Free
    BY <1>3, <1>4, <2>1
  <2> DEFINE z == EventsIn(s, a)
  <2>3. z \in Seq(Events) /\ Len(z) = Len(a) /\ \A i \in 1 .. Len(a) : z[i] = s[a[i]]
    BY <2>2, EventsInIs
  <2> HIDE DEF z
  <2>4. Len(z) = Len(y)
    BY <1>4, <1>8, <2>3
  <2>5. \A i \in 1 .. Len(z) : z[i] = y[i]
    BY <1>4, <1>8, <2>1, <2>3
  <2>6. z = y
    BY <1>8, <2>3, <2>4, <2>5, SeqEqual
  <2> QED BY <2>6 DEF z
<1>14. EventsIn(s, b) = x
  <2>1. ASSUME NEW i \in 1 .. 1 + m PROVE s[b[i]] # Free /\ s[b[i]] = x[i]
    <3>1. CASE i = 1
      BY <1>0, <1>3, <1>6, <1>7, <3>1
    <3>2. CASE i # 1
      <4> DEFINE j == i - 1
      <4>1. j \in 1 .. m /\ 1 + j = i
        BY <1>11, <3>2
      <4> HIDE DEF j
      <4>2. b[1 + j] = w[j] /\ x[1 + j] = q[j] /\ q[j] = p[w[j]] /\ s[w[j]] = p[w[j]] /\ p[w[j]] # Free
        BY <1>0, <1>2, <1>3, <1>6, <1>7, <4>1 DEF m
      <4> QED BY <4>1, <4>2
    <3> QED BY <3>1, <3>2
  <2>2. b \in Seq(Node) /\ s \in [Node -> Packets] /\ \A i \in 1 .. Len(b) : s[b[i]] # Free
    BY <1>3, <1>6, <2>1
  <2> DEFINE z == EventsIn(s, b)
  <2>3. z \in Seq(Events) /\ Len(z) = Len(b) /\ \A i \in 1 .. Len(b) : z[i] = s[b[i]]
    BY <2>2, EventsInIs
  <2> HIDE DEF z
  <2>4. Len(z) = Len(x)
    BY <1>6, <1>7, <2>3
  <2>5. \A i \in 1 .. Len(z) : z[i] = x[i]
    BY <1>6, <1>7, <2>1, <2>3
  <2>6. z = x
    BY <1>7, <2>3, <2>4, <2>5, SeqEqual
  <2> QED BY <2>6 DEF z
<1>15. 1 + m = m + 1
  BY <1>1
<1>16. CASE end = "front"
  <2>1. Put(end, w, n) = b /\ Put(end, q, e) = x
    BY <1>16 DEF Put, b, x, v
  <2> QED BY <1>6, <1>12, <1>14, <1>15, <2>1 DEF q, m
<1>17. CASE end # "front"
  <2>1. Put(end, w, n) = a /\ Put(end, q, e) = y
    BY <1>17 DEF Put, a, y
  <2> QED BY <1>4, <1>10, <1>13, <2>1 DEF q, m
<1> QED BY <1>16, <1>17


LEMMA ListFacts ==
  ASSUME TypeInv, ListInv
  PROVE  LET w == Chain(list)
         IN  /\ w \in Seq(Node) /\ list.size = Len(w) /\ (list.head = Null <=> Len(w) = 0)
             /\ \A i \in 1 .. Len(w) : w[i] \in Node /\ pkt[w[i]] # Free /\ w[i] # work.cur
             /\ Waiting \in Seq(Events) /\ Len(Waiting) = Len(w)
             /\ \A i \in 1 .. Len(w) : Waiting[i] = pkt[w[i]]
<1> DEFINE w == Chain(list)
<1>1. IsList(list, w) /\ Elements(w) = {n \in Node : pkt[n] # Free} \ {work.cur}
      /\ pkt \in [Node -> Packets]
  BY DEF ListInv, TypeInv
<1> HIDE DEF w
<1>2. w \in Seq(Node) /\ list.size = Len(w) /\ list.head = IF Len(w) = 0 THEN Null ELSE w[1]
  BY <1>1 DEF IsList
<1>3. \A i \in 1 .. Len(w) : w[i] \in Node /\ pkt[w[i]] # Free /\ w[i] # work.cur
  BY <1>1, <1>2 DEF Elements
<1>4. list.head = Null <=> Len(w) = 0
  <2>1. Len(w) # 0 => w[1] \in Node
    BY <1>2
  <2> QED BY <1>2, <2>1, Nodes
<1>5. /\ EventsIn(pkt, w) \in Seq(Events) /\ Len(EventsIn(pkt, w)) = Len(w)
      /\ \A i \in 1 .. Len(w) : EventsIn(pkt, w)[i] = pkt[w[i]]
  BY <1>1, <1>2, <1>3, EventsInIs
<1> QED BY <1>2, <1>3, <1>4, <1>5 DEF w, Waiting

(* Scheduling succeeds, or the function is scheduled already. *)
LEMMA ScheduleIs ==
  ASSUME NEW w \in WorkType
  PROVE  /\ Schedule(w) \in WorkType /\ Schedule(w).fns > 0
         /\ Schedule(w).plat = w.plat /\ Schedule(w).at = w.at /\ Schedule(w).cur = w.cur
         /\ Schedule(w).told = w.told
<1> DEFINE f == IF w.fns + FnOthers < FnMax THEN w.fns + 1 ELSE w.fns
<1>1. w.fns \in Nat /\ FnOthers \in Nat /\ FnMax \in Nat /\ FnOthers < FnMax
  BY ConstantsAssumption DEF WorkType
<1>2. f \in Nat /\ f > 0
  BY <1>1
<1>3. Schedule(w) = [w EXCEPT !.fns = f]
  BY DEF Schedule, WorkType
<1> HIDE DEF f
<1> QED BY <1>2, <1>3 DEF WorkType

(* Whoever puts the first event in wakes the service. *)
LEMMA SignalIs ==
  ASSUME NEW l, work \in WorkType
  PROVE  /\ Signal(l) \in WorkType
         /\ Signal(l).plat = work.plat /\ Signal(l).at = work.at /\ Signal(l).cur = work.cur
         /\ Signal(l).told = work.told
         /\ work.plat = "task" => Signal(l).note
         /\ work.plat # "task" => IF l.size = 1 THEN Signal(l).fns > 0 ELSE Signal(l).fns = work.fns
<1>1. CASE work.plat = "task"
  <2>1. Signal(l) = [work EXCEPT !.note = TRUE]
    BY <1>1 DEF Signal
  <2> QED BY <1>1, <2>1 DEF WorkType
<1>2. CASE work.plat # "task" /\ l.size = 1
  <2>1. Signal(l) = Schedule(work)
    BY <1>2 DEF Signal
  <2> QED BY <1>2, <2>1, ScheduleIs
<1>3. CASE work.plat # "task" /\ l.size # 1
  <2>1. Signal(l) = work
    BY <1>3 DEF Signal
  <2> QED BY <1>3, <2>1
<1> QED BY <1>1, <1>2, <1>3

(* An event is put in at one end, or there is no memory for it. *)
LEMMA EnqueueIs ==
  ASSUME TypeInv, ListInv, WakeInv, NEW end, NEW kind \in {"ACCEPT", "DATA", "POLL"}, NEW c \in Client,
         Enqueue(end, kind, c)
  PROVE  LET e == [kind |-> kind, client |-> c]
         IN  /\ pkt' \in [Node -> Packets] /\ work' \in WorkType /\ ListInv' /\ WakeInv'
             /\ work'.told = work.told /\ work'.cur = work.cur
             /\ work.cur # Null => pkt'[work.cur] = pkt[work.cur]
             /\ \/ Fresh = {} /\ Waiting' = Waiting
                \/ Waiting' = Put(end, Waiting, e)
<1> DEFINE e == [kind |-> kind, client |-> c]
           w == Chain(list)
<1>1. /\ pkt \in [Node -> Packets] /\ work \in WorkType /\ IsList(list, w)
      /\ Elements(w) = {n \in Node : pkt[n] # Free} \ {work.cur}
      /\ (work.cur # Null => pkt[work.cur] # Free) /\ work.cur \in Node \cup {Null}
  BY DEF TypeInv, ListInv, WorkType
<1>2. /\ w \in Seq(Node) /\ list.size = Len(w) /\ (list.head = Null <=> Len(w) = 0)
      /\ \A i \in 1 .. Len(w) : w[i] \in Node /\ pkt[w[i]] # Free /\ w[i] # work.cur
  BY ListFacts
<1>3. e \in Events /\ e # Free
  BY DEF Events, Free
<1>4. CASE Fresh = {}
  <2>1. UNCHANGED <<list, pkt, work>>
    BY <1>4 DEF Enqueue
  <2>2. ListInv' /\ WakeInv' /\ Waiting' = Waiting
    BY <2>1 DEF ListInv, WakeInv, NoLostWakeup, Waiting
  <2> QED BY <1>1, <1>4, <2>1, <2>2
<1>5. CASE Fresh # {}
  <2> DEFINE n == CHOOSE x \in Fresh : TRUE
             m == [list EXCEPT !.next[n] = Null]
             l == IF end = "front" THEN PushFront(m, n) ELSE PushBack(m, n)
             v == Put(end, w, n)
  <2>1. n \in Node /\ pkt[n] = Free
    BY <1>5 DEF Fresh
  <2>2. pkt' = [pkt EXCEPT ![n] = e] /\ list' = l /\ work' = Signal(l)
    BY <1>5 DEF Enqueue
  <2> HIDE DEF n, w, e
  <2>3. n \notin Elements(w) /\ (work.cur # Null => n # work.cur)
    BY <1>1, <2>1
  <2>4. IsList(l, v)
    <3>1. IsList(IF end = "front" THEN PushFront(m, n) ELSE PushBack(m, n),
                 IF end = "front" THEN <<n>> \o w ELSE Append(w, n))
      BY <1>1, <2>1, <2>3, PutIs
    <3> QED BY <3>1 DEF Put
  <2>5. Chain(list') = v
    BY <2>2, <2>4, ChainIs
  <2>9. pkt' \in [Node -> Packets] /\ pkt'[n] = e /\ \A x \in Node : x # n => pkt'[x] = pkt[x]
    BY <1>1, <1>3, <2>1, <2>2 DEF Packets
  <2>6. /\ v \in Seq(Node) /\ Len(v) = Len(w) + 1 /\ Elements(v) = Elements(w) \cup {n}
        /\ EventsIn(pkt', v) = Put(end, EventsIn(pkt, w), e)
    <3>1. Holds(pkt, w) /\ Puts(pkt', pkt, n, e)
      BY <1>1, <1>2, <1>3, <2>1, <2>9 DEF Holds, Puts
    <3> DEFINE s == pkt'
               p == pkt
    <3>2. Holds(p, w) /\ Puts(s, p, n, e) /\ n \notin Elements(w)
      BY <2>3, <3>1
    <3> HIDE DEF s, p, l
    <3>3. /\ Put(end, w, n) \in Seq(Node) /\ Len(Put(end, w, n)) = Len(w) + 1
          /\ Elements(Put(end, w, n)) = Elements(w) \cup {n}
          /\ EventsIn(s, Put(end, w, n)) = Put(end, EventsIn(p, w), e)
      BY <3>2, PutEvents
    <3> QED BY <3>3 DEF s, p
  <2>7. l.size = Len(w) + 1 /\ l.size = Len(v) /\ Len(v) \in Nat
    <3>1. l.size = Len(v)
      <4> HIDE DEF l, v
      <4> QED BY <2>4 DEF IsList
    <3> HIDE DEF l, v
    <3> QED BY <2>6, <3>1
  <2> HIDE DEF l
  <2>8. /\ work' \in WorkType /\ work'.plat = work.plat /\ work'.at = work.at /\ work'.cur = work.cur
        /\ work'.told = work.told
        /\ (work.plat = "task" => work'.note)
        /\ (work.plat # "task" => IF l.size = 1 THEN work'.fns > 0 ELSE work'.fns = work.fns)
    BY <1>1, <2>2, SignalIs
  <2>10. ListInv'
    <3>1. IsList(list', Chain(list'))
      BY <2>2, <2>4, <2>5
    <3>2. Elements(Chain(list')) = {x \in Node : pkt'[x] # Free} \ {work'.cur}
      <4> HIDE DEF v
      <4>1. Elements(v) = {x \in Node : pkt'[x] # Free} \ {work.cur}
        BY <1>1, <1>3, <2>1, <2>3, <2>6, <2>9, Nodes
      <4> QED BY <2>5, <2>8, <4>1
    <3>3. work'.cur # Null => pkt'[work'.cur] # Free
      BY <1>1, <2>3, <2>8, <2>9
    <3> QED BY <3>1, <3>2, <3>3 DEF ListInv
  <2>11. WakeInv'
    <3>1. work'.at = "handle" <=> work'.cur # Null
      BY <2>8 DEF WakeInv
    <3>2. CASE work.plat = "task"
      BY <2>8, <3>1, <3>2 DEF WakeInv, NoLostWakeup
    <3>3. CASE work.plat # "task"
      <4>1. l.size # 1 => list.head # Null
        <5>1. Len(w) \in Nat
          BY <1>2
        <5> QED BY <1>2, <2>7, <5>1
      <4>2. work'.at = "idle" => work'.fns > 0
        BY <2>8, <3>3, <4>1 DEF WakeInv, NoLostWakeup
      <4> QED BY <2>8, <3>1, <3>3, <4>2 DEF WakeInv, NoLostWakeup
    <3> QED BY <3>2, <3>3
  <2>12. Waiting' = Put(end, Waiting, e)
    <3>1. Waiting' = EventsIn(pkt', v)
      BY <2>5 DEF Waiting
    <3>2. Waiting = EventsIn(pkt, w)
      BY DEF Waiting, w
    <3> QED BY <2>6, <3>1, <3>2
  <2>13. work.cur # Null => pkt'[work.cur] = pkt[work.cur]
    BY <1>1, <2>3, <2>9
  <2> QED BY <2>8, <2>9, <2>10, <2>11, <2>12, <2>13 DEF e
<1> QED BY <1>4, <1>5


LEMMA EventsAppend ==
  ASSUME NEW p, NEW w, Holds(p, w), NEW n \in Node, p[n] # Free
  PROVE  EventsIn(p, Append(w, n)) = Append(EventsIn(p, w), p[n])
<1> DEFINE m == Len(w)
           q == EventsIn(p, w)
           a == Append(w, n)
           e == p[n]
           y == Append(q, e)
           z == EventsIn(p, a)
<1>1. p \in [Node -> Packets] /\ w \in Seq(Node) /\ (\A i \in 1 .. m : p[w[i]] # Free) /\ m \in Nat
  BY DEF Holds
<1>2. q \in Seq(Events) /\ Len(q) = m /\ \A i \in 1 .. m : q[i] = p[w[i]]
  BY <1>1, EventsInIs
<1>3. e \in Events
  BY <1>1 DEF Packets
<1>4. a \in Seq(Node) /\ Len(a) = m + 1 /\ a[m + 1] = n /\ \A i \in 1 .. m : a[i] = w[i]
  BY <1>1, AppendProperties
<1>5. y \in Seq(Events) /\ Len(y) = Len(q) + 1 /\ y[Len(q) + 1] = e /\ \A i \in 1 .. Len(q) : y[i] = q[i]
  <2> HIDE DEF q, e
  <2> QED BY <1>2, <1>3, AppendProperties
<1>6. \A i \in 1 .. m + 1 : i \in 1 .. m \/ i = m + 1
  BY <1>1
<1> HIDE DEF a, q, y, e, m
<1>7. \A i \in 1 .. m + 1 : p[a[i]] = y[i]
  BY <1>2, <1>4, <1>5, <1>6 DEF e
<1>8. \A i \in 1 .. Len(a) : p[a[i]] # Free
  BY <1>1, <1>4, <1>6
<1>9. z \in Seq(Events) /\ Len(z) = Len(a) /\ \A i \in 1 .. Len(a) : z[i] = p[a[i]]
  BY <1>1, <1>4, <1>8, EventsInIs
<1> HIDE DEF z
<1>10. Len(z) = Len(y) /\ \A i \in 1 .. Len(z) : z[i] = y[i]
  BY <1>2, <1>4, <1>5, <1>7, <1>9
<1>11. z = y
  BY <1>5, <1>9, <1>10, SeqEqual
<1> QED BY <1>11 DEF z, y, a, q, e

(* A client's events are purged, but for its ACCEPT and the one being handled. *)
LEMMA PurgeIs ==
  ASSUME TypeInv, ListInv, WakeInv, NEW c \in Client, Purge(c), UNCHANGED work
  PROVE  /\ pkt' \in [Node -> Packets] /\ ListInv' /\ WakeInv'
         /\ work.cur # Null => pkt'[work.cur] = pkt[work.cur]
         /\ \E k : Purges(k, Waiting, c) /\ Waiting' = k[Len(Waiting)]
<1> DEFINE w == Chain(list)
           m == Len(w)
           gone == EventsOf(c) \ {work.cur}
           r == RemoveIf(list, gone)
<1>1. /\ pkt \in [Node -> Packets] /\ IsList(list, w) /\ work.cur \in Node \cup {Null}
      /\ Elements(w) = {n \in Node : pkt[n] # Free} \ {work.cur}
      /\ (work.cur # Null => pkt[work.cur] # Free)
  BY DEF TypeInv, ListInv, WorkType
<1>2. /\ w \in Seq(Node) /\ m \in Nat /\ (list.head = Null <=> m = 0)
      /\ \A i \in 1 .. m : w[i] \in Node /\ pkt[w[i]] # Free /\ w[i] # work.cur
      /\ Waiting \in Seq(Events) /\ Len(Waiting) = m /\ \A i \in 1 .. m : Waiting[i] = pkt[w[i]]
  BY ListFacts
<1>3. list' = Voided(r, gone) /\ pkt' = [n \in Node |-> IF n \in gone THEN Free ELSE pkt[n]]
  BY DEF Purge, Release, Voided
<1>4. \A n \in Node : n \in gone <=> /\ n # work.cur /\ pkt[n] # Free
                                      /\ pkt[n].client = c /\ pkt[n].kind # "ACCEPT"
  BY DEF EventsOf
<1>5. gone \subseteq Node /\ gone \cap {work.cur} = {}
  BY DEF EventsOf
<1> HIDE DEF w, m, gone, r
<1>6. PICK k : Keeps(k, w, gone)
  BY <1>2, KeepsExists
<1> DEFINE v == k[m]
<1>7. /\ \A i \in 0 .. m : k[i] \in Seq(Node) /\ Elements(k[i]) = {w[j] : j \in 1 .. i} \ gone
      /\ v \in Seq(Node) /\ Elements(v) = Elements(w) \ gone
  BY <1>2, <1>6, KeepsElements DEF m
<1>8. IsList(r, v)
  BY <1>1, <1>6, RemoveIfIs DEF r, m
<1> HIDE DEF v
<1>9. IsList(Voided(r, gone), v)
  <2>1. gone \cap Elements(v) = {}
    BY <1>7
  <2> QED BY <1>8, <2>1, VoidedIs
<1>10. Chain(list') = v /\ IsList(list', v)
  BY <1>3, <1>9, ChainIs
<1>11. /\ pkt' \in [Node -> Packets] /\ \A n \in gone : pkt'[n] = Free
       /\ \A n \in Node : n \notin gone => pkt'[n] = pkt[n]
  BY <1>1, <1>3, <1>5 DEF Packets
<1>12. work.cur # Null => pkt'[work.cur] = pkt[work.cur]
  BY <1>1, <1>5, <1>11
<1>13. ListInv'
  <2>1. Elements(v) = {n \in Node : pkt'[n] # Free} \ {work.cur}
    BY <1>1, <1>5, <1>7, <1>11
  <2> QED BY <1>1, <1>10, <1>12, <2>1 DEF ListInv
<1>14. WakeInv'
  <2>1. list'.head # Null => list.head # Null
    <3>1. CASE m = 0
      <4>1. Len(v) = 0
        BY <1>6, <3>1 DEF Keeps, m, v
      <4> QED BY <1>10, <4>1 DEF IsList
    <3>2. CASE m # 0
      BY <1>2, <3>2
    <3> QED BY <3>1, <3>2
  <2> QED BY <2>1 DEF WakeInv, NoLostWakeup
<1> DEFINE f == [i \in 0 .. m |-> EventsIn(pkt', k[i])]
<1>15. ASSUME NEW i \in 0 .. m PROVE Holds(pkt', k[i]) /\ f[i] = EventsIn(pkt', k[i]) /\ f[i] \in Seq(Events)
  <2>1. k[i] \in Seq(Node) /\ Elements(k[i]) = {w[j] : j \in 1 .. i} \ gone
    BY <1>7
  <2>2. ASSUME NEW a \in 1 .. Len(k[i]) PROVE pkt'[k[i][a]] # Free
    <3>1. k[i][a] \in {w[j] : j \in 1 .. i} \ gone
      BY <2>1 DEF Elements
    <3>2. PICK j \in 1 .. i : k[i][a] = w[j] /\ w[j] \notin gone
      BY <3>1
    <3>3. j \in 1 .. m
      BY <1>2
    <3> QED BY <1>2, <1>11, <3>2, <3>3
  <2>3. Holds(pkt', k[i])
    BY <1>11, <2>1, <2>2 DEF Holds
  <2>4. EventsIn(pkt', k[i]) \in Seq(Events)
    <3> DEFINE p == pkt'
               x == k[i]
    <3>1. p \in [Node -> Packets] /\ x \in Seq(Node) /\ \A a \in 1 .. Len(x) : p[x[a]] # Free
      BY <1>11, <2>1, <2>2
    <3> HIDE DEF p, x
    <3>2. EventsIn(p, x) \in Seq(Events)
      BY <3>1, EventsInIs
    <3> QED BY <3>2 DEF p, x
  <2> QED BY <2>3, <2>4
<1>16. ASSUME NEW i \in 1 .. m
       PROVE  f[i] = IF Waiting[i].client = c /\ Waiting[i].kind # "ACCEPT"
                     THEN f[i - 1] ELSE Append(f[i - 1], Waiting[i])
  <2>1. i - 1 \in 0 .. m /\ i \in 0 .. m
    BY <1>2
  <2>2. w[i] \in Node /\ Waiting[i] = pkt[w[i]]
        /\ (w[i] \in gone <=> Waiting[i].client = c /\ Waiting[i].kind # "ACCEPT")
    BY <1>2, <1>4
  <2>3. k[i] = IF w[i] \in gone THEN k[i - 1] ELSE Append(k[i - 1], w[i])
    BY <1>6 DEF Keeps, m
  <2>4. Holds(pkt', k[i - 1]) /\ f[i - 1] = EventsIn(pkt', k[i - 1]) /\ f[i] = EventsIn(pkt', k[i])
    BY <1>15, <2>1
  <2> HIDE DEF f
  <2>5. CASE w[i] \in gone
    BY <2>2, <2>3, <2>4, <2>5
  <2>6. CASE w[i] \notin gone
    <3>1. pkt'[w[i]] = pkt[w[i]] /\ pkt[w[i]] # Free
      BY <1>2, <1>11, <2>2, <2>6
    <3> DEFINE p == pkt'
               x == k[i - 1]
               n == w[i]
    <3>2. Holds(p, x) /\ n \in Node /\ p[n] # Free
      BY <2>2, <2>4, <3>1
    <3> HIDE DEF p, x, n
    <3>3. EventsIn(p, Append(x, n)) = Append(EventsIn(p, x), p[n])
      BY <3>2, EventsAppend
    <3>4. f[i] = Append(f[i - 1], Waiting[i])
      BY <2>2, <2>3, <2>4, <2>6, <3>1, <3>3 DEF p, x, n
    <3> QED BY <2>2, <2>6, <3>4
  <2> QED BY <2>5, <2>6
<1>17. f[0] = << >>
  <2>1. 0 \in 0 .. m /\ k[0] = << >>
    BY <1>2, <1>6 DEF Keeps, m
  <2>2. f[0] = EventsIn(pkt', << >>)
    BY <2>1
  <2>3. EventsIn(pkt', << >>) = << >>
    BY DEF EventsIn
  <2> HIDE DEF f
  <2> QED BY <2>2, <2>3
<1>18. f \in [0 .. m -> Seq(Events)]
  BY <1>15
<1>19. m \in 0 .. m
  BY <1>2
<1>20. Waiting' = f[m]
  <2>1. Waiting' = EventsIn(pkt', v)
    BY <1>10 DEF Waiting
  <2>2. f[m] = EventsIn(pkt', v)
    BY <1>19 DEF v
  <2> QED BY <2>1, <2>2
<1> HIDE DEF f
<1>21. Purges(f, Waiting, c)
  BY <1>2, <1>16, <1>17, <1>18 DEF Purges
<1>22. Waiting' = f[Len(Waiting)]
  BY <1>2, <1>20
<1> QED BY <1>11, <1>12, <1>13, <1>14, <1>21, <1>22


LEMMA DropElements ==
  ASSUME NEW w \in Seq(Node), \A i, j \in 1 .. Len(w) : w[i] = w[j] => i = j, NEW d \in 0 .. Len(w)
  PROVE  Elements(Drop(w, d)) = Elements(w) \ {w[i] : i \in 1 .. d}
<1> DEFINE m == Len(w)
           v == Drop(w, d)
<1>1. m \in Nat /\ d \in Nat /\ d <= m /\ d \in 0 .. m
  OBVIOUS
<1>2. Len(v) = m - d /\ \A i \in 1 .. m - d : v[i] = w[d + i]
  BY <1>1, DropIs
<1> HIDE DEF v, m
<1>3. ASSUME NEW i \in 1 .. m - d PROVE v[i] \in Elements(w) \ {w[j] : j \in 1 .. d}
  <2>1. d + i \in 1 .. m /\ d + i \notin 1 .. d /\ \A j \in 1 .. d : j \in 1 .. m
    BY <1>1
  <2>2. v[i] = w[d + i]
    BY <1>2
  <2>3. \A j \in 1 .. d : w[j] # w[d + i]
    BY <2>1 DEF m
  <2> QED BY <2>1, <2>2, <2>3 DEF Elements, m
<1>4. ASSUME NEW i \in 1 .. m, w[i] \notin {w[j] : j \in 1 .. d} PROVE w[i] \in {v[j] : j \in 1 .. m - d}
  <2>1. i \notin 1 .. d
    BY <1>4
  <2>2. i - d \in 1 .. m - d /\ d + (i - d) = i
    BY <1>1, <2>1
  <2> QED BY <1>2, <2>2
<1>5. Elements(v) = {v[j] : j \in 1 .. m - d} /\ Elements(w) = {w[j] : j \in 1 .. m}
  BY <1>2 DEF Elements, m
<1> QED BY <1>3, <1>4, <1>5 DEF v

(* A prefix of the queue is taken: one event, and polls that are freed. *)
LEMMA TakeIs ==
  ASSUME TypeInv, ListInv, work.cur = Null, NEW r \in Gets, Release(r.l, r.freed), work'.cur = r.n
  PROVE  /\ pkt' \in [Node -> Packets] /\ ListInv' /\ r.n \in Node \cup {Null}
         /\ (r.n = Null => list'.head = Null)
         /\ \E d \in 0 .. Len(Waiting), p \in 0 .. Len(Waiting) :
              /\ p \in 0 .. d /\ (p = 0 => d = Len(Waiting)) /\ (r.n = Null <=> p = 0)
              /\ \A i \in (1 .. d) \ {p} : Waiting[i].kind = "POLL"
              /\ Waiting' = Drop(Waiting, d)
              /\ p # 0 => pkt[r.n] = Waiting[p] /\ pkt'[r.n] = Waiting[p]
<1> DEFINE w == Chain(list)
           m == Len(w)
<1>1. /\ pkt \in [Node -> Packets] /\ IsList(list, w)
      /\ Elements(w) = {n \in Node : pkt[n] # Free} \ {work.cur}
  BY DEF TypeInv, ListInv
<1>2. /\ w \in Seq(Node) /\ m \in Nat
      /\ \A i \in 1 .. m : w[i] \in Node /\ pkt[w[i]] # Free
      /\ Waiting \in Seq(Events) /\ Len(Waiting) = m /\ \A i \in 1 .. m : Waiting[i] = pkt[w[i]]
  BY ListFacts
<1>3. \A i, j \in 1 .. m : w[i] = w[j] => i = j
  BY <1>1 DEF IsList
<1>4. Null \notin Node
  BY Nodes
<1> HIDE DEF w
<1>5. Elements(w) = {n \in Node : pkt[n] # Free}
  BY <1>1, <1>4
<1>6. PICK d, p : Takes(r, w, d, p)
  <2>1. w = Chain(list)
    BY DEF w
  <2> QED BY <1>1, GetsIs
<1>7. /\ d \in 0 .. m /\ p \in 0 .. d /\ (p = 0 => d = m) /\ IsList(r.l, Drop(w, d))
      /\ r.n = (IF p = 0 THEN Null ELSE w[p]) /\ r.freed = {w[i] : i \in (1 .. d) \ {p}}
      /\ \A i \in (1 .. d) \ {p} : pkt[w[i]].kind = "POLL"
  BY <1>6 DEF Takes
<1> DEFINE v == Drop(w, d)
<1>8. Elements(v) = Elements(w) \ {w[i] : i \in 1 .. d}
  BY <1>2, <1>3, <1>7, DropElements
<1>9. v \in Seq(Node) /\ Len(v) = m - d /\ \A i \in 1 .. m - d : v[i] = w[d + i]
  <2>1. d \in Nat /\ d <= m
    BY <1>2, <1>7
  <2> QED BY <1>2, <2>1, DropIs
<1> HIDE DEF v, m
<1>10. list' = Voided(r.l, r.freed) /\ pkt' = [n \in Node |-> IF n \in r.freed THEN Free ELSE pkt[n]]
  BY DEF Release, Voided
<1>11. \A i \in 1 .. d : i \in 1 .. m
  BY <1>2, <1>7
<1>12. r.freed \cap Elements(v) = {}
  BY <1>7, <1>8
<1>13. IsList(list', v) /\ Chain(list') = v
  <2>1. IsList(Voided(r.l, r.freed), v)
    BY <1>7, <1>12, VoidedIs DEF v
  <2> QED BY <1>10, <2>1, ChainIs
<1>14. /\ pkt' \in [Node -> Packets] /\ \A n \in Node : pkt'[n] = IF n \in r.freed THEN Free ELSE pkt[n]
  BY <1>1, <1>10 DEF Packets
<1>15. p # 0 => p \in 1 .. d /\ p \in 1 .. m /\ w[p] \in Node /\ w[p] \notin r.freed
  <2>1. p # 0 => p \in 1 .. d
    BY <1>2, <1>7
  <2> QED BY <1>2, <1>3, <1>7, <1>11, <2>1
<1>16. r.n \in Node \cup {Null} /\ (r.n = Null <=> p = 0)
  BY <1>4, <1>7, <1>15
<1>17. p # 0 => pkt[r.n] = Waiting[p] /\ pkt'[r.n] = Waiting[p] /\ pkt[r.n] # Free
  BY <1>2, <1>7, <1>14, <1>15
<1>18. ListInv'
  <2>1. Elements(v) = {n \in Node : pkt'[n] # Free} \ {r.n}
    <3>1. {w[i] : i \in 1 .. d} = IF p = 0 THEN r.freed ELSE r.freed \cup {w[p]}
      <4>1. CASE p = 0
        <5>1. (1 .. d) \ {p} = 1 .. d
          BY <1>7, <4>1
        <5> QED BY <1>7, <4>1, <5>1
      <4>2. CASE p # 0
        <5>1. 1 .. d = ((1 .. d) \ {p}) \cup {p}
          BY <1>15, <4>2
        <5> QED BY <1>7, <4>2, <5>1
      <4> QED BY <4>1, <4>2
    <3>2. CASE p = 0
      BY <1>4, <1>5, <1>7, <1>8, <1>14, <3>1, <3>2
    <3>3. CASE p # 0
      BY <1>5, <1>7, <1>8, <1>14, <3>1, <3>3
    <3> QED BY <3>2, <3>3
  <2>2. r.n # Null => pkt'[r.n] # Free
    BY <1>16, <1>17
  <2> QED BY <1>13, <2>1, <2>2 DEF ListInv
<1>19. r.n = Null => list'.head = Null
  <2>1. p = 0 => Len(v) = 0
    BY <1>2, <1>7, <1>9
  <2> QED BY <1>13, <1>16, <2>1 DEF IsList
<1>20. Waiting' = Drop(Waiting, d)
  <2> DEFINE q == Waiting
             x == Drop(q, d)
             y == EventsIn(pkt', v)
             s == pkt'
  <2>1. x \in Seq(Events) /\ Len(x) = m - d /\ \A i \in 1 .. m - d : x[i] = q[d + i]
    <3>1. q \in Seq(Events) /\ Len(q) = m /\ d \in Nat /\ d <= m
      BY <1>2, <1>7
    <3> HIDE DEF q
    <3> QED BY <3>1, DropIs
  <2>2. ASSUME NEW i \in 1 .. m - d PROVE s[v[i]] = x[i] /\ s[v[i]] # Free
    <3>1. d + i \in 1 .. m /\ d + i \notin 1 .. d
      BY <1>2, <1>7
    <3>2. w[d + i] \notin r.freed
      BY <1>3, <1>7, <1>11, <3>1 DEF m
    <3>3. v[i] = w[d + i] /\ x[i] = q[d + i] /\ q[d + i] = pkt[w[d + i]] /\ pkt[w[d + i]] # Free
          /\ w[d + i] \in Node
      <4> HIDE DEF x
      <4> QED BY <1>2, <1>9, <2>1, <3>1
    <3> HIDE DEF x, q
    <3> QED BY <1>14, <3>2, <3>3
  <2>3. s \in [Node -> Packets] /\ \A i \in 1 .. Len(v) : s[v[i]] # Free
    BY <1>9, <1>14, <2>2
  <2> HIDE DEF x, q, s
  <2>4. y \in Seq(Events) /\ Len(y) = Len(v) /\ \A i \in 1 .. Len(v) : y[i] = s[v[i]]
    <3>1. EventsIn(s, v) \in Seq(Events) /\ Len(EventsIn(s, v)) = Len(v)
          /\ \A i \in 1 .. Len(v) : EventsIn(s, v)[i] = s[v[i]]
      BY <1>9, <2>3, EventsInIs
    <3>2. y = EventsIn(s, v)
      BY DEF s
    <3> HIDE DEF y
    <3> QED BY <3>1, <3>2
  <2> HIDE DEF y
  <2>5. y = x
    <3>1. Len(y) = Len(x) /\ \A i \in 1 .. Len(y) : y[i] = x[i]
      BY <1>9, <2>1, <2>2, <2>4
    <3> QED BY <2>1, <2>4, <3>1, SeqEqual
  <2>6. Waiting' = y
    BY <1>13 DEF Waiting, y
  <2> QED BY <2>5, <2>6 DEF x, q
<1>21. /\ d \in 0 .. Len(Waiting) /\ p \in 0 .. Len(Waiting)
       /\ (p = 0 => d = Len(Waiting)) /\ \A i \in (1 .. d) \ {p} : Waiting[i].kind = "POLL"
  BY <1>2, <1>7, <1>11
<1> QED BY <1>7, <1>14, <1>16, <1>17, <1>18, <1>19, <1>20, <1>21

(* The packet that was handled is freed; it was not in the list. *)
LEMMA FreeIs ==
  ASSUME TypeInv, ListInv, work.cur # Null, Release(list, {work.cur}), work'.cur = Null
  PROVE  /\ pkt' \in [Node -> Packets] /\ ListInv' /\ Waiting' = Waiting
         /\ list'.head = list.head /\ list'.size = list.size
<1> DEFINE w == Chain(list)
           m == Len(w)
           n == work.cur
<1>1. /\ pkt \in [Node -> Packets] /\ IsList(list, w) /\ work.cur \in Node
      /\ Elements(w) = {x \in Node : pkt[x] # Free} \ {work.cur}
  BY DEF TypeInv, ListInv, WorkType
<1>2. w \in Seq(Node) /\ \A i \in 1 .. m : w[i] \in Node /\ pkt[w[i]] # Free /\ w[i] # work.cur
  BY ListFacts
<1> HIDE DEF w
<1>3. list' = Voided(list, {work.cur}) /\ pkt' = [x \in Node |-> IF x \in {work.cur} THEN Free ELSE pkt[x]]
  BY DEF Release, Voided
<1>4. {work.cur} \cap Elements(w) = {}
  BY <1>1
<1>5. IsList(list', w) /\ Chain(list') = w
  <2>1. IsList(Voided(list, {work.cur}), w)
    BY <1>1, <1>4, VoidedIs
  <2> QED BY <1>3, <2>1, ChainIs
<1>6. pkt' \in [Node -> Packets] /\ \A x \in Node : pkt'[x] = IF x = work.cur THEN Free ELSE pkt[x]
  BY <1>1, <1>3 DEF Packets
<1>7. Elements(w) = {x \in Node : pkt'[x] # Free} \ {Null}
  BY <1>1, <1>6, Nodes
<1>8. ListInv'
  BY <1>5, <1>7 DEF ListInv
<1>9. Waiting' = Waiting
  <2>1. \A i \in 1 .. Len(w) : pkt'[w[i]] = pkt[w[i]]
    BY <1>2, <1>6
  <2>2. EventsIn(pkt', w) = EventsIn(pkt, w)
    BY <2>1 DEF EventsIn
  <2> QED BY <1>5, <2>2 DEF Waiting, w
<1>10. list'.head = list.head /\ list'.size = list.size
  BY <1>1, <1>5 DEF IsList
<1> QED BY <1>6, <1>8, <1>9, <1>10


-----------------------------------------------------------------------------
(* The steps.                                                              *)

\* What holds of the events, of those handled, and of clients.
OrderlyInv(q, w, p, clients) ==
  /\ Ordered(q, Heard(w.told, clients)) /\ Known(q, Heard(w.told, clients), clients)
  /\ w.cur # Null => p[w.cur].client \in Heard(w.told, clients)

LEMMA PutKeeps ==
  ASSUME TypeInv, ListInv, WakeInv, AcceptInv, NEW kind \in {"ACCEPT", "DATA", "POLL"}, NEW c \in Client,
         Enqueue("back", kind, c), client[c].st # "new"
  PROVE  OrderlyInv(Waiting', work', pkt', client)
<1> DEFINE e == [kind |-> kind, client |-> c]
           q == Waiting
           told == Heard(work.told, client)
<1>1. /\ work'.told = work.told /\ work'.cur = work.cur
      /\ (work.cur # Null => pkt'[work.cur] = pkt[work.cur])
      /\ (Waiting' = q \/ Waiting' = Put("back", q, e))
  BY EnqueueIs
<1>2. Put("back", q, e) = Append(q, e)
  BY DEF Put
<1>3. /\ Ordered(q, told) /\ Known(q, told, client)
      /\ (work.cur # Null => pkt[work.cur].client \in told)
  BY DEF AcceptInv
<1>4. q \in Seq(Events) /\ e \in Events /\ e.client = c
  BY ListFacts DEF Events
<1>5. Announced(q, told, Len(q), e.client)
  BY <1>3, <1>4 DEF Known
<1> HIDE DEF q, e, told
<1>6. /\ Ordered(Append(q, e), told)
      /\ \A x : Announced(q, told, Len(q), x)
                => Announced(Append(q, e), told, Len(Append(q, e)), x)
  BY <1>3, <1>4, <1>5, AppendOrdered
<1>7. Known(Append(q, e), told, client)
  BY <1>3, <1>6 DEF Known
<1>8. Ordered(Waiting', told) /\ Known(Waiting', told, client)
  BY <1>1, <1>2, <1>3, <1>6, <1>7
<1> QED BY <1>1, <1>3, <1>8 DEF OrderlyInv, told

LEMMA PurgeKeeps ==
  ASSUME TypeInv, ListInv, WakeInv, AcceptInv, NEW c \in Client, Purge(c), UNCHANGED work
  PROVE  OrderlyInv(Waiting', work', pkt', client)
<1> DEFINE q == Waiting
           told == Heard(work.told, client)
<1>1. PICK k : Purges(k, q, c) /\ Waiting' = k[Len(q)]
  BY PurgeIs
<1>2. work.cur # Null => pkt'[work.cur] = pkt[work.cur]
  BY PurgeIs
<1>3. /\ Ordered(q, told) /\ Known(q, told, client)
      /\ (work.cur # Null => pkt[work.cur].client \in told)
  BY DEF AcceptInv
<1>4. q \in Seq(Events)
  BY ListFacts
<1> HIDE DEF q, told
<1> DEFINE x == k[Len(q)]
<1>5. Ordered(x, told)
      /\ \A y : Announced(q, told, Len(q), y) => Announced(x, told, Len(x), y)
  BY <1>1, <1>3, <1>4, PurgeOrdered
<1> HIDE DEF x
<1>6. Known(x, told, client)
  BY <1>3, <1>5 DEF Known
<1>7. Waiting' = x
  BY <1>1 DEF x
<1> QED BY <1>2, <1>3, <1>5, <1>6, <1>7 DEF OrderlyInv, told

LEMMA TakeKeeps ==
  ASSUME TypeInv, ListInv, WakeInv, AcceptInv, work.cur = Null, NEW r \in Gets,
         Release(r.l, r.freed), work'.cur = r.n, work'.told = Told(work, r.n)
  PROVE  OrderlyInv(Waiting', work', pkt', client)
<1> DEFINE q == Waiting
           told == Heard(work.told, client)
           new == Heard(work'.told, client)
<1>1. PICK d \in 0 .. Len(q), p \in 0 .. Len(q) :
        /\ p \in 0 .. d /\ (p = 0 => d = Len(q)) /\ (r.n = Null <=> p = 0)
        /\ \A i \in (1 .. d) \ {p} : q[i].kind = "POLL"
        /\ Waiting' = Drop(q, d)
        /\ p # 0 => pkt[r.n] = q[p] /\ pkt'[r.n] = q[p]
  BY TakeIs
<1>2. Ordered(q, told) /\ Known(q, told, client)
  BY DEF AcceptInv
<1>3. q \in Seq(Events)
  BY ListFacts
<1>4. new = ToldAfter(told, q, p)
  <2>1. work'.told = IF p # 0 /\ q[p].kind = "ACCEPT" THEN work.told \cup {q[p].client} ELSE work.told
    BY <1>1 DEF Told
  <2> QED BY <2>1 DEF ToldAfter, Heard
<1> HIDE DEF q, told, new
<1> DEFINE x == Drop(q, d)
<1>5. /\ Ordered(x, new) /\ (p # 0 => q[p].client \in new)
      /\ \A c : Announced(q, told, Len(q), c) => Announced(x, new, Len(x), c)
  <2>1. LET y == Drop(q, d)
            after == ToldAfter(told, q, p)
        IN  /\ Ordered(y, after) /\ (p # 0 => q[p].client \in after)
            /\ \A c : Announced(q, told, Len(q), c) => Announced(y, after, Len(y), c)
    BY <1>1, <1>2, <1>3, DropOrdered
  <2> QED BY <1>4, <2>1
<1> HIDE DEF x
<1>6. Known(x, new, client)
  BY <1>2, <1>5 DEF Known
<1>7. Waiting' = x
  BY <1>1 DEF x
<1>8. work'.cur # Null => pkt'[work'.cur].client \in new
  BY <1>1, <1>5
<1> QED BY <1>5, <1>6, <1>7, <1>8 DEF OrderlyInv, new

\* The clients in a step of lwIP's.
LEMMA SpendIs ==
  ASSUME TypeInv, NEW c \in Client, NEW st \in {"bound", "gone", "refused"}, Spend(c, st)
  PROVE  /\ client' \in [Client -> [st : {"new", "bound", "gone", "refused"}, left : Int]]
         /\ client'[c].st = st /\ \A x \in Client : x # c => client'[x] = client[x]
<1>1. client \in [Client -> [st : {"new", "bound", "gone", "refused"}, left : Int]]
  BY DEF TypeInv
<1>2. client' = [client EXCEPT ![c] = [st |-> st, left |-> client[c].left - 1]]
  BY DEF Spend
<1>3. [st |-> st, left |-> client[c].left - 1] \in [st : {"new", "bound", "gone", "refused"}, left : Int]
  BY <1>1
<1> QED BY <1>1, <1>2, <1>3


LEMMA ToldType ==
  ASSUME TypeInv, NEW n \in Node \cup {Null}
  PROVE  Told(work, n) \in SUBSET Client
<1>1. work.told \in SUBSET Client /\ pkt \in [Node -> Packets]
  BY DEF TypeInv, WorkType
<1>2. CASE n # Null /\ pkt[n].kind = "ACCEPT"
  <2>1. pkt[n] \in Packets /\ pkt[n] # Free
    BY <1>1, <1>2 DEF Free
  <2>2. pkt[n].client \in Client
    BY <2>1 DEF Packets, Events
  <2> QED BY <1>1, <1>2, <2>2 DEF Told
<1>3. CASE ~(n # Null /\ pkt[n].kind = "ACCEPT")
  BY <1>1, <1>3 DEF Told
<1> QED BY <1>2, <1>3

(* The function that leaves events in the list is scheduled again. *)
LEMMA AgainIs ==
  ASSUME NEW w \in WorkType, NEW l
  PROVE  /\ Again(w, l) \in WorkType /\ Again(w, l).plat = w.plat /\ Again(w, l).at = w.at
         /\ Again(w, l).cur = w.cur /\ Again(w, l).told = w.told
         /\ w.plat = "coop" /\ l.size > 0 => Again(w, l).fns > 0
<1>1. CASE w.plat = "coop" /\ l.size > 0
  <2>1. Again(w, l) = Schedule(w)
    BY <1>1 DEF Again
  <2> QED BY <2>1, ScheduleIs
<1>2. CASE ~(w.plat = "coop" /\ l.size > 0)
  <2>1. Again(w, l) = w
    BY <1>2 DEF Again
  <2> QED BY <1>2, <2>1
<1> QED BY <1>1, <1>2

LEMMA InitInv == Init => QueueInv
<1> SUFFICES ASSUME Init PROVE QueueInv
  OBVIOUS
<1> USE DEF Init
<1>1. TypeInv
  <2>1. pkt \in [Node -> Packets]
    BY DEF Packets
  <2>2. work \in WorkType
    <3>1. work \in [plat : Platforms, at : {"idle"}, cur : {Null}, note : {FALSE}, fns : {0}, told : {{}}]
      OBVIOUS
    <3>2. FALSE \in BOOLEAN /\ 0 \in Nat /\ {} \in SUBSET Client
      OBVIOUS
    <3> QED BY <3>1, <3>2 DEF WorkType
  <2>3. client \in [Client -> [st : {"new", "bound", "gone", "refused"}, left : Int]]
    BY ConstantsAssumption
  <2> QED BY <2>1, <2>2, <2>3 DEF TypeInv
<1>2. IsList(list, << >>)
  <2>1. list \in ListType /\ list.size = 0 /\ list.head = Null /\ list.tail = HeadLink
    BY DEF Empty, ListType, Links
  <2> QED BY <2>1 DEF IsList
<1>3. Chain(list) = << >>
  BY <1>2, ChainIs
<1>4. work.cur = Null /\ work.at = "idle" /\ list.head = Null /\ lwip.at = "idle"
      /\ \A c \in Client : client[c].st = "new"
  BY DEF Empty
<1>5. ListInv
  <2>1. Elements(<< >>) = {}
    BY DEF Elements
  <2>2. \A n \in Node : pkt[n] = Free
    OBVIOUS
  <2> QED BY <1>2, <1>3, <1>4, <2>1, <2>2 DEF ListInv
<1>6. WakeInv
  BY <1>4 DEF WakeInv, NoLostWakeup
<1>7. AcceptInv
  <2>1. Len(Waiting) = 0 /\ 1 .. 0 = {}
    BY <1>3 DEF Waiting, EventsIn
  <2>2. Ordered(Waiting, Heard(work.told, client))
    BY <2>1 DEF Ordered
  <2> QED BY <1>4, <2>2 DEF AcceptInv, Known
<1>8. RefusedInv
  <2>1. work.told = {} /\ \A n \in Node : pkt[n] = Free
    OBVIOUS
  <2>2. \A c \in Client : Untold(pkt, work.told, c)
    BY <2>1 DEF Untold, Has
  <2> QED BY <1>4, <2>2 DEF RefusedInv, RefusedFor
<1> QED BY <1>1, <1>5, <1>6, <1>7, <1>8 DEF QueueInv

\* Ordered and Known for a larger set of clients.
LEMMA MoreHeard ==
  ASSUME NEW q, NEW told, NEW more, told \subseteq more, NEW clients, NEW after,
         Ordered(q, told), Known(q, told, clients),
         \A c \in Client : after[c].st # "new" => clients[c].st # "new" \/ c \in more
  PROVE  Ordered(q, more) /\ Known(q, more, after)
<1>1. \A i, c : Announced(q, told, i, c) => Announced(q, more, i, c)
  BY DEF Announced
<1>2. \A i, c : c \in more => Announced(q, more, i, c)
  BY DEF Announced
<1> QED BY <1>1, <1>2 DEF Ordered, Known

\* AcceptInv from what was shown with the clients before the step.
LEMMA AcceptStep ==
  ASSUME OrderlyInv(Waiting', work', pkt', client),
         \A c \in Client : client'[c].st # "new" => client[c].st # "new" \/ client'[c].st = "refused",
         \A c \in Client : client[c].st = "refused" => client'[c].st = "refused",
         lwip'.at # "idle" => client'[lwip'.client].st # "new"
  PROVE  AcceptInv'
<1> DEFINE told == Heard(work'.told, client)
           more == Heard(work'.told, client')
           q == Waiting'
<1>1. told \subseteq more
  BY DEF Heard
<1>2. \A c \in Client : client'[c].st # "new" => client[c].st # "new" \/ c \in more
  BY DEF Heard
<1>3. /\ Ordered(q, told) /\ Known(q, told, client)
      /\ work'.cur # Null => pkt'[work'.cur].client \in told
  BY DEF OrderlyInv
<1> HIDE DEF told, more, q
<1>4. Ordered(q, more) /\ Known(q, more, client')
  BY <1>1, <1>2, <1>3, MoreHeard
<1>5. work'.cur # Null => pkt'[work'.cur].client \in more
  BY <1>1, <1>3
<1> QED BY <1>4, <1>5 DEF AcceptInv, more, q

\* A step that puts nothing in, and tells of nobody but by an ACCEPT.
LEMMA RefusedFewer ==
  ASSUME RefusedInv, NEW p, NEW l, NEW told, NEW clients,
         \A n \in Node : p[n] = Free \/ p[n] = pkt[n],
         \A c \in told : c \in work.told \/ \E n \in Node : Has(pkt, n, c) /\ pkt[n].kind = "ACCEPT",
         \A c \in Client : /\ clients[c].st = "new" => client[c].st = "new"
                           /\ clients[c].st = "refused" => client[c].st \in {"new", "refused"},
         \A c \in Client : l.at # "idle" /\ l.client = c /\ clients[c].st = "refused"
                          => l = lwip \/ client[c].st = "new"
  PROVE  RefusedFor(p, l, told, clients)
<1>1. \A n \in Node, c \in Client : Has(p, n, c) => Has(pkt, n, c) /\ p[n] = pkt[n]
  BY DEF Has
<1>2. ASSUME NEW c \in Client, Untold(pkt, work.told, c) PROVE Untold(p, told, c)
  BY <1>1, <1>2 DEF Untold
<1>3. ASSUME NEW c \in Client, OneError(pkt, lwip, work.told, c),
             l.at # "idle" /\ l.client = c => l = lwip
      PROVE  OneError(p, l, told, c)
  BY <1>1, <1>3 DEF OneError
<1>4. ASSUME NEW c \in Client, Untold(p, told, c) PROVE OneError(p, l, told, c)
  BY <1>4 DEF Untold, OneError
<1>5. ASSUME NEW c \in Client, clients[c].st = "refused" PROVE OneError(p, l, told, c)
  <2>1. CASE client[c].st = "new"
    <3>1. Untold(pkt, work.told, c)
      BY <2>1 DEF RefusedInv, RefusedFor
    <3> QED BY <1>2, <1>4, <3>1
  <2>2. CASE client[c].st = "refused" /\ (l.at # "idle" /\ l.client = c => l = lwip)
    <3>1. OneError(pkt, lwip, work.told, c)
      BY <2>2 DEF RefusedInv, RefusedFor
    <3> QED BY <1>3, <2>2, <3>1
  <2> QED BY <1>5, <2>1, <2>2
<1>6. ASSUME NEW c \in Client, clients[c].st = "new" PROVE Untold(p, told, c)
  <2>1. client[c].st = "new"
    BY <1>6
  <2>2. Untold(pkt, work.told, c)
    BY <2>1 DEF RefusedInv, RefusedFor
  <2> QED BY <1>2, <2>2
<1> QED BY <1>5, <1>6 DEF RefusedFor

\* A step that puts an event of c in, or finds no packet for it.
LEMMA RefusedPut ==
  ASSUME TypeInv, RefusedInv, NEW end, NEW kind, NEW c \in Client, Enqueue(end, kind, c),
         NEW l, NEW clients,
         \A x \in Client : x # c => clients[x].st = client[x].st,
         clients[c].st # "new",
         clients[c].st = "refused" => client[c].st = "refused" /\ kind # "ACCEPT"
                                     /\ lwip.at # "idle" /\ lwip.client = c,
         l.at = "idle"
  PROVE  RefusedFor(pkt', l, work.told, clients)
<1>1. pkt' = pkt \/ \E n \in Node : /\ pkt[n] = Free
                                   /\ pkt' = [pkt EXCEPT ![n] = [kind |-> kind, client |-> c]]
  <2>1. CASE Fresh = {}
    BY <2>1 DEF Enqueue
  <2>2. CASE Fresh # {}
    <3> DEFINE n == CHOOSE x \in Fresh : TRUE
    <3>1. n \in Node /\ pkt[n] = Free
      BY <2>2 DEF Fresh
    <3>2. pkt' = [pkt EXCEPT ![n] = [kind |-> kind, client |-> c]]
      BY <2>2 DEF Enqueue
    <3> QED BY <3>1, <3>2
  <2> QED BY <2>1, <2>2
<1>2. pkt \in [Node -> Packets]
  BY DEF TypeInv
<1>3. \A n \in Node, x \in Client : x # c => (Has(pkt', n, x) => Has(pkt, n, x) /\ pkt'[n] = pkt[n])
  BY <1>1, <1>2 DEF Has
<1>4. ASSUME NEW x \in Client, x # c
      PROVE  /\ clients[x].st = "new" => Untold(pkt', work.told, x)
             /\ clients[x].st = "refused" => OneError(pkt', l, work.told, x)
  <2>1. /\ client[x].st = "new" => Untold(pkt, work.told, x)
        /\ client[x].st = "refused" => OneError(pkt, lwip, work.told, x)
    BY DEF RefusedInv, RefusedFor
  <2>2. Untold(pkt, work.told, x) => Untold(pkt', work.told, x)
    BY <1>3, <1>4 DEF Untold
  <2>3. OneError(pkt, lwip, work.told, x) => OneError(pkt', l, work.told, x)
    BY <1>3, <1>4 DEF OneError
  <2> QED BY <1>4, <2>1, <2>2, <2>3
<1>5. ASSUME clients[c].st = "refused" PROVE OneError(pkt', l, work.told, c)
  <2>1. OneError(pkt, lwip, work.told, c) /\ lwip.at # "idle" /\ lwip.client = c /\ kind # "ACCEPT"
    BY <1>5 DEF RefusedInv, RefusedFor
  <2>2. c \notin work.told /\ \A n \in Node : ~Has(pkt, n, c)
    BY <2>1 DEF OneError
  <2>3. CASE pkt' = pkt
    BY <2>2, <2>3 DEF OneError
  <2>4. ASSUME NEW n \in Node, pkt' = [pkt EXCEPT ![n] = [kind |-> kind, client |-> c]]
        PROVE  OneError(pkt', l, work.told, c)
    <3>1. \A m \in Node : Has(pkt', m, c) => m = n
      BY <1>2, <2>2, <2>4 DEF Has
    <3>2. pkt'[n].kind # "ACCEPT"
      BY <1>2, <2>1, <2>4
    <3> QED BY <2>2, <3>1, <3>2 DEF OneError
  <2> QED BY <1>1, <2>3, <2>4
<1> QED BY <1>4, <1>5 DEF RefusedFor

LEMMA AnnounceStep ==
  ASSUME QueueInv, NEW c \in Client, client[c].st = "new", lwip.at = "idle", Fresh # {},
         Enqueue("front", "ACCEPT", c), Spend(c, "bound"), UNCHANGED lwip
  PROVE  QueueInv'
<1> USE DEF QueueInv
<1>1. Enqueue("front", "ACCEPT", c) /\ Spend(c, "bound") /\ UNCHANGED lwip /\ lwip.at = "idle"
      /\ Fresh # {}
  OBVIOUS
<1> DEFINE q == Waiting
           a == Accept(c)
           x == <<a>> \o q
           told == Heard(work.told, client)
<1>2. /\ pkt' \in [Node -> Packets] /\ work' \in WorkType /\ ListInv' /\ WakeInv'
      /\ work'.told = work.told /\ work'.cur = work.cur
      /\ (work.cur # Null => pkt'[work.cur] = pkt[work.cur])
      /\ Waiting' = x
  <2>1. "ACCEPT" \in {"ACCEPT", "DATA", "POLL"}
    OBVIOUS
  <2>2. a = [kind |-> "ACCEPT", client |-> c]
    BY DEF Accept
  <2>3. Put("front", q, a) = x
    BY DEF Put
  <2> HIDE DEF q, a, x
  <2> QED BY <1>1, <2>1, <2>2, <2>3, EnqueueIs DEF q
<1>3. /\ client' \in [Client -> [st : {"new", "bound", "gone", "refused"}, left : Int]]
      /\ client'[c].st = "bound" /\ \A y \in Client : y # c => client'[y] = client[y]
  BY <1>1, SpendIs
<1>4. TypeInv'
  BY <1>1, <1>2, <1>3 DEF TypeInv
<1>5. /\ Ordered(q, told) /\ Known(q, told, client) /\ q \in Seq(Events)
      /\ (work.cur # Null => pkt[work.cur].client \in told)
  BY ListFacts DEF AcceptInv
<1>6. told = Heard(work'.told, client')
  BY <1>2, <1>3 DEF Heard
<1> HIDE DEF q, told
<1>7. /\ Ordered(x, told) /\ Announced(x, told, Len(x), c)
      /\ \A y : Announced(q, told, Len(q), y) => Announced(x, told, Len(x), y)
  BY <1>5, PrependOrdered
<1> HIDE DEF x
<1>8. Known(x, told, client')
  BY <1>3, <1>5, <1>7 DEF Known
<1>9. AcceptInv'
  BY <1>1, <1>2, <1>5, <1>6, <1>7, <1>8 DEF AcceptInv
<1>10. RefusedInv'
  <2>1. \A y \in Client : y # c => client'[y].st = client[y].st
    BY <1>3
  <2>2. RefusedFor(pkt', lwip', work.told, client')
    BY <1>1, <1>3, <2>1, RefusedPut
  <2> QED BY <1>2, <2>2 DEF RefusedInv
<1> QED BY <1>2, <1>4, <1>9, <1>10

\* The client that cannot be announced: its ERROR is on the way.
LEMMA RefuseStep ==
  ASSUME QueueInv, NEW c \in Client, client[c].st = "new", lwip.at = "idle",
         Spend(c, "refused"), lwip' = [at |-> "error", client |-> c], UNCHANGED <<list, pkt, work>>
  PROVE  QueueInv'
<1> USE DEF QueueInv
<1>1. ListInv' /\ WakeInv' /\ Waiting' = Waiting
  BY DEF ListInv, WakeInv, NoLostWakeup, Waiting
<1>2. OrderlyInv(Waiting', work', pkt', client)
  BY <1>1 DEF OrderlyInv, AcceptInv
<1>3. /\ client' \in [Client -> [st : {"new", "bound", "gone", "refused"}, left : Int]]
      /\ client'[c].st = "refused" /\ \A y \in Client : y # c => client'[y] = client[y]
  BY SpendIs
<1>4. TypeInv'
  BY <1>3 DEF TypeInv
<1>5. AcceptInv'
  BY <1>2, <1>3, AcceptStep
<1>6. RefusedInv'
  <2>1. \A y \in Client : /\ client'[y].st = "new" => client[y].st = "new"
                          /\ client'[y].st = "refused" => client[y].st \in {"new", "refused"}
    BY <1>3
  <2>2. \A y \in Client : lwip'.at # "idle" /\ lwip'.client = y /\ client'[y].st = "refused"
                            => lwip' = lwip \/ client[y].st = "new"
    OBVIOUS
  <2>3. RefusedFor(pkt', lwip', work'.told, client')
    BY <2>1, <2>2, RefusedFewer
  <2> QED BY <2>3 DEF RefusedInv
<1> QED BY <1>1, <1>4, <1>5, <1>6

LEMMA TcpAcceptStep == ASSUME QueueInv, NEW c \in Client, TcpAccept(c) PROVE QueueInv'
BY AnnounceStep, RefuseStep DEF TcpAccept

LEMMA TcpEventStep == ASSUME QueueInv, NEW c \in Client, TcpEvent(c) PROVE QueueInv'
<1> USE DEF QueueInv
<1>1. Enqueue("back", "DATA", c) /\ Spend(c, "bound") /\ UNCHANGED lwip /\ lwip.at = "idle"
      /\ client[c].st = "bound"
  BY DEF TcpEvent, CanSend
<1>2. /\ pkt' \in [Node -> Packets] /\ work' \in WorkType /\ ListInv' /\ WakeInv'
  BY <1>1, EnqueueIs
<1>3. OrderlyInv(Waiting', work', pkt', client)
  BY <1>1, PutKeeps
<1>4. /\ client' \in [Client -> [st : {"new", "bound", "gone", "refused"}, left : Int]]
      /\ client'[c].st = "bound" /\ \A y \in Client : y # c => client'[y] = client[y]
  BY <1>1, SpendIs
<1>5. TypeInv'
  BY <1>1, <1>2, <1>4 DEF TypeInv
<1>6. AcceptInv'
  BY <1>1, <1>3, <1>4, AcceptStep
<1>7. RefusedInv'
  <2>1. RefusedFor(pkt', lwip', work.told, client')
    BY <1>1, <1>4, RefusedPut
  <2>2. work'.told = work.told
    BY <1>1, EnqueueIs
  <2> QED BY <2>1, <2>2 DEF RefusedInv
<1> QED BY <1>2, <1>5, <1>6, <1>7

LEMMA TcpPollStep == ASSUME QueueInv, NEW c \in Client, TcpPoll(c) PROVE QueueInv'
<1> USE DEF QueueInv
<1>1. Spend(c, "bound") /\ UNCHANGED <<list, pkt, work>> /\ lwip.at = "idle"
      /\ client[c].st = "bound" /\ (lwip' = lwip \/ lwip' = [at |-> "poll", client |-> c])
  BY DEF TcpPoll, CanSend
<1>2. ListInv' /\ WakeInv' /\ Waiting' = Waiting
  BY <1>1 DEF ListInv, WakeInv, NoLostWakeup, Waiting
<1>3. OrderlyInv(Waiting', work', pkt', client)
  BY <1>1, <1>2 DEF OrderlyInv, AcceptInv
<1>4. /\ client' \in [Client -> [st : {"new", "bound", "gone", "refused"}, left : Int]]
      /\ client'[c].st = "bound" /\ \A y \in Client : y # c => client'[y] = client[y]
  BY <1>1, SpendIs
<1>5. lwip' \in {[at |-> "idle"]} \cup [at : {"poll", "error"}, client : Client]
  BY <1>1 DEF TypeInv
<1>6. TypeInv'
  BY <1>1, <1>4, <1>5 DEF TypeInv
<1>7. lwip'.at # "idle" => client'[lwip'.client].st # "new"
  BY <1>1, <1>4
<1>8. AcceptInv'
  BY <1>1, <1>3, <1>4, <1>7, AcceptStep
<1>9. RefusedInv'
  <2>1. /\ \A y \in Client : /\ client'[y].st = "new" => client[y].st = "new"
                             /\ client'[y].st = "refused" => client[y].st \in {"new", "refused"}
        /\ \A y \in Client : lwip'.at # "idle" /\ lwip'.client = y /\ client'[y].st = "refused"
                               => lwip' = lwip \/ client[y].st = "new"
    BY <1>1, <1>4
  <2>2. RefusedFor(pkt', lwip', work'.told, client')
    BY <1>1, <2>1, RefusedFewer
  <2> QED BY <2>2 DEF RefusedInv
<1> QED BY <1>2, <1>6, <1>8, <1>9

LEMMA TcpErrorStep == ASSUME QueueInv, NEW c \in Client, TcpError(c) PROVE QueueInv'
<1> USE DEF QueueInv
<1>1. Purge(c) /\ Spend(c, "gone") /\ UNCHANGED work /\ client[c].st = "bound"
      /\ lwip' = [at |-> "error", client |-> c]
  BY DEF TcpError, CanSend
<1>2. pkt' \in [Node -> Packets] /\ ListInv' /\ WakeInv'
  BY <1>1, PurgeIs
<1>3. OrderlyInv(Waiting', work', pkt', client)
  BY <1>1, PurgeKeeps
<1>4. /\ client' \in [Client -> [st : {"new", "bound", "gone", "refused"}, left : Int]]
      /\ client'[c].st = "gone" /\ \A y \in Client : y # c => client'[y] = client[y]
  BY <1>1, SpendIs
<1>5. TypeInv'
  BY <1>1, <1>2, <1>4 DEF TypeInv
<1>6. lwip'.at # "idle" => client'[lwip'.client].st # "new"
  BY <1>1, <1>4
<1>7. AcceptInv'
  BY <1>1, <1>3, <1>4, <1>6, AcceptStep
<1>8. RefusedInv'
  <2>1. /\ \A y \in Client : /\ client'[y].st = "new" => client[y].st = "new"
                             /\ client'[y].st = "refused" => client[y].st \in {"new", "refused"}
        /\ \A y \in Client : lwip'.at # "idle" /\ lwip'.client = y /\ client'[y].st = "refused"
                               => lwip' = lwip \/ client[y].st = "new"
    BY <1>1, <1>4
  <2>2. \A n \in Node : pkt'[n] = Free \/ pkt'[n] = pkt[n]
    BY <1>1 DEF Purge, Release
  <2>3. RefusedFor(pkt', lwip', work'.told, client')
    BY <1>1, <2>1, <2>2, RefusedFewer
  <2> QED BY <2>3 DEF RefusedInv
<1> QED BY <1>2, <1>5, <1>7, <1>8

LEMMA SecondSectionStep == ASSUME QueueInv, SecondSection PROVE QueueInv'
<1> USE DEF QueueInv
<1> DEFINE c == lwip.client
           kind == IF lwip.at = "poll" THEN "POLL" ELSE "DATA"
<1>1. Enqueue("back", kind, c) /\ lwip' = [at |-> "idle"] /\ UNCHANGED client /\ lwip.at # "idle"
  BY DEF SecondSection
<1>2. c \in Client /\ kind \in {"ACCEPT", "DATA", "POLL"}
  BY <1>1 DEF TypeInv
<1>3. client[c].st # "new"
  BY <1>1 DEF AcceptInv
<1> HIDE DEF c, kind
<1>4. /\ pkt' \in [Node -> Packets] /\ work' \in WorkType /\ ListInv' /\ WakeInv'
  BY <1>1, <1>2, EnqueueIs
<1>5. OrderlyInv(Waiting', work', pkt', client)
  BY <1>1, <1>2, <1>3, PutKeeps
<1>6. TypeInv'
  BY <1>1, <1>4 DEF TypeInv
<1>7. AcceptInv'
  BY <1>1, <1>5, AcceptStep
<1>8. RefusedInv'
  <2>1. kind # "ACCEPT" /\ lwip.client = c
    BY DEF kind, c
  <2>2. RefusedFor(pkt', lwip', work.told, client')
    BY <1>1, <1>2, <1>3, <2>1, RefusedPut
  <2>3. work'.told = work.told
    BY <1>1, <1>2, EnqueueIs
  <2> QED BY <2>2, <2>3 DEF RefusedInv
<1> QED BY <1>4, <1>6, <1>7, <1>8

LEMMA CloseStep == ASSUME QueueInv, NEW c \in Client, Close(c) PROVE QueueInv'
<1> USE DEF QueueInv
<1>1. Purge(c) /\ UNCHANGED <<lwip, work>> /\ client[c].st \in {"bound", "gone"} /\ lwip.at = "idle"
      /\ client' = [client EXCEPT ![c].st = "gone"]
  BY DEF Close
<1>2. pkt' \in [Node -> Packets] /\ ListInv' /\ WakeInv'
  BY <1>1, PurgeIs
<1>3. OrderlyInv(Waiting', work', pkt', client)
  BY <1>1, PurgeKeeps
<1>4. /\ client' \in [Client -> [st : {"new", "bound", "gone", "refused"}, left : Int]]
      /\ client'[c].st = "gone" /\ \A y \in Client : y # c => client'[y] = client[y]
  BY <1>1 DEF TypeInv
<1>5. TypeInv'
  BY <1>1, <1>2, <1>4 DEF TypeInv
<1>6. AcceptInv'
  BY <1>1, <1>3, <1>4, AcceptStep
<1>7. RefusedInv'
  <2>1. /\ \A y \in Client : /\ client'[y].st = "new" => client[y].st = "new"
                             /\ client'[y].st = "refused" => client[y].st \in {"new", "refused"}
        /\ \A y \in Client : lwip'.at # "idle" /\ lwip'.client = y /\ client'[y].st = "refused"
                               => lwip' = lwip \/ client[y].st = "new"
    BY <1>1, <1>4
  <2>2. \A n \in Node : pkt'[n] = Free \/ pkt'[n] = pkt[n]
    BY <1>1 DEF Purge, Release
  <2>3. RefusedFor(pkt', lwip', work'.told, client')
    BY <1>1, <2>1, <2>2, RefusedFewer
  <2> QED BY <2>3 DEF RefusedInv
<1> QED BY <1>2, <1>5, <1>6, <1>7


LEMMA TaskTakeStep == ASSUME QueueInv, TaskTake PROVE QueueInv'
<1> USE DEF QueueInv
<1>1. PICK r \in Gets :
        /\ Release(r.l, r.freed)
        /\ work' = [work EXCEPT !.at = IF r.n = Null THEN "wait" ELSE "handle",
                                !.cur = r.n, !.told = Told(work, r.n)]
  BY DEF TaskTake
<1>2. work.plat = "task" /\ work.at = "idle" /\ UNCHANGED <<lwip, client>> /\ work \in WorkType
      /\ work.cur = Null
  BY DEF TaskTake, TypeInv, WakeInv
<1>3. work'.cur = r.n /\ work'.told = Told(work, r.n) /\ work'.plat = "task"
      /\ work'.at = IF r.n = Null THEN "wait" ELSE "handle"
  BY <1>1, <1>2 DEF WorkType
<1>4. pkt' \in [Node -> Packets] /\ ListInv' /\ r.n \in Node \cup {Null}
      /\ (r.n = Null => list'.head = Null)
  BY <1>1, <1>2, <1>3, TakeIs
<1>5. OrderlyInv(Waiting', work', pkt', client)
  BY <1>1, <1>2, <1>3, TakeKeeps
<1>6. work' \in WorkType
  <2>1. Told(work, r.n) \in SUBSET Client
    BY <1>4, ToldType
  <2> QED BY <1>1, <1>2, <1>4, <2>1 DEF WorkType
<1>7. TypeInv'
  BY <1>2, <1>4, <1>6 DEF TypeInv
<1>8. WakeInv'
  BY <1>3, <1>4 DEF WakeInv, NoLostWakeup
<1>9. AcceptInv'
  <2>1. lwip'.at # "idle" => client'[lwip'.client].st # "new"
    BY <1>2 DEF AcceptInv
  <2> QED BY <1>2, <1>5, <2>1, AcceptStep
<1>10. RefusedInv'
  <2>1. \A n \in Node : pkt'[n] = Free \/ pkt'[n] = pkt[n]
    BY <1>1 DEF Release
  <2>2. \A x \in work'.told : x \in work.told \/ \E n \in Node : Has(pkt, n, x) /\ pkt[n].kind = "ACCEPT"
    <3>1. Free.kind # "ACCEPT"
      BY DEF Free
    <3> QED BY <1>3, <1>4, <3>1, Nodes DEF Told, Has
  <2>3. RefusedFor(pkt', lwip', work'.told, client')
    BY <1>2, <2>1, <2>2, RefusedFewer
  <2> QED BY <2>3 DEF RefusedInv
<1> QED BY <1>4, <1>7, <1>8, <1>9, <1>10

LEMMA TaskWakeStep == ASSUME QueueInv, TaskWake PROVE QueueInv'
<1> USE DEF QueueInv
<1>1. /\ work.plat = "task" /\ work.at = "wait" /\ work \in WorkType
      /\ work' = [work EXCEPT !.at = "idle", !.note = FALSE] /\ UNCHANGED <<list, pkt, lwip, client>>
  BY DEF TaskWake, TypeInv
<1>2. work' \in WorkType /\ work'.plat = "task" /\ work'.at = "idle" /\ work'.cur = work.cur
      /\ work'.told = work.told
  BY <1>1 DEF WorkType
<1>3. TypeInv'
  BY <1>1, <1>2 DEF TypeInv
<1>4. ListInv' /\ Waiting' = Waiting
  BY <1>1, <1>2 DEF ListInv, Waiting
<1>5. WakeInv'
  BY <1>1, <1>2 DEF WakeInv, NoLostWakeup
<1>6. AcceptInv'
  BY <1>1, <1>2, <1>4 DEF AcceptInv
<1>7. RefusedInv'
  BY <1>1, <1>2 DEF RefusedInv
<1> QED BY <1>3, <1>4, <1>5, <1>6, <1>7

LEMMA CoopTakeStep == ASSUME QueueInv, CoopTake PROVE QueueInv'
<1> USE DEF QueueInv
<1> DEFINE w(n) == [work EXCEPT !.fns = @ - 1, !.cur = n, !.told = Told(work, n)]
<1>1. PICK r \in Gets :
        /\ Release(r.l, r.freed)
        /\ work' = IF r.n = Null THEN Again(w(r.n), r.l) ELSE [w(r.n) EXCEPT !.at = "handle"]
  BY DEF CoopTake
<1>2. work.plat = "coop" /\ work.at = "idle" /\ UNCHANGED <<lwip, client>> /\ work \in WorkType
      /\ work.cur = Null /\ work.fns > 0
  BY DEF CoopTake, TypeInv, WakeInv
<1>3. r.n \in Node \cup {Null} => /\ w(r.n) \in WorkType /\ w(r.n).at = "idle" /\ w(r.n).plat = "coop"
                                  /\ w(r.n).cur = r.n /\ w(r.n).told = Told(work, r.n)
  <2>1. ASSUME r.n \in Node \cup {Null} PROVE Told(work, r.n) \in SUBSET Client
    BY <2>1, ToldType
  <2>2. work.fns - 1 \in Nat
    BY <1>2 DEF WorkType
  <2> QED BY <1>2, <2>1, <2>2 DEF WorkType
<1> DEFINE u == w(r.n)
<1>4. work' = IF r.n = Null THEN Again(u, r.l) ELSE [u EXCEPT !.at = "handle"]
  BY <1>1
<1>5. work'.cur = r.n
  <2>1. CASE r.n = Null
    <3>1. u \in WorkType /\ u.cur = r.n
      BY <1>3, <2>1
    <3> HIDE DEF u
    <3> QED BY <1>4, <2>1, <3>1, AgainIs
  <2>2. CASE r.n # Null
    BY <1>2, <1>4, <2>2 DEF WorkType
  <2> QED BY <2>1, <2>2
<1>6. pkt' \in [Node -> Packets] /\ ListInv' /\ r.n \in Node \cup {Null}
      /\ (r.n = Null => list'.head = Null)
  BY <1>1, <1>2, <1>5, TakeIs
<1>7. u \in WorkType /\ u.at = "idle" /\ u.plat = "coop" /\ u.cur = r.n /\ u.told = Told(work, r.n)
  BY <1>3, <1>6
<1> HIDE DEF u, w
<1>8. /\ work' \in WorkType /\ work'.plat = "coop" /\ work'.told = Told(work, r.n)
      /\ work'.at = IF r.n = Null THEN "idle" ELSE "handle"
  <2>1. CASE r.n = Null
    BY <1>4, <1>7, <2>1, AgainIs
  <2>2. CASE r.n # Null
    BY <1>4, <1>7, <2>2 DEF WorkType
  <2> QED BY <2>1, <2>2
<1>9. OrderlyInv(Waiting', work', pkt', client)
  BY <1>1, <1>2, <1>5, <1>8, TakeKeeps
<1>10. TypeInv'
  BY <1>2, <1>6, <1>8 DEF TypeInv
<1>11. WakeInv'
  BY <1>5, <1>6, <1>8 DEF WakeInv, NoLostWakeup
<1>12. AcceptInv'
  <2>1. lwip'.at # "idle" => client'[lwip'.client].st # "new"
    BY <1>2 DEF AcceptInv
  <2> QED BY <1>2, <1>9, <2>1, AcceptStep
<1>13. RefusedInv'
  <2>1. \A n \in Node : pkt'[n] = Free \/ pkt'[n] = pkt[n]
    BY <1>1 DEF Release
  <2>2. \A x \in work'.told : x \in work.told \/ \E n \in Node : Has(pkt, n, x) /\ pkt[n].kind = "ACCEPT"
    <3>1. Free.kind # "ACCEPT"
      BY DEF Free
    <3> QED BY <1>6, <1>8, <3>1, Nodes DEF Told, Has
  <2>3. RefusedFor(pkt', lwip', work'.told, client')
    BY <1>2, <2>1, <2>2, RefusedFewer
  <2> QED BY <2>3 DEF RefusedInv
<1> QED BY <1>6, <1>10, <1>11, <1>12, <1>13

LEMMA HandledStep == ASSUME QueueInv, Handled PROVE QueueInv'
<1> USE DEF QueueInv
<1> DEFINE u == [work EXCEPT !.at = "idle", !.cur = Null]
<1>1. /\ Release(list, {work.cur}) /\ UNCHANGED <<lwip, client>> /\ work.at = "handle"
      /\ work \in WorkType /\ work.cur # Null /\ work' = Again(u, list)
  BY DEF Handled, TypeInv, WakeInv
<1>2. u \in WorkType /\ u.at = "idle" /\ u.cur = Null /\ u.told = work.told /\ u.plat = work.plat
  BY <1>1 DEF WorkType
<1> HIDE DEF u
<1>3. /\ work' \in WorkType /\ work'.plat = work.plat /\ work'.at = "idle" /\ work'.cur = Null
      /\ work'.told = work.told
      /\ work.plat = "coop" /\ list.size > 0 => work'.fns > 0
  BY <1>1, <1>2, AgainIs, ZenonT(40)
<1>4. pkt' \in [Node -> Packets] /\ ListInv' /\ Waiting' = Waiting /\ list'.head = list.head
  BY <1>1, <1>3, FreeIs
<1>5. TypeInv'
  BY <1>1, <1>3, <1>4 DEF TypeInv
<1>6. WakeInv'
  <2>1. list.head # Null => list.size > 0
    <3>1. list.size = Len(Chain(list)) /\ (list.head = Null <=> Len(Chain(list)) = 0)
          /\ Len(Chain(list)) \in Nat
      BY ListFacts
    <3> QED BY <3>1
  <2>2. work.plat # "task" => work.plat = "coop"
    BY <1>1, ConstantsAssumption DEF WorkType
  <2> QED BY <1>3, <1>4, <2>1, <2>2 DEF WakeInv, NoLostWakeup
<1>7. AcceptInv'
  BY <1>1, <1>3, <1>4 DEF AcceptInv
<1>8. RefusedInv'
  <2>1. \A n \in Node : pkt'[n] = Free \/ pkt'[n] = pkt[n]
    BY <1>1 DEF Release
  <2>2. RefusedFor(pkt', lwip', work'.told, client')
    BY <1>1, <1>3, <2>1, RefusedFewer
  <2> QED BY <2>2 DEF RefusedInv
<1> QED BY <1>4, <1>5, <1>6, <1>7, <1>8

(* QueueInv is inductive. *)
LEMMA QueueInvariant == Spec => []QueueInv
<1>1. Init => QueueInv
  BY InitInv
<1>2. QueueInv /\ [Next]_vars => QueueInv'
  <2> SUFFICES ASSUME QueueInv, [Next]_vars PROVE QueueInv'
    OBVIOUS
  <2>1. CASE TaskTake
    BY <2>1, TaskTakeStep
  <2>2. CASE TaskWake
    BY <2>2, TaskWakeStep
  <2>3. CASE CoopTake
    BY <2>3, CoopTakeStep
  <2>4. CASE Handled
    BY <2>4, HandledStep
  <2>5. ASSUME NEW c \in Client, TcpAccept(c) PROVE QueueInv'
    BY <2>5, TcpAcceptStep
  <2>6. ASSUME NEW c \in Client, TcpEvent(c) PROVE QueueInv'
    BY <2>6, TcpEventStep
  <2>7. ASSUME NEW c \in Client, TcpPoll(c) PROVE QueueInv'
    BY <2>7, TcpPollStep
  <2>8. ASSUME NEW c \in Client, TcpError(c) PROVE QueueInv'
    BY <2>8, TcpErrorStep
  <2>9. CASE SecondSection
    BY <2>9, SecondSectionStep
  <2>10. ASSUME NEW c \in Client, Close(c) PROVE QueueInv'
    BY <2>10, CloseStep
  <2>11. CASE UNCHANGED vars
    BY <2>11 DEF vars, QueueInv, TypeInv, ListInv, WakeInv, NoLostWakeup, AcceptInv, RefusedInv, Waiting
  <2> QED BY <2>1, <2>2, <2>3, <2>4, <2>5, <2>6, <2>7, <2>8, <2>9, <2>10, <2>11
             DEF Next, Worker, Callback
<1> QED BY <1>1, <1>2, PTL DEF Spec

-----------------------------------------------------------------------------

(* The list is sound whatever was put in at either end, taken out, coalesced *)
(* or purged: its tail and its count are right, and it has exactly the      *)
(* packets that are allocated and not being handled.                       *)
THEOREM ListIsSound == Spec => []ListSound
<1>1. QueueInv => ListSound
  <2> SUFFICES ASSUME QueueInv PROVE ListSound
    OBVIOUS
  <2> DEFINE w == Chain(list)
  <2>1. TypeInv /\ ListInv
    BY DEF QueueInv
  <2>2. /\ IsList(list, w) /\ Elements(w) = {n \in Node : pkt[n] # Free} \ {work.cur}
        /\ (work.cur # Null => pkt[work.cur] # Free)
    BY <2>1 DEF ListInv
  <2>3. w \in Seq(Node) /\ list.size = Len(w) /\ (list.head = Null <=> Len(w) = 0)
    BY <2>1, ListFacts
  <2> HIDE DEF w
  <2>4. TailValid(list)
    <3>1. Last(w) = w[Len(w)]
      BY DEF Last
    <3> QED BY <2>2, <2>3, <3>1 DEF TailValid, IsList, w
  <2>5. Range(w) = Elements(w)
    <3>1. DOMAIN w = 1 .. Len(w)
      BY <2>3
    <3> QED BY <3>1 DEF Range, Elements
  <2> QED BY <2>2, <2>3, <2>4, <2>5 DEF ListSound, w
<1> QED BY <1>1, QueueInvariant, PTL

(* Whoever puts an event in an empty list wakes the service, and whoever     *)
(* leaves events behind comes back: no event waits for nobody.             *)
THEOREM WakeupIsKept == Spec => []NoLostWakeup
<1>1. QueueInv => NoLostWakeup
  BY DEF QueueInv, WakeInv
<1> QED BY <1>1, QueueInvariant, PTL

(* An application is handed a connection before anything that happens to it; *)
(* a client that could not be announced, and whose ERROR alone is handled, is *)
(* never handed out.                                                          *)
THEOREM AcceptComesFirst == Spec => []AcceptFirst
<1>1. QueueInv => AcceptFirst
  <2> SUFFICES ASSUME QueueInv PROVE AcceptFirst
    OBVIOUS
  <2>1. work.cur # Null => \/ pkt[work.cur].client \in work.told
                           \/ client[pkt[work.cur].client].st = "refused"
    BY DEF QueueInv, AcceptInv, Heard
  <2>2. ASSUME NEW c \in Client, client[c].st = "refused"
        PROVE  /\ c \notin work.told
               /\ \A m, n \in {x \in Node : pkt[x] # Free} :
                    pkt[m].client = c /\ pkt[n].client = c => m = n
    <3>1. OneError(pkt, lwip, work.told, c)
      BY <2>2 DEF QueueInv, RefusedInv, RefusedFor
    <3> QED BY <3>1 DEF OneError, Has
  <2> QED BY <2>1, <2>2 DEF AcceptFirst
<1> QED BY <1>1, QueueInvariant, PTL


-----------------------------------------------------------------------------
(* The queue implements EventOrder.                                        *)

\* What EventOrder calls at; its q is Waiting.
Handling == IF work.cur = Null THEN << >> ELSE <<pkt[work.cur]>>

(* EventOrder's fold over the events is the path of a purge. *)
LEMMA WithoutIs ==
  ASSUME NEW q \in Seq(Events), NEW c, NEW k, Purges(k, q, c)
  PROVE  FoldLeft(LAMBDA kept, e : IF e.client = c /\ e.kind # "ACCEPT" THEN kept ELSE Append(kept, e),
                  << >>, q) = k[Len(q)]
<1> DEFINE m == Len(q)
           D == Seq(Events)
           step(v, e) == IF e.client = c /\ e.kind # "ACCEPT" THEN v ELSE Append(v, e)
           h == [i \in 1 .. m |-> [v \in D |-> step(v, q[i])]]
           F(g) == [t \in SUBSET (1 .. m) |->
                      IF t = {} THEN << >> ELSE step(g[t \ {Max(t)}], q[Max(t)])]
<1>1. m \in Nat /\ << >> \in D /\ DOMAIN q = 1 .. m /\ \A i \in 1 .. m : q[i] \in Events
  OBVIOUS
<1>2. h \in [1 .. m -> [D -> D]]
  <2>1. ASSUME NEW i \in 1 .. m, NEW v \in D PROVE step(v, q[i]) \in D
    BY <1>1, AppendProperties
  <2> HIDE DEF D, m, step
  <2> QED BY <2>1
<1>3. PICK it : Iterates(it, D, << >>, h, m)
  <2> HIDE DEF D, h, m
  <2> QED BY <1>1, <1>2, IterationExists
<1> HIDE DEF step
<1>4. it = F(it)
  <2>1. ASSUME NEW t \in SUBSET (1 .. m), t # {}
        PROVE  h[Max(t)][it[t \ {Max(t)}]] = step(it[t \ {Max(t)}], q[Max(t)])
    <3>1. Max(t) \in 1 .. m
      BY <1>1, <2>1, MaxIsIn
    <3>2. it[t \ {Max(t)}] \in D
      BY <1>3 DEF Iterates
    <3> HIDE DEF D, m
    <3> QED BY <3>1, <3>2
  <2> HIDE DEF h, D, m
  <2> QED BY <1>3, <2>1 DEF Iterates
<1> DEFINE fold == FoldLeft(LAMBDA kept, e : IF e.client = c /\ e.kind # "ACCEPT" THEN kept
                                             ELSE Append(kept, e), << >>, q)
<1>5. fold = (CHOOSE g : g = F(g))[1 .. m]
  BY <1>1 DEF FoldLeft, MapThenFoldSet, step
<1>6. PICK g : fold = g[1 .. m] /\ g = F(g)
  <2>1. (CHOOSE g : g = F(g)) = F(CHOOSE g : g = F(g))
    <3>1. \E g : g = F(g)
      BY <1>4
    <3> HIDE DEF F
    <3> QED BY <3>1
  <2> HIDE DEF F, fold
  <2> QED BY <1>5, <2>1
<1>7. /\ k[0] = << >>
      /\ \A i \in 1 .. m : k[i] = step(k[i - 1], q[i])
  BY DEF Purges, step
<1> DEFINE N == {i \in 0 .. m : g[1 .. i] = k[i]}
<1>8. 0 \in N
  <2>1. 1 .. 0 = {} /\ 0 \in 0 .. m /\ {} \in SUBSET (1 .. m)
    BY <1>1
  <2> HIDE DEF m
  <2> QED BY <1>6, <1>7, <2>1
<1>9. ASSUME NEW n \in 0 .. m - 1, n \in N PROVE n + 1 \in N
  <2> DEFINE i == n + 1
  <2>1. i \in 1 .. m /\ i - 1 = n /\ i \in 0 .. m /\ i \in Nat \ {0} /\ n \in 0 .. m
    BY <1>1
  <2>2. 1 .. i \in SUBSET (1 .. m)
    BY <1>1, <2>1
  <2> HIDE DEF i, m
  <2>3. Max(1 .. i) = i /\ (1 .. i) \ {i} = 1 .. i - 1 /\ 1 .. i # {}
    BY <2>1, PeelInterval
  <2>4. g[1 .. i] = step(g[(1 .. i) \ {Max(1 .. i)}], q[Max(1 .. i)])
    BY <1>6, <2>2, <2>3
  <2>5. g[1 .. n] = k[n]
    BY <1>9
  <2>6. g[1 .. i] = k[i]
    BY <1>7, <2>1, <2>3, <2>4, <2>5
  <2> QED BY <2>1, <2>6 DEF i
<1>10. m \in N
  <2>1. 0 .. m \subseteq N
    <3> HIDE DEF N, m
    <3> QED BY <1>1, <1>8, <1>9, BoundedInduction
  <2> QED BY <1>1, <2>1
<1> QED BY <1>6, <1>10

LEMMA OrderPut ==
  ASSUME TypeInv, ListInv, WakeInv, NEW kind \in {"ACCEPT", "DATA", "POLL"}, NEW c \in Client,
         Enqueue("back", kind, c)
  PROVE  Order!Put \/ (Waiting' = Waiting /\ Handling' = Handling)
<1> DEFINE e == [kind |-> kind, client |-> c]
<1>1. /\ work'.cur = work.cur /\ (work.cur # Null => pkt'[work.cur] = pkt[work.cur])
      /\ (Waiting' = Waiting \/ Waiting' = Put("back", Waiting, e))
  BY EnqueueIs
<1>2. Handling' = Handling
  BY <1>1 DEF Handling
<1>3. Put("back", Waiting, e) = Append(Waiting, e)
  BY DEF Put
<1>4. e \in Order!Event
  BY DEF Order!Event
<1> HIDE DEF e
<1>5. CASE Waiting' = Append(Waiting, e)
  BY <1>2, <1>4, <1>5 DEF Order!Put, Waiting, Handling, EventsIn
<1> QED BY <1>1, <1>2, <1>3, <1>5

LEMMA OrderPurge ==
  ASSUME TypeInv, ListInv, WakeInv, NEW c \in Client, Purge(c), UNCHANGED work
  PROVE  Order!Purge
<1>1. PICK k : Purges(k, Waiting, c) /\ Waiting' = k[Len(Waiting)]
  BY PurgeIs
<1>2. work.cur # Null => pkt'[work.cur] = pkt[work.cur]
  BY PurgeIs
<1>3. Handling' = Handling
  BY <1>2 DEF Handling
<1>4. Waiting \in Seq(Events)
  BY ListFacts
<1>5. FoldLeft(LAMBDA kept, e : IF e.client = c /\ e.kind # "ACCEPT" THEN kept ELSE Append(kept, e),
               << >>, Waiting) = k[Len(Waiting)]
  BY <1>1, <1>4, WithoutIs
<1>6. Order!Without(c)
        = FoldLeft(LAMBDA kept, e : IF e.client = c /\ e.kind # "ACCEPT" THEN kept ELSE Append(kept, e),
                   << >>, Waiting)
  BY DEF Order!Without, Order!FoldLeft, FoldLeft, Order!MapThenFoldSet, MapThenFoldSet,
         Order!Max, Max, Waiting, EventsIn
<1>7. Waiting' = Order!Without(c)
  BY <1>1, <1>5, <1>6
<1> QED BY <1>3, <1>7 DEF Order!Purge, Waiting, Handling, EventsIn

LEMMA OrderAnnounce ==
  ASSUME TypeInv, ListInv, WakeInv, NEW c \in Client, Enqueue("front", "ACCEPT", c)
  PROVE  Order!Announce \/ (Waiting' = Waiting /\ Handling' = Handling)
<1> DEFINE kind == "ACCEPT"
           e == [kind |-> kind, client |-> c]
<1>1. /\ work'.cur = work.cur /\ (work.cur # Null => pkt'[work.cur] = pkt[work.cur])
      /\ (Waiting' = Waiting \/ Waiting' = Put("front", Waiting, e))
  <2>1. kind \in {"ACCEPT", "DATA", "POLL"} /\ Enqueue("front", kind, c)
    OBVIOUS
  <2> HIDE DEF kind
  <2> QED BY <2>1, EnqueueIs
<1>2. Handling' = Handling
  BY <1>1 DEF Handling
<1>3. Put("front", Waiting, e) = <<e>> \o Waiting
  BY DEF Put
<1>4. e \in Order!Event /\ e.kind = "ACCEPT"
  BY DEF Order!Event
<1> HIDE DEF e
<1>5. CASE Waiting' = <<e>> \o Waiting
  <2>1. Order!Announce
    BY <1>2, <1>4, <1>5 DEF Order!Announce, Waiting, Handling, EventsIn
  <2> QED BY <2>1
<1> QED BY <1>1, <1>2, <1>3, <1>5

LEMMA OrderTake ==
  ASSUME TypeInv, ListInv, work.cur = Null, NEW r \in Gets, Release(r.l, r.freed), work'.cur = r.n
  PROVE  Order!Take \/ (Waiting' = Waiting /\ Handling' = Handling)
<1> DEFINE q == Waiting
           m == Len(q)
<1>1. q \in Seq(Events) /\ m \in Nat
  <2>1. q \in Seq(Events)
    BY ListFacts
  <2> QED BY <2>1
<1>2. PICK d \in 0 .. m, p \in 0 .. m :
        /\ p \in 0 .. d /\ (p = 0 => d = m) /\ (r.n = Null <=> p = 0)
        /\ \A i \in (1 .. d) \ {p} : q[i].kind = "POLL"
        /\ Waiting' = Drop(q, d)
        /\ p # 0 => pkt[r.n] = q[p] /\ pkt'[r.n] = q[p]
  BY TakeIs
<1>3. Handling = << >> /\ Handling' = IF p = 0 THEN << >> ELSE <<q[p]>>
  BY <1>2 DEF Handling
<1> HIDE DEF q
<1>4. CASE d = 0
  <2>1. p = 0
    BY <1>2, <1>4
  <2>2. Drop(q, d) = q
    BY <1>1, <1>4, DropNone
  <2> QED BY <1>2, <1>3, <2>1, <2>2 DEF q
<1>5. CASE d # 0
  <2>1. d \in 1 .. m /\ \A i \in 1 .. d : i # p => q[i].kind = "POLL"
    BY <1>1, <1>2, <1>5
  <2>2. Waiting' = SubSeq(q, d + 1, m)
    BY <1>2 DEF Drop
  <2>3. Order!Take
    BY <1>2, <1>3, <2>1, <2>2 DEF Order!Take, q, Waiting, Handling, EventsIn
  <2> QED BY <2>3
<1> QED BY <1>4, <1>5

LEMMA OrderFinish ==
  ASSUME TypeInv, ListInv, work.cur # Null, Release(list, {work.cur}), work'.cur = Null
  PROVE  Order!Finish
<1>1. Waiting' = Waiting
  BY FreeIs
<1>2. Handling # << >> /\ Handling' = << >>
  BY DEF Handling
<1> QED BY <1>1, <1>2 DEF Order!Finish, Waiting, Handling, EventsIn

(* Each step of the queue is one of EventOrder, or changes nothing of it.  *)
LEMMA OrderStep ==
  ASSUME QueueInv, [Next]_vars
  PROVE  Order!Next \/ (Waiting' = Waiting /\ Handling' = Handling)
<1> USE DEF QueueInv
<1> DEFINE Same == Waiting' = Waiting /\ Handling' = Handling
<1>1. work \in WorkType /\ (work.at = "handle" <=> work.cur # Null)
  BY DEF TypeInv, WakeInv
<1>2. ASSUME list' = list, pkt' = pkt, work'.cur = work.cur PROVE Same
  BY <1>2 DEF Waiting, Handling
<1>3. CASE TaskTake
  <2>1. PICK r \in Gets : Release(r.l, r.freed) /\ work'.cur = r.n
    BY <1>1, <1>3 DEF TaskTake, WorkType
  <2>2. work.cur = Null
    BY <1>1, <1>3 DEF TaskTake
  <2> QED BY <2>1, <2>2, OrderTake DEF Order!Next
<1>4. CASE TaskWake
  BY <1>1, <1>2, <1>4 DEF TaskWake, WorkType
<1>5. CASE CoopTake
  <2> DEFINE w(n) == [work EXCEPT !.fns = @ - 1, !.cur = n, !.told = Told(work, n)]
  <2>1. PICK r \in Gets :
          /\ Release(r.l, r.freed)
          /\ work' = IF r.n = Null THEN Again(w(r.n), r.l) ELSE [w(r.n) EXCEPT !.at = "handle"]
    BY <1>5 DEF CoopTake
  <2>2. work'.cur = r.n
    BY <1>1, <2>1 DEF WorkType, Again, Schedule
  <2>3. work.cur = Null
    BY <1>1, <1>5 DEF CoopTake
  <2> QED BY <2>1, <2>2, <2>3, OrderTake DEF Order!Next
<1>6. CASE Handled
  <2>1. Release(list, {work.cur}) /\ work.cur # Null /\ work'.cur = Null
    BY <1>1, <1>6 DEF Handled, WorkType, Again, Schedule
  <2> QED BY <2>1, OrderFinish DEF Order!Next
<1>7. ASSUME NEW c \in Client, TcpAccept(c) PROVE Order!Next \/ Same
  BY <1>2, <1>7, OrderAnnounce DEF TcpAccept, Order!Next
<1>8. ASSUME NEW c \in Client, TcpEvent(c) PROVE Order!Next \/ Same
  <2>1. Enqueue("back", "DATA", c) /\ "DATA" \in {"ACCEPT", "DATA", "POLL"}
    BY <1>8 DEF TcpEvent
  <2> QED BY <2>1, OrderPut DEF Order!Next
<1>9. ASSUME NEW c \in Client, TcpPoll(c) PROVE Same
  BY <1>2, <1>9 DEF TcpPoll
<1>10. ASSUME NEW c \in Client, TcpError(c) PROVE Order!Next
  BY <1>10, OrderPurge DEF TcpError, Order!Next
<1>11. CASE SecondSection
  <2> DEFINE c == lwip.client
             kind == IF lwip.at = "poll" THEN "POLL" ELSE "DATA"
  <2>1. Enqueue("back", kind, c) /\ c \in Client /\ kind \in {"ACCEPT", "DATA", "POLL"}
    BY <1>11 DEF SecondSection, TypeInv
  <2> HIDE DEF c, kind
  <2> QED BY <2>1, OrderPut DEF Order!Next
<1>12. ASSUME NEW c \in Client, Close(c) PROVE Order!Next
  BY <1>12, OrderPurge DEF Close, Order!Next
<1>13. CASE UNCHANGED vars
  BY <1>2, <1>13 DEF vars
<1> HIDE DEF QueueInv, Same
<1> QED BY <1>3, <1>4, <1>5, <1>6, <1>7, <1>8, <1>9, <1>10, <1>11, <1>12, <1>13
           DEF Next, Worker, Callback, Same

(* What goes in comes out in order, polls and purged events excepted: the  *)
(* pointers of the list, the coalescing and the dropping of polls implement *)
(* EventOrder.                                                             *)
THEOREM OrderIsKept == Spec => OrderKept
<1>1. Init => Order!Init
  <2> SUFFICES ASSUME Init PROVE Order!Init
    OBVIOUS
  <2>1. list = Empty /\ work.cur = Null
    BY DEF Init
  <2>2. Waiting = << >>
    <3>1. QueueInv
      BY InitInv
    <3>2. list.head = Null
      BY <2>1 DEF Empty
    <3>3. Waiting \in Seq(Events) /\ Len(Waiting) = 0
      BY <3>1, <3>2, ListFacts DEF QueueInv
    <3> HIDE DEF Waiting
    <3> QED BY <3>3, EmptySeq
  <2> QED BY <2>1, <2>2 DEF Order!Init, Waiting, EventsIn
<1>2. QueueInv /\ [Next]_vars
        => [Order!Next]_<<[i \in 1 .. Len(Chain(list)) |-> pkt[Chain(list)[i]]],
                          IF work.cur = Null THEN << >> ELSE <<pkt[work.cur]>> >>
  BY OrderStep DEF Waiting, Handling, EventsIn
<1> QED BY <1>1, <1>2, QueueInvariant, PTL DEF Spec, OrderKept, Order!Spec
=============================================================================
