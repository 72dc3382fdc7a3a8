---------------------------- MODULE MbedTlsProofs ----------------------------
(***************************************************************************)
(* Theorems about MbedTls: what the peer sent is read in order, what is     *)
(* acknowledged is what was consumed, and records leave in order.           *)
(***************************************************************************)
EXTENDS MbedTls, SequenceLemmas

(***************************************************************************)
(* The invariant.                                                           *)
(***************************************************************************)
Bio == {b \in [cap : Nat, data : Seq(Nat), pos : Nat, pend : Seq(Seq(Nat))] :
          b.pos <= Len(b.data)}

TypeInv ==
  /\ net \in [pcb : {"open", "closed", "gone"}, sent : Nat, q : Seq(Seq(Seq(Nat))),
              win : Nat, wire : Seq(Nat)]
  /\ bio \in Bio
  /\ tls \in [fed : Seq(Nat), enc : Nat, left : BOOLEAN, dead : BOOLEAN]

\* WireOrder, and what is still to come continues what has arrived.
OrderInv ==
  net.pcb = "open" /\ bio.cap > 0 =>
    /\ Inbound = [i \in 1 .. Len(Inbound) |-> i]
    /\ net.sent < Len(Stream) => net.sent = Len(Inbound)

\* Every record so far was handed over, except that the last may be left over.
RecordInv ==
  /\ RecordsInOrder
  /\ \A i \in 1 .. Len(net.wire) : net.wire[i] <= tls.enc
  /\ \A n \in 1 .. tls.enc :
       (n < tls.enc \/ ~tls.left) => \E i \in 1 .. Len(net.wire) : net.wire[i] = n

MbedInv == TypeInv /\ OrderInv /\ CreditMatches /\ RecordInv

-----------------------------------------------------------------------------
(***************************************************************************)
(* The receive buffer.                                                      *)
(***************************************************************************)

LEMMA BioParts ==
  ASSUME NEW b \in Bio
  PROVE  /\ b = [cap |-> b.cap, data |-> b.data, pos |-> b.pos, pend |-> b.pend]
         /\ b.cap \in Nat /\ b.data \in Seq(Nat) /\ b.pos \in Nat /\ b.pend \in Seq(Seq(Nat))
         /\ b.pos <= Len(b.data) /\ Len(b.data) \in Nat
BY DEF Bio

\* A buffer of which some fields are replaced.
LEMMA BioExcept ==
  ASSUME NEW b \in Bio, NEW d, NEW n
  PROVE  /\ [b EXCEPT !.data = d, !.pos = n] = [cap |-> b.cap, data |-> d, pos |-> n, pend |-> b.pend]
         /\ [b EXCEPT !.data = d, !.cap = n] = [cap |-> n, data |-> d, pos |-> b.pos, pend |-> b.pend]
         /\ [b EXCEPT !.pos = n] = [cap |-> b.cap, data |-> b.data, pos |-> n, pend |-> b.pend]
         /\ [b EXCEPT !.pend = d] = [cap |-> b.cap, data |-> b.data, pos |-> b.pos, pend |-> d]
<1> DEFINE c == b.cap
           e == b.data
           p == b.pos
           q == b.pend
<1>1. b = [cap |-> c, data |-> e, pos |-> p, pend |-> q]
  BY BioParts
<1> HIDE DEF c, e, p, q
<1> DEFINE m == [b EXCEPT !.data = d]
<1>m. m = [cap |-> c, data |-> d, pos |-> p, pend |-> q]
  BY <1>1
<1>n. /\ [b EXCEPT !.data = d, !.pos = n] = [m EXCEPT !.pos = n]
      /\ [b EXCEPT !.data = d, !.cap = n] = [m EXCEPT !.cap = n]
  BY <1>1
<1> HIDE DEF m
<1>2. [b EXCEPT !.data = d, !.pos = n] = [cap |-> c, data |-> d, pos |-> n, pend |-> q]
  BY <1>m, <1>n
<1>3. [b EXCEPT !.data = d, !.cap = n] = [cap |-> n, data |-> d, pos |-> p, pend |-> q]
  BY <1>m, <1>n
<1>4. [b EXCEPT !.pos = n] = [cap |-> c, data |-> e, pos |-> n, pend |-> q]
  BY <1>1
<1>5. [b EXCEPT !.pend = d] = [cap |-> c, data |-> e, pos |-> p, pend |-> d]
  BY <1>1
<1> QED BY <1>2, <1>3, <1>4, <1>5 DEF c, e, p, q

LEMMA BioMade ==
  \A cap, pos \in Nat : \A data \in Seq(Nat), pend \in Seq(Seq(Nat)) :
    pos <= Len(data) => [cap |-> cap, data |-> data, pos |-> pos, pend |-> pend] \in Bio
BY DEF Bio

LEMMA UnreadIs ==
  ASSUME NEW b \in Bio
  PROVE  /\ Unread(b) \in Seq(Nat) /\ Len(Unread(b)) = Len(b.data) - b.pos
         /\ \A i \in 1 .. Len(b.data) - b.pos : Unread(b)[i] = b.data[b.pos + i]
<1> DEFINE d == b.data
           p == b.pos
<1>1. d \in Seq(Nat) /\ p \in Nat /\ p <= Len(d) /\ Len(d) \in Nat
  BY DEF Bio
<1>2. Unread(b) = SubSeq(d, p + 1, Len(d))
  BY DEF Unread
<1> HIDE DEF d, p
<1>3. /\ SubSeq(d, p + 1, Len(d)) \in Seq(Nat) /\ Len(SubSeq(d, p + 1, Len(d))) = Len(d) - p
      /\ \A i \in 1 .. Len(d) - p : SubSeq(d, p + 1, Len(d))[i] = d[p + i]
  BY <1>1, SMT
<1> QED BY <1>2, <1>3 DEF d, p

LEMMA CompactKeeps ==
  ASSUME NEW b \in Bio
  PROVE  /\ Compact(b) \in Bio /\ Unread(Compact(b)) = Unread(b)
         /\ Compact(b).cap = b.cap /\ Compact(b).pend = b.pend
         /\ Compact(b).data = Unread(b) /\ Compact(b).pos = 0
<1> DEFINE c == [cap |-> b.cap, data |-> Unread(b), pos |-> 0, pend |-> b.pend]
<1>1. Unread(b) \in Seq(Nat) /\ Len(Unread(b)) \in Nat
  BY UnreadIs
<1>2. Compact(b) = c
  <2> DEFINE d == Unread(b)
  <2>1. Compact(b) = [b EXCEPT !.data = d, !.pos = 0]
    BY DEF Compact, Unread
  <2> HIDE DEF d
  <2>2. Compact(b) = [cap |-> b.cap, data |-> d, pos |-> 0, pend |-> b.pend]
    BY <2>1, BioExcept, ZenonT(30)
  <2> QED BY <2>2 DEF d
<1>3. c \in Bio
  BY <1>1, BioMade, BioParts, 0 \in Nat, 0 <= Len(Unread(b))
<1>4. SubSeq(Unread(b), 0 + 1, Len(Unread(b))) = Unread(b)
  <2> DEFINE d == Unread(b)
  <2>1. d \in Seq(Nat)
    BY <1>1
  <2> HIDE DEF d
  <2>2. SubSeq(d, 0 + 1, Len(d)) = d
    BY <2>1, SMT
  <2> QED BY <2>2 DEF d
<1>5. Unread(c) = Unread(b)
  BY <1>4 DEF Unread
<1>6. c.cap = b.cap /\ c.pend = b.pend /\ c.data = Unread(b) /\ c.pos = 0
  OBVIOUS
<1> HIDE DEF c
<1> QED BY <1>2, <1>3, <1>5, <1>6

LEMMA SubSeqConcat ==
  ASSUME NEW S, NEW d \in Seq(S), NEW u \in Seq(S), NEW p \in Nat, p <= Len(d)
  PROVE  SubSeq(d \o u, p + 1, Len(d \o u)) = SubSeq(d, p + 1, Len(d)) \o u
<1> DEFINE x == SubSeq(d \o u, p + 1, Len(d \o u))
           y == SubSeq(d, p + 1, Len(d))
           z == y \o u
<1>1. d \o u \in Seq(S) /\ Len(d \o u) = Len(d) + Len(u) /\ Len(d) \in Nat /\ Len(u) \in Nat
  OBVIOUS
<1>2. x \in Seq(S) /\ Len(x) = Len(d) + Len(u) - p
      /\ \A i \in 1 .. Len(d) + Len(u) - p : x[i] = (d \o u)[p + i]
  <2> DEFINE w == d \o u
  <2>1. w \in Seq(S) /\ Len(w) = Len(d) + Len(u)
    BY <1>1
  <2> HIDE DEF w
  <2>2. SubSeq(w, p + 1, Len(w)) \in Seq(S) /\ Len(SubSeq(w, p + 1, Len(w))) = Len(w) - p
        /\ \A i \in 1 .. Len(w) - p : SubSeq(w, p + 1, Len(w))[i] = w[p + i]
    BY <1>1, <2>1, SMT
  <2> QED BY <2>1, <2>2 DEF w
<1>3. y \in Seq(S) /\ Len(y) = Len(d) - p /\ \A i \in 1 .. Len(d) - p : y[i] = d[p + i]
  BY <1>1, SMT
<1>4. z \in Seq(S) /\ Len(z) = Len(d) - p + Len(u)
      /\ \A i \in 1 .. Len(d) - p + Len(u) :
           z[i] = IF i <= Len(d) - p THEN d[p + i] ELSE u[i - (Len(d) - p)]
  <2> HIDE DEF y
  <2> QED BY <1>1, <1>3, ConcatProperties
<1>5. \A i \in 1 .. Len(d) + Len(u) - p :
        (d \o u)[p + i] = IF i <= Len(d) - p THEN d[p + i] ELSE u[i - (Len(d) - p)]
  <2>1. \A j \in 1 .. Len(d) + Len(u) : (d \o u)[j] = IF j <= Len(d) THEN d[j] ELSE u[j - Len(d)]
    BY ConcatProperties
  <2> QED BY <1>1, <2>1
<1>6. Len(x) = Len(z) /\ \A i \in 1 .. Len(x) : x[i] = z[i]
  <2> HIDE DEF x, y, z
  <2> QED BY <1>1, <1>2, <1>4, <1>5
<1>7. x = z
  <2> HIDE DEF x, y, z
  <2> QED BY <1>2, <1>4, <1>6, SeqEqual
<1> QED BY <1>7

\* More bytes at the end of the buffer are read last.
LEMMA UnreadGrows ==
  ASSUME NEW b \in Bio, NEW u \in Seq(Nat), NEW cap \in Nat
  PROVE  /\ [b EXCEPT !.data = @ \o u, !.cap = cap] \in Bio
         /\ Unread([b EXCEPT !.data = @ \o u, !.cap = cap]) = Unread(b) \o u
<1> DEFINE d == b.data
           p == b.pos
           r == [b EXCEPT !.data = @ \o u, !.cap = cap]
<1>1. d \in Seq(Nat) /\ p \in Nat /\ p <= Len(d) /\ Len(d) \in Nat
  BY DEF Bio
<1>2. r = [cap |-> cap, data |-> d \o u, pos |-> p, pend |-> b.pend]
  <2> DEFINE w == d \o u
  <2>1. r = [b EXCEPT !.data = w, !.cap = cap]
    OBVIOUS
  <2> HIDE DEF w, r
  <2>2. r = [cap |-> cap, data |-> w, pos |-> b.pos, pend |-> b.pend]
    BY <2>1, BioExcept
  <2> QED BY <2>2 DEF w
<1>3. d \o u \in Seq(Nat) /\ Len(d \o u) = Len(d) + Len(u) /\ p <= Len(d \o u)
  BY <1>1
<1>4. r \in Bio
  <2> DEFINE w == d \o u
  <2>1. w \in Seq(Nat) /\ p \in Nat /\ p <= Len(w) /\ b.pend \in Seq(Seq(Nat))
    BY <1>1, <1>3, BioParts
  <2>2. r = [cap |-> cap, data |-> w, pos |-> p, pend |-> b.pend]
    BY <1>2
  <2> HIDE DEF d, p, r, w
  <2> QED BY <2>1, <2>2, BioMade
<1>5. SubSeq(d \o u, p + 1, Len(d \o u)) = SubSeq(d, p + 1, Len(d)) \o u
  <2> HIDE DEF d, p, r
  <2> QED BY <1>1, SubSeqConcat
<1>6. r.data = d \o u /\ r.pos = p
  BY <1>2
<1> QED BY <1>4, <1>5, <1>6 DEF Unread

\* What a pbuf does to the buffer: it goes in as a whole or not at all.
Fed(b, u, f) ==
  /\ f.b \in Bio /\ f.b.pend = b.pend
  /\ f.b.cap = 0 <=> b.cap = 0
  /\ b.cap > 0 => Unread(f.b) = IF f.ok THEN Unread(b) \o u ELSE Unread(b)

LEMMA FeedDataCorrect ==
  ASSUME NEW b \in Bio, NEW u \in Seq(Nat), NEW grow \in Nat
  PROVE  Fed(b, u, FeedData(b, u, grow))
<1>1. CASE b.cap = 0
  BY <1>1 DEF FeedData, Fed, Bio
<1>2. CASE b.cap # 0
  <2> DEFINE r == IF Len(u) > b.cap - Len(b.data) /\ b.pos > 0 THEN Compact(b) ELSE b
             need == Len(r.data) + Len(u)
             cap == IF need > r.cap THEN need ELSE r.cap
             full == [r EXCEPT !.data = @ \o u, !.cap = cap]
  <2>1. r \in Bio /\ Unread(r) = Unread(b) /\ r.cap = b.cap /\ r.pend = b.pend
    BY CompactKeeps
  <2>2. /\ r.cap \in Nat /\ need \in Nat /\ cap \in Nat /\ cap # 0 /\ b.cap > 0
    BY <1>2, <2>1 DEF Bio
  <2>3. FeedData(b, u, grow) = IF need > BufMax \/ need > r.cap + grow
                               THEN [ok |-> FALSE, b |-> r] ELSE [ok |-> TRUE, b |-> full]
    <3>1. full = [r EXCEPT !.data = @ \o u, !.cap = IF need > @ THEN need ELSE @]
      BY <2>1 DEF Bio
    <3> QED BY <1>2, <3>1 DEF FeedData
  <2>4. full \in Bio /\ Unread(full) = Unread(r) \o u /\ full.pend = r.pend /\ full.cap = cap
    <3>1. full.pend = r.pend /\ full.cap = cap
      BY <2>1 DEF Bio
    <3> HIDE DEF r, need, cap
    <3> QED BY <2>1, <2>2, <3>1, UnreadGrows
  <2> HIDE DEF r, need, cap, full
  <2>5. CASE need > BufMax \/ need > r.cap + grow
    <3>1. FeedData(b, u, grow) = [ok |-> FALSE, b |-> r]
      BY <2>3, <2>5
    <3> QED BY <2>1, <3>1 DEF Fed
  <2>6. CASE ~(need > BufMax \/ need > r.cap + grow)
    <3>1. FeedData(b, u, grow) = [ok |-> TRUE, b |-> full]
      BY <2>3, <2>6
    <3> QED BY <1>2, <2>1, <2>2, <2>4, <3>1 DEF Fed
  <2> QED BY <2>5, <2>6
<1> QED BY <1>1, <1>2

-----------------------------------------------------------------------------
(***************************************************************************)
(* feedRx.                                                                  *)
(***************************************************************************)
St == [b : Bio, n : Nat]

\* What is yet to be read of a session, before the queued events.
Content(b) == Unread(b) \o FlattenSeq(b.pend)

\* From st to t the units u came in: each was consumed or is held, and they are the last.
Carries(st, u, t) ==
  /\ t.b.cap = 0 <=> st.b.cap = 0
  /\ t.n + Len(FlattenSeq(t.b.pend)) = st.n + Len(FlattenSeq(st.b.pend)) + Len(u)
  /\ st.b.cap > 0 => Content(t.b) = Content(st.b) \o u

LEMMA PendIs ==
  ASSUME NEW b \in Bio
  PROVE  /\ FlattenSeq(b.pend) \in Seq(Nat) /\ Len(FlattenSeq(b.pend)) \in Nat
         /\ Content(b) \in Seq(Nat)
<1>1. FlattenSeq(b.pend) \in Seq(Nat)
  BY BioParts, FlattenType
<1> QED BY <1>1, UnreadIs DEF Content

LEMMA HoldBack ==
  ASSUME NEW b \in Bio, NEW u \in Seq(Nat)
  PROVE  /\ [b EXCEPT !.pend = Append(@, u)] \in Bio
         /\ [b EXCEPT !.pend = Append(@, u)].cap = b.cap
         /\ Unread([b EXCEPT !.pend = Append(@, u)]) = Unread(b)
         /\ FlattenSeq([b EXCEPT !.pend = Append(@, u)].pend) = FlattenSeq(b.pend) \o u
         /\ Content([b EXCEPT !.pend = Append(@, u)]) = Content(b) \o u
<1> DEFINE q == Append(b.pend, u)
           c == [b EXCEPT !.pend = q]
<1>1. q \in Seq(Seq(Nat)) /\ FlattenSeq(q) = FlattenSeq(b.pend) \o u
  <2> DEFINE p == b.pend
  <2>1. p \in Seq(Seq(Nat))
    BY BioParts
  <2> HIDE DEF p
  <2>2. Append(p, u) \in Seq(Seq(Nat)) /\ FlattenSeq(Append(p, u)) = FlattenSeq(p) \o u
    BY <2>1, FlattenAppend
  <2> QED BY <2>2 DEF p
<1> HIDE DEF q
<1>2. c = [cap |-> b.cap, data |-> b.data, pos |-> b.pos, pend |-> q]
  BY BioExcept
<1> HIDE DEF c
<1>3. c \in Bio
  BY <1>1, <1>2, BioParts, BioMade
<1>4. c.cap = b.cap /\ c.pend = q /\ c.data = b.data /\ c.pos = b.pos
  BY <1>2
<1>5. Unread(c) = Unread(b)
  BY <1>4 DEF Unread
<1>6. Content(c) = Content(b) \o u
  <2> DEFINE x == Unread(b)
             y == FlattenSeq(b.pend)
  <2>1. x \in Seq(Nat) /\ y \in Seq(Nat)
    BY PendIs, UnreadIs
  <2>2. Content(c) = x \o (y \o u) /\ Content(b) = x \o y
    BY <1>1, <1>4, <1>5 DEF Content
  <2> HIDE DEF x, y
  <2>3. x \o (y \o u) = (x \o y) \o u
    BY <2>1, SMT
  <2> QED BY <2>2, <2>3
<1> QED BY <1>1, <1>3, <1>4, <1>5, <1>6 DEF c, q

LEMMA FeedPbufCorrect ==
  ASSUME NEW st \in St, NEW u \in Seq(Nat), NEW grow \in Nat
  PROVE  FeedPbuf(st, u, grow) \in St /\ Carries(st, u, FeedPbuf(st, u, grow))
<1> DEFINE b == st.b
           f == FeedData(b, u, grow)
           t == FeedPbuf(st, u, grow)
           old == IF b.pend = << >> THEN f.b ELSE b
           held == [old EXCEPT !.pend = Append(@, u)]
<1>1. b \in Bio /\ st.n \in Nat /\ st = [b |-> b, n |-> st.n]
  BY DEF St
<1>2. Fed(b, u, f)
  BY <1>1, FeedDataCorrect
<1>3. t = IF b.pend = << >> /\ f.ok THEN [b |-> f.b, n |-> st.n + Len(u)]
          ELSE [b |-> held, n |-> st.n]
  <2>1. [st EXCEPT !.b = held] = [b |-> held, n |-> st.n]
    <3> HIDE DEF held, b
    <3> QED BY <1>1
  <2> QED BY <2>1 DEF FeedPbuf
<1> HIDE DEF b, f, t
<1>4. CASE b.pend = << >> /\ f.ok
  <2>1. t = [b |-> f.b, n |-> st.n + Len(u)]
    BY <1>3, <1>4
  <2>2. f.b \in Bio /\ f.b.pend = << >> /\ Len(u) \in Nat
    BY <1>2, <1>4 DEF Fed
  <2>3. t \in St
    BY <1>1, <2>1, <2>2 DEF St
  <2>4. t.b = f.b /\ t.n = st.n + Len(u)
    BY <2>1
  <2>5. t.n + Len(FlattenSeq(t.b.pend)) = st.n + Len(FlattenSeq(b.pend)) + Len(u)
    BY <1>1, <1>4, <2>2, <2>4, FlattenEmpty, EmptySeq
  <2>6. ASSUME b.cap > 0 PROVE Content(t.b) = Content(b) \o u
    <3>1. Unread(f.b) = Unread(b) \o u /\ Unread(b) \in Seq(Nat)
      BY <1>1, <1>2, <1>4, <2>6, UnreadIs DEF Fed
    <3>2. Content(f.b) = (Unread(b) \o u) \o << >> /\ Content(b) = Unread(b) \o << >>
      BY <1>4, <2>2, <3>1, FlattenEmpty DEF Content
    <3>3. (Unread(b) \o u) \o << >> = Unread(b) \o u /\ Unread(b) \o << >> = Unread(b)
      BY <3>1, ConcatEmptySeq, ConcatProperties
    <3> QED BY <2>4, <3>2, <3>3
  <2> QED BY <1>2, <2>3, <2>4, <2>5, <2>6 DEF Carries, Fed, b, t
<1>5. CASE ~(b.pend = << >> /\ f.ok)
  <2>1. t = [b |-> held, n |-> st.n]
    BY <1>3, <1>5
  <2>2. old \in Bio /\ old.pend = b.pend /\ (old.cap = 0 <=> b.cap = 0)
    BY <1>1, <1>2 DEF Fed
  <2>3. b.cap > 0 => Unread(old) = Unread(b)
    BY <1>1, <1>2, <1>5 DEF Fed
  <2>4. b.cap > 0 => Content(old) = Content(b)
    BY <2>2, <2>3 DEF Content
  <2> HIDE DEF old
  <2>5. /\ held \in Bio /\ held.cap = old.cap
        /\ FlattenSeq(held.pend) = FlattenSeq(b.pend) \o u
        /\ Content(held) = Content(old) \o u
    BY <2>2, HoldBack
  <2> HIDE DEF held
  <2>6. t \in St /\ t.b = held /\ t.n = st.n
    BY <1>1, <2>1, <2>5 DEF St
  <2>7. Len(FlattenSeq(b.pend) \o u) = Len(FlattenSeq(b.pend)) + Len(u)
        /\ Len(FlattenSeq(b.pend)) \in Nat /\ Len(u) \in Nat
    <3>1. FlattenSeq(b.pend) \in Seq(Nat)
      BY <1>1, PendIs
    <3> QED BY <3>1, ConcatProperties, LenProperties
  <2>8. t.n + Len(FlattenSeq(t.b.pend)) = st.n + Len(FlattenSeq(b.pend)) + Len(u)
    <3>1. FlattenSeq(t.b.pend) = FlattenSeq(b.pend) \o u
      BY <2>5, <2>6
    <3> DEFINE x == Len(FlattenSeq(b.pend))
               y == Len(FlattenSeq(t.b.pend))
    <3>2. y = x + Len(u) /\ x \in Nat /\ Len(u) \in Nat
      BY <2>7, <3>1
    <3> HIDE DEF x, y
    <3>3. t.n + y = st.n + x + Len(u)
      BY <1>1, <2>6, <3>2
    <3> QED BY <3>3 DEF x, y
  <2>9. b.cap > 0 => Content(t.b) = Content(b) \o u
    BY <2>4, <2>5, <2>6
  <2>10. t.b.cap = 0 <=> b.cap = 0
    BY <2>2, <2>5, <2>6
  <2> QED BY <2>6, <2>8, <2>9, <2>10 DEF Carries, b, t
<1> QED BY <1>4, <1>5 DEF t

Fold(s, st, grow) == FoldLeft(LAMBDA x, u : FeedPbuf(x, u, grow), st, s)

FeedSteps(f, s, st, grow) ==
  /\ f \in [0 .. Len(s) -> St] /\ f[0] = st
  /\ Fold(s, st, grow) = f[Len(s)]
  /\ \A i \in 1 .. Len(s) : f[i] = FeedPbuf(f[i - 1], s[i], grow)

\* The fold visits the pbufs one by one.
LEMMA FeedPath ==
  ASSUME NEW s \in Seq(Seq(Nat)), NEW st \in St, NEW grow \in Nat
  PROVE  \E f : FeedSteps(f, s, st, grow)
<1> DEFINE m == Len(s)
           h == [i \in 1 .. m |-> [x \in St |-> FeedPbuf(x, s[i], grow)]]
           fold == Fold(s, st, grow)
<1>1. m \in Nat /\ h \in [1 .. m -> [St -> St]] /\ DOMAIN s = 1 .. m
  <2>1. \A i \in 1 .. m : s[i] \in Seq(Nat)
    OBVIOUS
  <2>2. \A i \in 1 .. m : \A x \in St : FeedPbuf(x, s[i], grow) \in St
    BY <2>1, FeedPbufCorrect
  <2> QED BY <2>2
<1>2. PICK it : Iterates(it, St, st, h, m)
  <2> HIDE DEF m, h
  <2> QED BY <1>1, IterationExists
<1>3. it = [t \in SUBSET (1 .. m) |->
              IF t = {} THEN st ELSE FeedPbuf(it[t \ {Max(t)}], s[Max(t)], grow)]
  <2>1. ASSUME NEW t \in SUBSET (1 .. m), t # {}
        PROVE  h[Max(t)][it[t \ {Max(t)}]] = FeedPbuf(it[t \ {Max(t)}], s[Max(t)], grow)
    <3>1. Max(t) \in 1 .. m
      BY <1>1, <2>1, MaxIsIn
    <3>2. it[t \ {Max(t)}] \in St
      BY <1>2 DEF Iterates
    <3> QED BY <3>1, <3>2
  <2> HIDE DEF m, h
  <2> QED BY <1>2, <2>1 DEF Iterates
<1>4. fold = (CHOOSE g : g = [t \in SUBSET (1 .. m) |->
                IF t = {} THEN st ELSE FeedPbuf(g[t \ {Max(t)}], s[Max(t)], grow)])[1 .. m]
  BY <1>1 DEF Fold, FoldLeft, MapThenFoldSet
<1>5. PICK g : /\ fold = g[1 .. m]
               /\ g = [t \in SUBSET (1 .. m) |->
                         IF t = {} THEN st ELSE FeedPbuf(g[t \ {Max(t)}], s[Max(t)], grow)]
  <2> HIDE DEF m, h, fold
  <2> QED BY <1>3, <1>4
<1> DEFINE f == [i \in 0 .. m |-> g[1 .. i]]
<1>6. f[0] = st
  <2>1. 1 .. 0 = {} /\ 0 \in 0 .. m
    BY <1>1
  <2>2. f[0] = g[{}]
    BY <2>1
  <2> HIDE DEF f, m, h, fold
  <2> QED BY <1>5, <2>2
<1>7. ASSUME NEW i \in 1 .. m PROVE f[i] = FeedPbuf(f[i - 1], s[i], grow)
  <2>1. Max(1 .. i) = i /\ (1 .. i) \ {i} = 1 .. i - 1 /\ 1 .. i # {}
    BY PeelInterval, i \in Nat \ {0}
  <2>2. 1 .. i \in SUBSET (1 .. m) /\ i \in 0 .. m /\ i - 1 \in 0 .. m
    BY <1>1
  <2>3. f[i] = g[1 .. i] /\ f[i - 1] = g[1 .. i - 1]
    BY <2>2
  <2> HIDE DEF f, m, h, fold
  <2>4. g[1 .. i] = FeedPbuf(g[(1 .. i) \ {Max(1 .. i)}], s[Max(1 .. i)], grow)
    BY <1>5, <2>1, <2>2
  <2> QED BY <2>1, <2>3, <2>4
<1> DEFINE N == {n \in 0 .. m : f[n] \in St}
<1>8. 0 .. m \subseteq N
  <2>1. 0 \in N
    BY <1>1, <1>6
  <2>2. ASSUME NEW n \in 0 .. m - 1, n \in N PROVE n + 1 \in N
    <3>1. n + 1 \in 1 .. m /\ (n + 1) - 1 = n /\ s[n + 1] \in Seq(Nat) /\ f[n] \in St
      BY <1>1, <2>2
    <3>2. f[n + 1] = FeedPbuf(f[n], s[n + 1], grow)
      BY <1>7, <3>1
    <3> HIDE DEF f
    <3>3. f[n + 1] \in St
      BY <3>1, <3>2, FeedPbufCorrect
    <3> QED BY <3>1, <3>3
  <2> HIDE DEF N, m
  <2> QED BY <1>1, <2>1, <2>2, BoundedInduction
<1>9. f \in [0 .. m -> St] /\ fold = f[m]
  <2>1. \A n \in 0 .. m : f[n] \in St
    BY <1>8
  <2>2. f = [i \in 0 .. m |-> f[i]] /\ f[m] = g[1 .. m]
    BY <1>1
  <2> HIDE DEF f, m, fold
  <2> QED BY <1>5, <2>1, <2>2
<1> HIDE DEF f
<1> QED BY <1>6, <1>7, <1>9 DEF FeedSteps

\* However the pbufs are divided between the buffer and what is held, the content
\* grows by the chain, and what is consumed and what is held make up the rest.
LEMMA FeedRxCorrect ==
  ASSUME NEW b \in Bio, NEW chain \in Seq(Seq(Nat)), NEW grow \in Nat
  PROVE  LET t == FeedRx(b, chain, grow)
         IN /\ t.b \in Bio /\ t.n \in Nat /\ (t.b.cap = 0 <=> b.cap = 0)
            /\ t.n + Len(FlattenSeq(t.b.pend))
                 = Len(FlattenSeq(b.pend)) + Len(FlattenSeq(chain))
            /\ b.cap > 0 => Content(t.b) = Content(b) \o FlattenSeq(chain)
<1> DEFINE s == b.pend \o chain
           e == [b EXCEPT !.pend = << >>]
           st == [b |-> e, n |-> 0]
           m == Len(s)
           pre(i) == [j \in 1 .. i |-> s[j]]
<1>1. b.pend \in Seq(Seq(Nat)) /\ s \in Seq(Seq(Nat)) /\ m \in Nat
  BY BioParts
<1>2. /\ e \in Bio /\ e.pend = << >> /\ e.cap = b.cap /\ Unread(e) = Unread(b)
      /\ Content(e) = Unread(b)
  <2>1. e = [cap |-> b.cap, data |-> b.data, pos |-> b.pos, pend |-> << >>]
    BY BioExcept
  <2>2. << >> \in Seq(Seq(Nat))
    OBVIOUS
  <2> HIDE DEF e
  <2>3. e \in Bio
    BY <2>1, <2>2, BioParts, BioMade
  <2>4. e.pend = << >> /\ e.cap = b.cap /\ Unread(e) = Unread(b)
    BY <2>1 DEF Unread
  <2>5. Unread(b) \in Seq(Nat)
    BY UnreadIs
  <2>6. Content(e) = Unread(b)
    BY <2>4, <2>5, FlattenEmpty, ConcatEmptySeq DEF Content
  <2> QED BY <2>3, <2>4, <2>6
<1> HIDE DEF e
<1>3. st \in St /\ st.b = e /\ st.n = 0
  BY <1>2 DEF St
<1> HIDE DEF s, st
<1>a. PICK f : FeedSteps(f, s, st, grow)
  BY <1>1, <1>3, FeedPath
<1>4. /\ f \in [0 .. m -> St] /\ f[0] = st /\ Fold(s, st, grow) = f[m]
      /\ \A i \in 1 .. m : f[i] = FeedPbuf(f[i - 1], s[i], grow)
  BY <1>a DEF FeedSteps
<1>5. FeedRx(b, chain, grow) = f[m]
  BY <1>4 DEF FeedRx, Fold, st, e, s
<1> DEFINE N == {n \in 0 .. m : Carries(st, FlattenSeq(pre(n)), f[n])}
<1>6. 0 \in N
  <2>1. pre(0) = << >>
    OBVIOUS
  <2>2. Carries(st, << >>, st)
    <3>1. Content(st.b) \in Seq(Nat) /\ Len(FlattenSeq(st.b.pend)) \in Nat
      BY <1>2, <1>3, PendIs
    <3>2. Content(st.b) \o << >> = Content(st.b)
      BY <3>1, ConcatEmptySeq
    <3> QED BY <1>3, <3>1, <3>2, EmptySeq DEF Carries
  <2>3. FlattenSeq(pre(0)) = << >>
    BY <2>1, FlattenEmpty
  <2> HIDE DEF pre
  <2>4. Carries(st, FlattenSeq(pre(0)), f[0])
    BY <1>4, <2>2, <2>3
  <2> QED BY <1>1, <2>4
<1>7. ASSUME NEW n \in 0 .. m - 1, n \in N PROVE n + 1 \in N
  <2> DEFINE p == pre(n)
             u == s[n + 1]
             x == FlattenSeq(p)
  <2>1. n + 1 \in 1 .. m /\ (n + 1) - 1 = n /\ n \in 0 .. m /\ n + 1 \in 0 .. m /\ u \in Seq(Nat)
    BY <1>1
  <2>2. p \in Seq(Seq(Nat)) /\ pre(n + 1) = Append(p, u)
    <3>1. p \in Seq(Seq(Nat)) /\ Len(p) = n
      BY <1>1, <2>1
    <3>2. Append(p, u) \in Seq(Seq(Nat)) /\ Len(Append(p, u)) = n + 1
      BY <2>1, <3>1
    <3>3. pre(n + 1) \in Seq(Seq(Nat)) /\ Len(pre(n + 1)) = n + 1
      BY <1>1, <2>1
    <3>4. \A i \in 1 .. n + 1 : pre(n + 1)[i] = Append(p, u)[i]
      BY <1>1, <2>1, <3>1
    <3> HIDE DEF p, u, pre
    <3> QED BY <3>1, <3>2, <3>3, <3>4, SeqEqual
  <2>3. FlattenSeq(pre(n + 1)) = x \o u /\ x \in Seq(Nat)
    <3>1. p \in Seq(Seq(Nat)) /\ u \in Seq(Nat)
      BY <2>1, <2>2
    <3> HIDE DEF p, u, pre
    <3> QED BY <2>2, <3>1, FlattenAppend, FlattenType
  <2>4. f[n + 1] = FeedPbuf(f[n], u, grow) /\ f[n] \in St
    BY <1>4, <2>1
  <2>5. Carries(st, x, f[n])
    BY <1>7
  <2> HIDE DEF u, x, pre
  <2>6. Carries(f[n], u, f[n + 1]) /\ f[n + 1] \in St
    BY <2>1, <2>4, FeedPbufCorrect
  <2>7. Carries(st, x \o u, f[n + 1])
    <3> DEFINE c == Content(st.b)
    <3>1. st.b \in Bio /\ f[n].b \in Bio /\ f[n + 1].b \in Bio /\ st.n \in Nat /\ f[n].n \in Nat /\ f[n + 1].n \in Nat
      BY <1>3, <2>4, <2>6 DEF St
    <3>2. c \in Seq(Nat) /\ Len(x \o u) = Len(x) + Len(u) /\ Len(x) \in Nat /\ Len(u) \in Nat
      BY <2>1, <2>3, <3>1, PendIs, ConcatProperties, LenProperties
    <3>3. (c \o x) \o u = c \o (x \o u)
      <4>1. c \in Seq(Nat) /\ x \in Seq(Nat) /\ u \in Seq(Nat)
        BY <2>1, <2>3, <3>2
      <4> HIDE DEF c
      <4> QED BY <4>1, SMTT(30)
    <3>4. st.b.cap > 0 => f[n].b.cap > 0
      <4>1. st.b.cap \in Nat /\ f[n].b.cap \in Nat
        BY <3>1, BioParts
      <4>2. f[n].b.cap = 0 <=> st.b.cap = 0
        BY <2>5 DEF Carries
      <4> QED BY <4>1, <4>2
    <3>5. st.b.cap > 0 => Content(f[n + 1].b) = c \o (x \o u)
      BY <2>5, <2>6, <3>3, <3>4 DEF Carries
    <3>6. f[n + 1].b.cap = 0 <=> st.b.cap = 0
      BY <2>5, <2>6 DEF Carries
    <3>7. f[n + 1].n + Len(FlattenSeq(f[n + 1].b.pend)) = st.n + Len(FlattenSeq(st.b.pend)) + Len(x \o u)
      <4> DEFINE l0 == Len(FlattenSeq(st.b.pend))
                 l1 == Len(FlattenSeq(f[n].b.pend))
                 l2 == Len(FlattenSeq(f[n + 1].b.pend))
      <4>1. l0 \in Nat /\ l1 \in Nat /\ l2 \in Nat
        BY <3>1, PendIs
      <4>2. f[n].n + l1 = st.n + l0 + Len(x)
        BY <2>5 DEF Carries
      <4>3. f[n + 1].n + l2 = f[n].n + l1 + Len(u)
        BY <2>6 DEF Carries
      <4> HIDE DEF l0, l1, l2
      <4>4. f[n + 1].n + l2 = st.n + l0 + Len(x \o u)
        BY <3>1, <3>2, <4>1, <4>2, <4>3
      <4> QED BY <4>4 DEF l0, l1, l2
    <3> QED BY <3>5, <3>6, <3>7 DEF Carries
  <2> QED BY <2>1, <2>3, <2>7
<1>8. m \in N
  <2> HIDE DEF N
  <2>1. 0 .. m \subseteq N
    BY <1>1, <1>6, <1>7, BoundedInduction
  <2>2. m \in 0 .. m
    BY <1>1
  <2> QED BY <2>1, <2>2
<1>9. pre(m) = s
  <2>1. pre(m) \in Seq(Seq(Nat)) /\ Len(pre(m)) = m /\ \A i \in 1 .. m : pre(m)[i] = s[i]
    BY <1>1
  <2> HIDE DEF pre
  <2> QED BY <1>1, <2>1, SeqEqual
<1>10. FlattenSeq(s) = FlattenSeq(b.pend) \o FlattenSeq(chain)
  BY <1>1, FlattenConcat DEF s
<1> DEFINE x == FlattenSeq(b.pend)
           y == FlattenSeq(chain)
           t == f[m]
<1>11. Carries(st, x \o y, t) /\ t \in St
  <2> HIDE DEF pre
  <2> QED BY <1>1, <1>8, <1>9, <1>10, <1>4
<1>12. x \in Seq(Nat) /\ y \in Seq(Nat)
  BY <1>1, FlattenType
<1>13. Len(x \o y) = Len(x) + Len(y) /\ Len(x) \in Nat /\ Len(y) \in Nat
  <2> HIDE DEF x, y
  <2> QED BY <1>12
<1>14. t.b \in Bio /\ t.n \in Nat /\ (t.b.cap = 0 <=> b.cap = 0)
  BY <1>2, <1>3, <1>11 DEF St, Carries
<1>15. t.n + Len(FlattenSeq(t.b.pend)) = Len(x) + Len(y)
  <2>1. t.n + Len(FlattenSeq(t.b.pend)) = 0 + Len(FlattenSeq(<< >>)) + Len(x \o y)
    BY <1>2, <1>3, <1>11 DEF Carries
  <2>2. Len(FlattenSeq(<< >>)) = 0
    BY FlattenEmpty, EmptySeq
  <2>3. Len(x \o y) = Len(x) + Len(y) /\ Len(x) \in Nat /\ Len(y) \in Nat
    BY <1>13
  <2> DEFINE k == Len(FlattenSeq(<< >>))
             l == Len(x \o y)
             r == t.n + Len(FlattenSeq(t.b.pend))
             i == Len(x)
             j == Len(y)
  <2>4. r = 0 + k + l /\ k = 0 /\ l = i + j /\ i \in Nat /\ j \in Nat
    BY <2>1, <2>2, <2>3
  <2> HIDE DEF k, l, r, i, j
  <2>5. r = i + j
    BY <2>4
  <2> QED BY <2>5 DEF r, i, j
<1>16. b.cap > 0 => Content(t.b) = Content(b) \o y
  <2> SUFFICES ASSUME b.cap > 0 PROVE Content(t.b) = Content(b) \o y
    OBVIOUS
  <2>1. Content(t.b) = Unread(b) \o (x \o y)
    BY <1>2, <1>3, <1>11 DEF Carries
  <2> DEFINE w == Unread(b)
  <2>2. Content(b) = w \o x /\ w \in Seq(Nat)
    BY UnreadIs DEF Content
  <2>3. x \in Seq(Nat) /\ y \in Seq(Nat) /\ w \in Seq(Nat)
    BY <1>12, <2>2
  <2> HIDE DEF x, y, w
  <2>4. w \o (x \o y) = (w \o x) \o y
    <3>1. \A w1, x1, y1 \in Seq(Nat) : w1 \o (x1 \o y1) = (w1 \o x1) \o y1
      OBVIOUS
    <3> QED BY <2>3, <3>1, Zenon
  <2> QED BY <2>1, <2>2, <2>4 DEF w
<1> HIDE DEF t
<1> QED BY <1>5, <1>14, <1>15, <1>16 DEF t

-----------------------------------------------------------------------------
(***************************************************************************)
(* What mbedTLS pulls out of the buffer.                                    *)
(***************************************************************************)

LEMMA PulledRange ==
  ASSUME NEW b \in Bio
  PROVE  Pulled(b) \in 0 .. Len(Unread(b))
<1>1. Len(Unread(b)) \in Nat
  BY UnreadIs, LenProperties
<1>2. Ends(b) \subseteq 1 .. Len(Unread(b))
  BY DEF Ends
<1>3. CASE Ends(b) = {}
  BY <1>1, <1>3 DEF Pulled
<1>4. CASE Ends(b) # {}
  <2>1. \E i \in Ends(b) : \A j \in Ends(b) : i <= j
    <3>1. Ends(b) \in SUBSET Nat
      BY <1>1, <1>2
    <3> QED BY <1>4, <3>1, LeastExists
  <2>2. Pulled(b) \in Ends(b)
    BY <1>4, <2>1 DEF Pulled
  <2> QED BY <1>1, <1>2, <2>2
<1> QED BY <1>3, <1>4

LEMMA SplitAt ==
  ASSUME NEW d \in Seq(Nat), NEW p \in Nat, NEW n \in Nat, p + n <= Len(d)
  PROVE  SubSeq(SubSeq(d, p + 1, Len(d)), 1, n) \o SubSeq(d, p + n + 1, Len(d))
           = SubSeq(d, p + 1, Len(d))
<1> DEFINE w == SubSeq(d, p + 1, Len(d))
           x == SubSeq(w, 1, n)
           y == SubSeq(d, p + n + 1, Len(d))
           l == Len(d)
<1>1. l \in Nat /\ p + n \in Nat /\ p <= l /\ n <= l - p
  OBVIOUS
<1>2. w \in Seq(Nat) /\ Len(w) = l - p /\ \A i \in 1 .. l - p : w[i] = d[p + i]
  <2>1. p <= Len(d)
    BY <1>1
  <2> HIDE DEF x, y
  <2> QED BY <2>1, SMT
<1>3. y \in Seq(Nat) /\ Len(y) = l - (p + n) /\ \A i \in 1 .. l - (p + n) : y[i] = d[(p + n) + i]
  <2> DEFINE q == p + n
             z == SubSeq(d, q + 1, Len(d))
  <2>1. q \in Nat /\ q <= Len(d)
    BY <1>1
  <2> HIDE DEF q
  <2>2. z \in Seq(Nat) /\ Len(z) = Len(d) - q /\ \A i \in 1 .. Len(d) - q : z[i] = d[q + i]
    BY <2>1, SMTT(30)
  <2> QED BY <2>2 DEF q
<1>4. x \in Seq(Nat) /\ Len(x) = n /\ \A i \in 1 .. n : x[i] = w[i]
  <2>1. n <= Len(w)
    BY <1>1, <1>2
  <2>2. w \in Seq(Nat)
    BY <1>2
  <2> HIDE DEF w
  <2> QED BY <2>1, <2>2, SMT
<1> HIDE DEF x, y, w
<1>5. /\ x \o y \in Seq(Nat) /\ Len(x \o y) = Len(x) + Len(y)
      /\ \A i \in 1 .. Len(x) + Len(y) : (x \o y)[i] = IF i <= Len(x) THEN x[i] ELSE y[i - Len(x)]
  <2>1. x \in Seq(Nat) /\ y \in Seq(Nat)
    BY <1>3, <1>4
  <2> QED BY <2>1, ConcatProperties
<1> DEFINE z == x \o y
<1> HIDE DEF z, l
<1>6. z \in Seq(Nat) /\ Len(z) = Len(w)
  BY <1>1, <1>2, <1>3, <1>4, <1>5 DEF z
<1>7. ASSUME NEW i \in 1 .. l - p PROVE z[i] = w[i]
  <2>1. z[i] = IF i <= n THEN x[i] ELSE y[i - n]
    BY <1>1, <1>3, <1>4, <1>5 DEF z
  <2>2. CASE i <= n
    BY <1>4, <2>1, <2>2
  <2>3. CASE ~(i <= n)
    <3>1. i - n \in 1 .. l - (p + n) /\ (p + n) + (i - n) = p + i
      BY <1>1, <2>3
    <3> QED BY <1>2, <1>3, <2>1, <2>3, <3>1
  <2> QED BY <2>2, <2>3
<1>8. z = w
  <2>1. w \in Seq(Nat) /\ \A i \in 1 .. Len(z) : z[i] = w[i]
    BY <1>2, <1>6, <1>7
  <2> QED BY <1>6, <2>1, SeqEqual
<1> QED BY <1>8 DEF x, y, w, z, l

LEMMA TookCorrect ==
  ASSUME NEW b \in Bio, NEW n \in 0 .. Len(Unread(b))
  PROVE  /\ Took(b, n) \in Bio /\ Took(b, n).cap = b.cap /\ Took(b, n).pend = b.pend
         /\ SubSeq(Unread(b), 1, n) \o Unread(Took(b, n)) = Unread(b)
<1> DEFINE d == b.data
           p == b.pos
           l == Len(d)
           c == Took(b, n)
<1>1. d \in Seq(Nat) /\ p \in Nat /\ l \in Nat /\ p <= l /\ n \in Nat /\ n <= l - p
  BY BioParts, UnreadIs
<1>2. CASE p + n >= l
  <2>1. c = [cap |-> b.cap, data |-> << >>, pos |-> 0, pend |-> b.pend]
    <3>1. c = [b EXCEPT !.data = << >>, !.pos = 0]
      BY <1>2 DEF Took
    <3> HIDE DEF c
    <3> QED BY <3>1, BioExcept, ZenonT(30)
  <2>2. << >> \in Seq(Nat) /\ 0 <= Len(<< >>)
    OBVIOUS
  <2> HIDE DEF c
  <2>3. c \in Bio
    BY <2>1, <2>2, BioParts, BioMade
  <2>4. Unread(c) = << >>
    BY <2>1 DEF Unread
  <2>5. SubSeq(Unread(b), 1, n) \o << >> = Unread(b)
    <3> DEFINE u == Unread(b)
    <3>1. u \in Seq(Nat) /\ n = Len(u)
      BY <1>1, <1>2, UnreadIs
    <3> HIDE DEF u
    <3>2. SubSeq(u, 1, Len(u)) = u
      BY <3>1, SMT
    <3>3. u \o << >> = u
      BY <3>1, ConcatEmptySeq
    <3> QED BY <3>1, <3>2, <3>3 DEF u
  <2>6. c.cap = b.cap /\ c.pend = b.pend
    BY <2>1
  <2> QED BY <2>3, <2>4, <2>5, <2>6 DEF c
<1>3. CASE ~(p + n >= l)
  <2> DEFINE m == p + n
  <2>1. c = [cap |-> b.cap, data |-> d, pos |-> m, pend |-> b.pend]
    <3>1. c = [b EXCEPT !.pos = m]
      BY <1>3 DEF Took
    <3> HIDE DEF c, m
    <3>2. c = [cap |-> b.cap, data |-> b.data, pos |-> m, pend |-> b.pend]
      BY <3>1, BioExcept
    <3> QED BY <3>2
  <2>2. m \in Nat /\ m <= Len(d)
    BY <1>1, <1>3
  <2>3. c \in Bio
    <3> HIDE DEF c, m
    <3> QED BY <2>1, <2>2, BioParts, BioMade
  <2>4. Unread(c) = SubSeq(d, p + n + 1, l) /\ c.cap = b.cap /\ c.pend = b.pend
    <3>1. c.data = d /\ c.pos = m /\ c.cap = b.cap /\ c.pend = b.pend
      BY <2>1
    <3> QED BY <3>1 DEF Unread
  <2>5. SubSeq(SubSeq(d, p + 1, l), 1, n) \o SubSeq(d, p + n + 1, l) = SubSeq(d, p + 1, l)
    <3> HIDE DEF d, p
    <3> QED BY <1>1, <2>2, SplitAt
  <2>6. Unread(b) = SubSeq(d, p + 1, l)
    BY DEF Unread
  <2> HIDE DEF c, d, p, l, m
  <2>7. SubSeq(Unread(b), 1, n) \o Unread(c) = Unread(b)
    BY <2>4, <2>5, <2>6
  <2> QED BY <2>3, <2>4, <2>7 DEF c
<1> QED BY <1>2, <1>3

LEMMA PullCorrect ==
  ASSUME TypeInv, Pull
  PROVE  /\ bio' \in Bio /\ bio'.cap = bio.cap /\ bio'.pend = bio.pend
         /\ tls' \in [fed : Seq(Nat), enc : Nat, left : BOOLEAN, dead : BOOLEAN]
         /\ tls'.enc = tls.enc /\ tls'.left = tls.left
         /\ tls'.fed \o Content(bio') = tls.fed \o Content(bio)
<1> DEFINE n == Pulled(bio)
           x == SubSeq(Unread(bio), 1, n)
           y == Unread(bio')
           dead == tls.dead \/ \E i \in Ends(bio) : i <= n /\ Stream[Unread(bio)[i]] = "x"
<1>1. /\ bio \in Bio /\ n \in 0 .. Len(Unread(bio))
      /\ tls \in [fed : Seq(Nat), enc : Nat, left : BOOLEAN, dead : BOOLEAN]
  BY PulledRange DEF TypeInv
<1>2. bio' = Took(bio, n) /\ tls' = [tls EXCEPT !.fed = @ \o x, !.dead = dead]
  BY DEF Pull
<1>3. bio' \in Bio /\ bio'.cap = bio.cap /\ bio'.pend = bio.pend /\ x \o y = Unread(bio)
  <2> HIDE DEF n
  <2> QED BY <1>1, <1>2, TookCorrect
<1>4. /\ x \in Seq(Nat) /\ y \in Seq(Nat) /\ tls.fed \in Seq(Nat) /\ dead \in BOOLEAN
      /\ FlattenSeq(bio.pend) \in Seq(Nat)
  <2>1. y \in Seq(Nat) /\ Unread(bio) \in Seq(Nat) /\ FlattenSeq(bio.pend) \in Seq(Nat)
    BY <1>1, <1>3, UnreadIs, PendIs
  <2>2. x \in Seq(Nat)
    <3> DEFINE u == Unread(bio)
    <3>1. u \in Seq(Nat) /\ n \in Nat /\ n <= Len(u)
      BY <1>1, <2>1
    <3> HIDE DEF u, n
    <3>2. SubSeq(u, 1, n) \in Seq(Nat)
      BY <3>1, SMT
    <3> QED BY <3>2 DEF u
  <2>3. dead \in BOOLEAN
    <3> HIDE DEF n
    <3> QED BY <1>1
  <2> QED BY <1>1, <2>1, <2>2, <2>3
<1> HIDE DEF n, x, dead
<1>5. /\ tls' \in [fed : Seq(Nat), enc : Nat, left : BOOLEAN, dead : BOOLEAN]
      /\ tls'.enc = tls.enc /\ tls'.left = tls.left /\ tls'.fed = tls.fed \o x
  <2>1. tls.fed \o x \in Seq(Nat)
    BY <1>4
  <2> QED BY <1>1, <1>2, <1>4, <2>1
<1>6. tls'.fed \o Content(bio') = tls.fed \o Content(bio)
  <2> DEFINE f == tls.fed
             p == FlattenSeq(bio.pend)
  <2>1. Content(bio') = y \o p /\ Content(bio) = (x \o y) \o p
    BY <1>3 DEF Content
  <2>2. f \in Seq(Nat) /\ x \in Seq(Nat) /\ y \in Seq(Nat) /\ p \in Seq(Nat)
    BY <1>4
  <2> HIDE DEF f, y, p
  <2>3. (f \o x) \o (y \o p) = f \o ((x \o y) \o p)
    <3>1. y \o p \in Seq(Nat)
      BY <2>2
    <3>2. (f \o x) \o (y \o p) = f \o (x \o (y \o p)) /\ x \o (y \o p) = (x \o y) \o p
      <4>1. \A r, s, t \in Seq(Nat) : (r \o s) \o t = r \o (s \o t)
        BY SMTT(30)
      <4> QED BY <2>2, <3>1, <4>1, ZenonT(30)
    <3> QED BY <3>2
  <2> QED BY <1>5, <2>1, <2>3 DEF f
<1> QED BY <1>3, <1>5, <1>6

-----------------------------------------------------------------------------
(***************************************************************************)
(* The queued events and what the peer sends.                               *)
(***************************************************************************)

Flats(q) == [i \in 1 .. Len(q) |-> FlattenSeq(q[i])]

LEMMA FlatsIs ==
  ASSUME NEW q \in Seq(Seq(Seq(Nat)))
  PROVE  /\ Flats(q) \in Seq(Seq(Nat)) /\ Len(Flats(q)) = Len(q) /\ Len(q) \in Nat
         /\ \A i \in 1 .. Len(q) : Flats(q)[i] = FlattenSeq(q[i])
<1>1. \A i \in 1 .. Len(q) : FlattenSeq(q[i]) \in Seq(Nat)
  <2> SUFFICES ASSUME NEW i \in 1 .. Len(q) PROVE FlattenSeq(q[i]) \in Seq(Nat)
    OBVIOUS
  <2>1. q[i] \in Seq(Seq(Nat))
    OBVIOUS
  <2> QED BY <2>1, FlattenType
<1> QED BY <1>1 DEF Flats

LEMMA ArrivedType ==
  ASSUME NEW q \in Seq(Seq(Seq(Nat)))
  PROVE  Arrived(q) \in Seq(Nat) /\ Len(Arrived(q)) \in Nat
<1>1. FlattenSeq(Flats(q)) \in Seq(Nat)
  BY FlatsIs, FlattenType
<1> QED BY <1>1 DEF Arrived, Flats

LEMMA ArrivedAppend ==
  ASSUME NEW q \in Seq(Seq(Seq(Nat))), NEW c \in Seq(Seq(Nat))
  PROVE  /\ Append(q, c) \in Seq(Seq(Seq(Nat)))
         /\ Arrived(Append(q, c)) = Arrived(q) \o FlattenSeq(c)
<1> DEFINE r == Append(q, c)
           f == FlattenSeq(c)
           s == Flats(q)
<1>1. /\ r \in Seq(Seq(Seq(Nat))) /\ Len(r) = Len(q) + 1 /\ r[Len(q) + 1] = c
      /\ \A i \in 1 .. Len(q) : r[i] = q[i]
  BY AppendProperties
<1>2. f \in Seq(Nat) /\ s \in Seq(Seq(Nat)) /\ Len(s) = Len(q) /\ Len(q) \in Nat
  BY FlatsIs, FlattenType
<1>3. Flats(r) \in Seq(Seq(Nat)) /\ Len(Flats(r)) = Len(q) + 1
      /\ \A i \in 1 .. Len(q) + 1 : Flats(r)[i] = FlattenSeq(r[i])
  <2> HIDE DEF r
  <2> QED BY <1>1, FlatsIs
<1>4. \A i \in 1 .. Len(q) : s[i] = FlattenSeq(q[i])
  BY FlatsIs
<1> HIDE DEF r, f, s
<1>5. Append(s, f) \in Seq(Seq(Nat)) /\ Len(Append(s, f)) = Len(q) + 1
      /\ Append(s, f)[Len(q) + 1] = f /\ \A i \in 1 .. Len(q) : Append(s, f)[i] = s[i]
  <2>1. s \in Seq(Seq(Nat)) /\ f \in Seq(Nat)
    BY <1>2
  <2>2. Append(s, f) \in Seq(Seq(Nat)) /\ Len(Append(s, f)) = Len(s) + 1
        /\ Append(s, f)[Len(s) + 1] = f /\ \A i \in 1 .. Len(s) : Append(s, f)[i] = s[i]
    BY <2>1, AppendProperties
  <2> QED BY <1>2, <2>2
<1>6. Flats(r) = Append(s, f)
  <2> DEFINE u == Flats(r)
             v == Append(s, f)
  <2>1. \A i \in 1 .. Len(q) + 1 : u[i] = v[i]
    <3> SUFFICES ASSUME NEW i \in 1 .. Len(q) + 1 PROVE u[i] = v[i]
      OBVIOUS
    <3>1. CASE i \in 1 .. Len(q)
      BY <1>1, <1>3, <1>4, <1>5, <3>1
    <3>2. CASE i = Len(q) + 1
      BY <1>1, <1>3, <1>5, <3>2 DEF f
    <3> QED BY <1>2, <3>1, <3>2
  <2>2. u \in Seq(Seq(Nat)) /\ v \in Seq(Seq(Nat)) /\ Len(u) = Len(v) /\ Len(u) = Len(q) + 1
    BY <1>3, <1>5
  <2> HIDE DEF u, v
  <2>3. u = v
    BY <2>1, <2>2, SeqEqual
  <2> QED BY <2>3 DEF u, v
<1>7. FlattenSeq(Append(s, f)) = FlattenSeq(s) \o f
  BY <1>2, FlattenAppend
<1>8. Arrived(r) = FlattenSeq(Flats(r)) /\ Arrived(q) = FlattenSeq(s)
  BY DEF Arrived, Flats, s
<1> QED BY <1>1, <1>6, <1>7, <1>8 DEF r, f

LEMMA ArrivedHead ==
  ASSUME NEW q \in Seq(Seq(Seq(Nat))), q # << >>
  PROVE  /\ Head(q) \in Seq(Seq(Nat)) /\ Tail(q) \in Seq(Seq(Seq(Nat)))
         /\ Arrived(q) = FlattenSeq(Head(q)) \o Arrived(Tail(q))
<1> DEFINE t == Tail(q)
           s == Flats(q)
<1>1. /\ Head(q) \in Seq(Seq(Nat)) /\ Head(q) = q[1] /\ Len(q) \in Nat /\ Len(q) >= 1
      /\ t \in Seq(Seq(Seq(Nat))) /\ Len(t) = Len(q) - 1
      /\ \A i \in 1 .. Len(q) - 1 : t[i] = q[i + 1]
  BY HeadTailProperties, EmptySeq
<1> HIDE DEF t
<1>2. s \in Seq(Seq(Nat)) /\ Len(s) = Len(q) /\ \A i \in 1 .. Len(q) : s[i] = FlattenSeq(q[i])
  BY FlatsIs
<1> HIDE DEF s
<1>3. s # << >>
  BY <1>1, <1>2
<1>4. /\ Head(s) = s[1] /\ Tail(s) \in Seq(Seq(Nat)) /\ Len(Tail(s)) = Len(q) - 1
      /\ \A i \in 1 .. Len(q) - 1 : Tail(s)[i] = s[i + 1]
  BY <1>2, <1>3, HeadTailProperties
<1>5. Flats(t) = Tail(s)
  <2>1. Flats(t) \in Seq(Seq(Nat)) /\ Len(Flats(t)) = Len(q) - 1
        /\ \A i \in 1 .. Len(q) - 1 : Flats(t)[i] = FlattenSeq(t[i])
    BY <1>1, FlatsIs
  <2> DEFINE u == Flats(t)
             v == Tail(s)
  <2>2. \A i \in 1 .. Len(q) - 1 : u[i] = v[i]
    <3> SUFFICES ASSUME NEW i \in 1 .. Len(q) - 1 PROVE u[i] = v[i]
      OBVIOUS
    <3>1. i + 1 \in 1 .. Len(q)
      BY <1>1
    <3> QED BY <1>1, <1>2, <1>4, <2>1, <3>1
  <2>3. u \in Seq(Seq(Nat)) /\ v \in Seq(Seq(Nat)) /\ Len(u) = Len(v) /\ Len(u) = Len(q) - 1
    BY <1>4, <2>1
  <2> HIDE DEF u, v
  <2>4. u = v
    BY <2>2, <2>3, SeqEqual
  <2> QED BY <2>4 DEF u, v
<1>6. FlattenSeq(s) = Head(s) \o FlattenSeq(Tail(s))
  BY <1>2, <1>3, FlattenHeadTail
<1>7. Head(s) = FlattenSeq(Head(q))
  BY <1>1, <1>2, <1>4
<1>8. Arrived(q) = FlattenSeq(s) /\ Arrived(t) = FlattenSeq(Flats(t))
  BY DEF Arrived, Flats, s
<1> QED BY <1>1, <1>5, <1>6, <1>7, <1>8 DEF t

\* The units of a segment continue those before it.
LEMMA ChainIs ==
  ASSUME NEW k \in Nat, NEW chain \in Chains(k)
  PROVE  /\ chain \in Seq(Seq(Nat)) /\ FlattenSeq(chain) \in Seq(Nat)
         /\ Units(chain) \in Nat \ {0} /\ Units(chain) = Len(FlattenSeq(chain))
         /\ \A i \in 1 .. Units(chain) : FlattenSeq(chain)[i] = k + i - 1
<1>1. /\ <<k>> \in Seq(Nat) /\ <<k + 1>> \in Seq(Nat) /\ <<k + 2>> \in Seq(Nat)
      /\ <<k, k + 1>> \in Seq(Nat)
  OBVIOUS
<1>2. ASSUME NEW a \in Seq(Nat), NEW b \in Seq(Nat)
      PROVE  FlattenSeq(<<a>>) = a /\ FlattenSeq(<<a, b>>) = a \o b
             /\ <<a>> \in Seq(Seq(Nat)) /\ <<a, b>> \in Seq(Seq(Nat))
  <2>1. <<a>> \in Seq(Seq(Nat)) /\ <<a, b>> \in Seq(Seq(Nat)) /\ Append(<<a>>, b) = <<a, b>>
    BY TwoConcat
  <2>2. FlattenSeq(<<a>>) = a
    BY FlattenOne
  <2>3. FlattenSeq(Append(<<a>>, b)) = FlattenSeq(<<a>>) \o b
    BY <2>1, FlattenAppend
  <2> QED BY <2>1, <2>2, <2>3
<1> DEFINE Good(c, f) == c \in Seq(Seq(Nat)) /\ FlattenSeq(c) = f
<1>3. /\ Good(<<<<k>>>>, <<k>>) /\ Good(<<<<k, k + 1>>>>, <<k, k + 1>>)
      /\ Good(<<<<k>>, <<k + 1>>>>, <<k>> \o <<k + 1>>)
      /\ Good(<<<<k, k + 1>>, <<k + 2>>>>, <<k, k + 1>> \o <<k + 2>>)
  BY <1>1, <1>2
<1>4. <<k>> \o <<k + 1>> = <<k, k + 1>> /\ <<k, k + 1>> \o <<k + 2>> = <<k, k + 1, k + 2>>
  <2> DEFINE x == k
             y == k + 1
             z == k + 2
  <2>1. x \in Nat /\ y \in Nat /\ z \in Nat
    OBVIOUS
  <2> HIDE DEF x, y, z
  <2>2. <<x>> \o <<y>> = <<x, y>>
    BY <2>1, TwoConcat
  <2>3. <<x, y>> \o <<z>> = <<x, y, z>>
    BY <2>1, ThreeConcat
  <2> QED BY <2>2, <2>3 DEF x, y, z
<1>5. \/ Good(chain, <<k>>) \/ Good(chain, <<k, k + 1>>) \/ Good(chain, <<k, k + 1, k + 2>>)
  <2> HIDE DEF Good
  <2> QED BY <1>3, <1>4 DEF Chains
<1>6. ASSUME NEW f, f = <<k>> \/ f = <<k, k + 1>> \/ f = <<k, k + 1, k + 2>>
      PROVE  f \in Seq(Nat) /\ Len(f) \in Nat \ {0} /\ \A i \in 1 .. Len(f) : f[i] = k + i - 1
  <2>1. CASE f = <<k>>
    BY <2>1
  <2>2. CASE f = <<k, k + 1>>
    BY <2>2
  <2>3. CASE f = <<k, k + 1, k + 2>>
    BY <2>3
  <2> QED BY <1>6, <2>1, <2>2, <2>3
<1> QED BY <1>5, <1>6 DEF Units

-----------------------------------------------------------------------------
(***************************************************************************)
(* The way in.                                                              *)
(***************************************************************************)

Numbered(s) == s = [i \in 1 .. Len(s) |-> i]

\* Inbound and the credit given and not yet used, of a state's parts.
In(fed, b, q) == fed \o Content(b) \o Arrived(q)
Credit(n, b) == n.win + Len(FlattenSeq(b.pend)) + Len(Arrived(n.q))

Net == [pcb : {"open", "closed", "gone"}, sent : Nat, q : Seq(Seq(Seq(Nat))),
        win : Nat, wire : Seq(Nat)]
Tls == [fed : Seq(Nat), enc : Nat, left : BOOLEAN, dead : BOOLEAN]

LEMMA InboundIs ==
  /\ Inbound = In(tls.fed, bio, net.q)
  /\ TypeInv <=> net \in Net /\ bio \in Bio /\ tls \in Tls
  /\ CreditMatches <=> (net.pcb = "open" => Credit(net, bio) = Window)
  /\ OrderInv <=> (net.pcb = "open" /\ bio.cap > 0 =>
                     Numbered(Inbound) /\ (net.sent < Len(Stream) => net.sent = Len(Inbound)))
BY DEF Inbound, In, Content, TypeInv, Net, Tls, CreditMatches, Credit, OrderInv, Numbered

\* What is read, buffered, held and queued is the same before and after, and so is
\* the credit.
Kept ==
  net'.pcb = "open" =>
    /\ net.pcb = "open" /\ net'.sent = net.sent
    /\ Credit(net', bio') = Credit(net, bio)
    /\ bio'.cap > 0 => bio.cap > 0
    /\ bio.cap > 0 => Inbound' = Inbound

LEMMA KeptInbound ==
  ASSUME OrderInv, CreditMatches, Kept
  PROVE  OrderInv' /\ CreditMatches'
<1>1. ASSUME net'.pcb = "open" PROVE Credit(net', bio') = Window
  BY <1>1, InboundIs DEF Kept
<1>2. ASSUME net'.pcb = "open", bio'.cap > 0
      PROVE  Numbered(Inbound') /\ (net'.sent < Len(Stream) => net'.sent = Len(Inbound'))
  BY <1>2, InboundIs DEF Kept
<1>3. OrderInv'
  BY <1>2 DEF OrderInv, Numbered
<1>4. CreditMatches'
  BY <1>1 DEF CreditMatches, Credit
<1> QED BY <1>3, <1>4

\* Steps that touch nothing of what comes in, or lose the pcb.
Still ==
  /\ bio' = bio /\ tls'.fed = tls.fed
  /\ net'.pcb = "open" =>
       net.pcb = "open" /\ net'.sent = net.sent /\ net'.q = net.q /\ net'.win = net.win

LEMMA StillIsKept == Still => Kept
<1> SUFFICES ASSUME Still, net'.pcb = "open"
    PROVE  /\ net.pcb = "open" /\ net'.sent = net.sent
           /\ Credit(net', bio') = Credit(net, bio)
           /\ bio'.cap > 0 => bio.cap > 0
           /\ Inbound' = Inbound
  BY DEF Kept
<1>1. Inbound' = Inbound
  BY DEF Still, Inbound, Unread, Arrived
<1> QED BY <1>1 DEF Still, Credit

\* The buffer is fed with a chain, which leaves the queue r to come as q.
FedFrom(b, r, f, q) ==
  /\ f.b \in Bio /\ f.n \in Nat
  /\ f.b.cap > 0 => b.cap > 0
  /\ f.n + Len(FlattenSeq(f.b.pend)) + Len(Arrived(q))
       = Len(FlattenSeq(b.pend)) + Len(Arrived(r))
  /\ b.cap > 0 => \A fed \in Seq(Nat) : In(fed, f.b, q) = In(fed, b, r)

LEMMA FeedKeeps ==
  ASSUME NEW b \in Bio, NEW chain \in Seq(Seq(Nat)), NEW grow \in Nat,
         NEW r \in Seq(Seq(Seq(Nat))), NEW q \in Seq(Seq(Seq(Nat))),
         Arrived(r) = FlattenSeq(chain) \o Arrived(q)
  PROVE  FedFrom(b, r, FeedRx(b, chain, grow), q)
<1> DEFINE f == FeedRx(b, chain, grow)
           x == FlattenSeq(chain)
           y == Arrived(q)
<1>1. x \in Seq(Nat) /\ y \in Seq(Nat) /\ Arrived(r) = x \o y
  BY FlattenType, ArrivedType
<1>2. /\ f.b \in Bio /\ f.n \in Nat /\ (f.b.cap = 0 <=> b.cap = 0)
      /\ f.n + Len(FlattenSeq(f.b.pend)) = Len(FlattenSeq(b.pend)) + Len(x)
      /\ b.cap > 0 => Content(f.b) = Content(b) \o x
  BY FeedRxCorrect
<1> HIDE DEF f, x, y
<1>3. f.n + Len(FlattenSeq(f.b.pend)) + Len(y) = Len(FlattenSeq(b.pend)) + Len(Arrived(r))
  <2> DEFINE p0 == Len(FlattenSeq(b.pend))
             p1 == Len(FlattenSeq(f.b.pend))
             lx == Len(x)
             ly == Len(y)
             l == Len(Arrived(r))
             n == f.n
  <2>1. p0 \in Nat /\ p1 \in Nat /\ lx \in Nat /\ ly \in Nat /\ n \in Nat
    BY <1>1, <1>2, PendIs
  <2>2. l = lx + ly
    BY <1>1, ConcatProperties
  <2>3. n + p1 = p0 + lx
    BY <1>2
  <2> HIDE DEF p0, p1, lx, ly, l, n
  <2>4. n + p1 + ly = p0 + l
    BY <2>1, <2>2, <2>3
  <2> QED BY <2>4 DEF p0, p1, ly, l, n
<1>4. f.b.cap > 0 => b.cap > 0
  <2>1. f.b.cap \in Nat /\ b.cap \in Nat
    BY <1>2, BioParts
  <2> QED BY <1>2, <2>1
<1>5. ASSUME b.cap > 0, NEW fed \in Seq(Nat) PROVE In(fed, f.b, q) = In(fed, b, r)
  <2> DEFINE c == Content(b)
  <2>1. In(fed, f.b, q) = fed \o (c \o x) \o y /\ In(fed, b, r) = fed \o c \o (x \o y)
    BY <1>1, <1>2, <1>5 DEF In, y
  <2>2. c \in Seq(Nat)
    BY PendIs
  <2> HIDE DEF c
  <2>3. fed \o (c \o x) \o y = fed \o c \o (x \o y)
    <3>1. \A s, t, u \in Seq(Nat) : (s \o t) \o u = s \o (t \o u) /\ s \o t \in Seq(Nat)
      BY SMTT(30)
    <3>2. fed \o (c \o x) = (fed \o c) \o x /\ fed \o c \in Seq(Nat)
      BY <1>1, <2>2, <3>1, Zenon
    <3>3. ((fed \o c) \o x) \o y = (fed \o c) \o (x \o y)
      BY <1>1, <3>1, <3>2, Zenon
    <3> QED BY <3>2, <3>3, Zenon
  <2> QED BY <2>1, <2>3
<1> QED BY <1>2, <1>3, <1>4, <1>5 DEF f, FedFrom, y

\* Feeding from the queue keeps what comes in, and the credit of what was consumed.
LEMMA FedIsKept ==
  ASSUME TypeInv, NEW f, NEW q, FedFrom(bio, net.q, f, q),
         bio' = f.b, tls' = tls, net'.q = q, net'.win = net.win + f.n,
         net'.pcb = net.pcb, net'.sent = net.sent
  PROVE  Kept
<1>1. net \in Net /\ bio \in Bio /\ tls \in Tls
  BY InboundIs
<1>2. Credit(net', bio') = Credit(net, bio)
  <2> DEFINE p0 == Len(FlattenSeq(bio.pend))
             p1 == Len(FlattenSeq(f.b.pend))
             l0 == Len(Arrived(net.q))
             l1 == Len(Arrived(q))
             n == f.n
             w == net.win
  <2>1. /\ p0 \in Nat /\ p1 \in Nat /\ l0 \in Nat /\ n \in Nat /\ w \in Nat
        /\ n + p1 + l1 = p0 + l0
    <3>1. f.b \in Bio /\ n \in Nat /\ n + p1 + l1 = p0 + l0
      BY DEF FedFrom
    <3>2. net.q \in Seq(Seq(Seq(Nat))) /\ w \in Nat
      BY <1>1 DEF Net
    <3> QED BY <1>1, <3>1, <3>2, PendIs, ArrivedType
  <2>2. Credit(net', bio') = (w + n) + p1 + l1 /\ Credit(net, bio) = w + p0 + l0
    BY DEF Credit
  <2>3. l1 \in Int
    BY <2>1
  <2> HIDE DEF p0, p1, l0, l1, n, w
  <2> QED BY <2>1, <2>2, <2>3
<1>3. bio.cap > 0 => Inbound' = Inbound
  <2>1. Inbound = In(tls.fed, bio, net.q) /\ Inbound' = In(tls.fed, f.b, q)
    BY DEF Inbound, In, Content, Unread, Arrived
  <2>2. tls.fed \in Seq(Nat)
    BY <1>1 DEF Tls
  <2> QED BY <2>1, <2>2 DEF FedFrom
<1> QED BY <1>2, <1>3 DEF Kept, FedFrom

LEMMA FinIsKept ==
  ASSUME TypeInv, net.q # << >>, Head(net.q) = << >>,
         net' = [net EXCEPT !.q = Tail(@)], bio' = bio, tls' = tls
  PROVE  net' \in Net /\ Kept
<1>1. net \in Net /\ net.q \in Seq(Seq(Seq(Nat)))
  BY InboundIs DEF Net
<1> DEFINE t == Tail(net.q)
<1>2. t \in Seq(Seq(Seq(Nat))) /\ Arrived(net.q) = FlattenSeq(<< >>) \o Arrived(t)
  BY <1>1, ArrivedHead
<1>3. Arrived(t) \in Seq(Nat)
  BY <1>2, ArrivedType
<1>4. Arrived(net.q) = Arrived(t)
  <2>1. << >> \o Arrived(t) = Arrived(t)
    BY <1>3, ConcatEmptySeq
  <2> QED BY <1>2, <2>1, FlattenEmpty
<1>5. net' = [net EXCEPT !.q = t]
  OBVIOUS
<1> HIDE DEF t
<1>6. /\ net' \in Net /\ net'.q = t /\ net'.win = net.win /\ net'.pcb = net.pcb
      /\ net'.sent = net.sent
  BY <1>1, <1>2, <1>5 DEF Net
<1>7. Inbound' = In(tls.fed, bio, t) /\ Inbound = In(tls.fed, bio, net.q)
  <2>1. Inbound' = In(tls'.fed, bio', net'.q) /\ Inbound = In(tls.fed, bio, net.q)
    BY DEF Inbound, In, Content, Unread, Arrived
  <2>2. tls'.fed = tls.fed /\ bio' = bio /\ net'.q = t
    BY <1>6
  <2> QED BY <2>1, <2>2, Zenon
<1>8. In(tls.fed, bio, t) = In(tls.fed, bio, net.q)
  BY <1>4 DEF In
<1>9. Credit(net', bio') = Credit(net, bio)
  BY <1>4, <1>6 DEF Credit
<1> QED BY <1>6, <1>7, <1>8, <1>9 DEF Kept

LEMMA PullIsKept ==
  ASSUME TypeInv, Pull, net' = net
  PROVE  TypeInv' /\ Kept
<1>1. /\ bio' \in Bio /\ bio'.cap = bio.cap /\ bio'.pend = bio.pend /\ tls' \in Tls
      /\ tls'.fed \o Content(bio') = tls.fed \o Content(bio)
  BY PullCorrect DEF Tls
<1>2. TypeInv'
  BY <1>1 DEF TypeInv, Tls
<1>3. Inbound' = In(tls'.fed, bio', net.q) /\ Inbound = In(tls.fed, bio, net.q)
  BY DEF Inbound, In, Content, Unread, Arrived
<1>4. In(tls'.fed, bio', net.q) = In(tls.fed, bio, net.q)
  BY <1>1 DEF In
<1> QED BY <1>1, <1>2, <1>3, <1>4 DEF Kept, Credit

\* Steps of the session or the pcb alone.
LEMMA QuietIsStill ==
  ASSUME TypeInv, bio' = bio, tls' = tls,
         \/ net' = net
         \/ \E p \in {"closed", "gone"} : net' = [net EXCEPT !.pcb = p, !.q = << >>]
  PROVE  TypeInv' /\ Still /\ net'.wire = net.wire
<1>1. CASE net' = net
  BY <1>1 DEF TypeInv, Still
<1>2. CASE \E p \in {"closed", "gone"} : net' = [net EXCEPT !.pcb = p, !.q = << >>]
  <2>1. PICK p \in {"closed", "gone"} : net' = [net EXCEPT !.pcb = p, !.q = << >>]
    BY <1>2
  <2>2. net \in Net /\ << >> \in Seq(Seq(Seq(Nat)))
    BY InboundIs
  <2>3. net' \in Net /\ net'.pcb = p /\ net'.wire = net.wire
    BY <2>1, <2>2 DEF Net
  <2> QED BY <2>3 DEF TypeInv, Still, Net
<1> QED BY <1>1, <1>2

LEMMA PutIs ==
  ASSUME TypeInv, NEW n \in Nat, NEW how, Put(n, how), bio' = bio
  PROVE  /\ TypeInv' /\ Still
         /\ tls'.enc = n
         /\ net'.wire = net.wire \/ net'.wire = Append(net.wire, n)
         /\ ~tls'.left => net'.wire = Append(net.wire, n)
<1>1. net \in Net /\ tls \in Tls
  BY InboundIs
<1> DEFINE w == IF how = "failed" \/ ~ses.pcb THEN net.wire ELSE Append(net.wire, n)
           left == how # "sent" \/ ~ses.pcb
<1>2. w \in Seq(Nat) /\ left \in BOOLEAN
  BY <1>1 DEF Net
<1>3. net' = [net EXCEPT !.wire = w] /\ tls' = [tls EXCEPT !.enc = n, !.left = left]
  BY DEF Put
<1>4. ~left => w = Append(net.wire, n)
  OBVIOUS
<1>5. w = net.wire \/ w = Append(net.wire, n)
  OBVIOUS
<1> HIDE DEF w, left
<1>6. net' \in Net /\ net'.wire = w /\ net'.q = net.q /\ net'.win = net.win
      /\ net'.pcb = net.pcb /\ net'.sent = net.sent
  BY <1>1, <1>2, <1>3 DEF Net
<1>7. tls' \in Tls /\ tls'.enc = n /\ tls'.left = left /\ tls'.fed = tls.fed
  BY <1>1, <1>2, <1>3 DEF Tls
<1> QED BY <1>4, <1>5, <1>6, <1>7 DEF TypeInv, Still, Net, Tls

LEMMA RecordType == TypeInv => Record \in Nat
BY DEF TypeInv, Record

Kinds == {"h", "m", "d", "x"}

LEMMA StreamLength == Len(Stream) \in Nat
<1> DEFINE l == 2 * Apps
           a == <<"h", "m", "h">>
           b == [i \in 1 .. l |-> IF i % 2 = 1 THEN "m" ELSE "d"]
           c == <<"x">>
<1>1. l \in Nat
  <2>1. Apps \in Nat
    BY ConstantsAssumption
  <2> QED BY <2>1
<1>2. Stream = a \o b \o c
  BY DEF Stream
<1> HIDE DEF l
<1>3. b \in Seq(Kinds)
  BY <1>1 DEF Kinds
<1>4. a \in Seq(Kinds) /\ c \in Seq(Kinds)
  BY DEF Kinds
<1> HIDE DEF a, b, c
<1>5. a \o b \in Seq(Kinds)
  BY <1>3, <1>4, ConcatProperties
<1>6. Stream \in Seq(Kinds)
  BY <1>2, <1>4, <1>5, ConcatProperties
<1> QED BY <1>6, LenProperties

\* What the peer has yet to send follows what has arrived.
LEMMA PeerSendOrder ==
  ASSUME TypeInv, OrderInv, CreditMatches, PeerSend
  PROVE  TypeInv' /\ OrderInv' /\ CreditMatches'
<1>1. /\ net \in Net /\ bio \in Bio /\ tls \in Tls /\ net.sent \in Nat /\ net.win \in Nat
      /\ net.q \in Seq(Seq(Seq(Nat)))
  BY InboundIs DEF Net
<1>2. PICK chain \in Chains(net.sent + 1) :
        /\ net.sent + Units(chain) <= Len(Stream) /\ Units(chain) <= net.win
        /\ net' = [net EXCEPT !.sent = @ + Units(chain), !.win = @ - Units(chain),
                              !.q = Append(@, chain)]
  BY DEF PeerSend
<1> DEFINE n == Units(chain)
           x == FlattenSeq(chain)
           k == net.sent
           q == Append(net.q, chain)
<1>3. /\ chain \in Seq(Seq(Nat)) /\ x \in Seq(Nat) /\ n \in Nat \ {0} /\ n = Len(x)
      /\ \A i \in 1 .. n : x[i] = (k + 1) + i - 1
  <2>1. k + 1 \in Nat
    BY <1>1
  <2> HIDE DEF k
  <2> QED BY <1>2, <2>1, ChainIs DEF k
<1>4. q \in Seq(Seq(Seq(Nat))) /\ Arrived(q) = Arrived(net.q) \o x
  BY <1>1, <1>3, ArrivedAppend
<1>5. Arrived(net.q) \in Seq(Nat) /\ Len(Arrived(net.q)) \in Nat
  BY <1>1, ArrivedType
<1>6. net.pcb = "open" /\ bio' = bio /\ tls' = tls
  BY DEF PeerSend
<1>7. net.sent + n \in Nat /\ net.win - n \in Nat
  <2> HIDE DEF n
  <2> QED BY <1>1, <1>2, <1>3 DEF n
<1>8. net' = [net EXCEPT !.sent = net.sent + n, !.win = net.win - n, !.q = q]
  BY <1>2
<1> HIDE DEF q, n, x
<1>9. /\ net' \in Net /\ net'.q = q /\ net'.win = net.win - n /\ net'.pcb = "open"
      /\ net'.sent = net.sent + n
  BY <1>1, <1>4, <1>6, <1>7, <1>8 DEF Net
<1>10. TypeInv'
  BY <1>1, <1>6, <1>9 DEF TypeInv, Net, Tls
<1>11. CreditMatches'
  <2> DEFINE p == Len(FlattenSeq(bio.pend))
             l == Len(Arrived(net.q))
             l1 == Len(Arrived(q))
  <2>1. p \in Nat /\ l \in Nat /\ l1 = l + n /\ n \in Nat
    <3>1. Len(Arrived(net.q) \o x) = l + Len(x)
      BY <1>3, <1>5, ConcatProperties
    <3> QED BY <1>1, <1>3, <1>4, <1>5, <3>1, PendIs
  <2>2. net.win + p + l = Window
    BY <1>6 DEF CreditMatches
  <2>3. net'.win + Len(FlattenSeq(bio'.pend)) + Len(Arrived(net'.q)) = (net.win - n) + p + l1
    BY <1>6, <1>9
  <2> HIDE DEF p, l, l1
  <2>4. (net.win - n) + p + l1 = Window
    BY <1>1, <2>1, <2>2
  <2> QED BY <2>3, <2>4 DEF CreditMatches, Arrived
<1>12. OrderInv'
  <2> SUFFICES ASSUME bio.cap > 0
      PROVE  Numbered(Inbound') /\ (net'.sent < Len(Stream) => net'.sent = Len(Inbound'))
    BY <1>6, <1>9 DEF OrderInv, Numbered
  <2> DEFINE s == Inbound
             u == Inbound'
  <2>1. Numbered(s) /\ (net.sent < Len(Stream) => net.sent = Len(s))
    BY <1>6 DEF OrderInv, Numbered
  <2>2. tls.fed \in Seq(Nat) /\ Content(bio) \in Seq(Nat)
    BY <1>1, PendIs DEF Tls
  <2>3. tls.fed \o Content(bio) \in Seq(Nat)
    BY <2>2, ConcatProperties
  <2>4. s = (tls.fed \o Content(bio)) \o Arrived(net.q)
    BY DEF Inbound, Content
  <2>5. u = (tls.fed \o Content(bio)) \o (Arrived(net.q) \o x)
    <3>1. u = (tls.fed \o Content(bio)) \o Arrived(q)
      BY <1>6, <1>9 DEF Inbound, Content, Unread, Arrived
    <3> QED BY <1>4, <3>1
  <2>6. s \in Seq(Nat) /\ u = s \o x
    <3> DEFINE a == tls.fed \o Content(bio)
               b == Arrived(net.q)
    <3>1. a \in Seq(Nat) /\ b \in Seq(Nat) /\ x \in Seq(Nat) /\ s = a \o b /\ u = a \o (b \o x)
      BY <1>3, <1>5, <2>3, <2>4, <2>5
    <3> HIDE DEF a, b, s, u
    <3>2. a \o b \in Seq(Nat) /\ (a \o b) \o x = a \o (b \o x)
      BY <3>1, ConcatProperties, ConcatAssociative
    <3> QED BY <3>1, <3>2
  <2> HIDE DEF s, u
  <2>7. net.sent = Len(s)
    <3>1. Len(Stream) \in Nat
      BY StreamLength
    <3> QED BY <1>1, <1>2, <1>3, <2>1, <3>1 DEF n
  <2>8. /\ u \in Seq(Nat) /\ Len(u) = Len(s) + n /\ Len(s) \in Nat
        /\ \A i \in 1 .. Len(s) + n : u[i] = IF i <= Len(s) THEN s[i] ELSE x[i - Len(s)]
    BY <1>3, <2>6, ConcatProperties
  <2>9. \A i \in 1 .. Len(s) : s[i] = i
    BY <2>1 DEF Numbered
  <2>10. \A i \in 1 .. Len(s) + n : u[i] = i
    <3> SUFFICES ASSUME NEW i \in 1 .. Len(s) + n PROVE u[i] = i
      OBVIOUS
    <3>1. CASE i <= Len(s)
      BY <2>8, <2>9, <3>1
    <3>2. CASE ~(i <= Len(s))
      <4> DEFINE j == i - Len(s)
      <4>1. j \in 1 .. n
        BY <1>3, <2>8, <3>2
      <4>2. u[i] = x[j] /\ k = Len(s)
        BY <2>7, <2>8, <3>2
      <4> HIDE DEF k
      <4>3. x[j] = (k + 1) + j - 1
        BY <1>3, <4>1
      <4> QED BY <2>8, <4>1, <4>2, <4>3
    <3> QED BY <3>1, <3>2
  <2>11. Numbered(u)
    BY <2>8, <2>10 DEF Numbered
  <2>12. net'.sent = Len(u)
    BY <1>9, <2>7, <2>8
  <2> QED BY <2>11, <2>12 DEF u
<1> QED BY <1>10, <1>11, <1>12

LEMMA PeerFinOrder ==
  ASSUME TypeInv, OrderInv, CreditMatches, PeerFin
  PROVE  TypeInv' /\ OrderInv' /\ CreditMatches'
<1> DEFINE q == Append(net.q, << >>)
           l == Len(Stream)
<1>1. /\ net \in Net /\ bio \in Bio /\ tls \in Tls /\ net.q \in Seq(Seq(Seq(Nat))) /\ l \in Nat
  BY InboundIs, StreamLength DEF Net
<1>2. q \in Seq(Seq(Seq(Nat))) /\ Arrived(q) = Arrived(net.q)
  <2>1. << >> \in Seq(Seq(Nat)) /\ FlattenSeq(<< >>) = << >>
    BY FlattenEmpty
  <2>2. q \in Seq(Seq(Seq(Nat))) /\ Arrived(q) = Arrived(net.q) \o FlattenSeq(<< >>)
    BY <1>1, <2>1, ArrivedAppend
  <2>3. Arrived(net.q) \in Seq(Nat)
    BY <1>1, ArrivedType
  <2> QED BY <2>1, <2>2, <2>3, ConcatEmptySeq
<1>3. net.pcb = "open" /\ bio' = bio /\ tls' = tls
      /\ net' = [net EXCEPT !.sent = l, !.q = q]
  BY DEF PeerFin
<1> HIDE DEF q, l
<1>4. /\ net' \in Net /\ net'.q = q /\ net'.win = net.win /\ net'.pcb = "open"
      /\ net'.sent = l
  BY <1>1, <1>2, <1>3 DEF Net
<1>5. TypeInv'
  BY <1>1, <1>3, <1>4 DEF TypeInv, Net, Tls
<1>6. CreditMatches'
  <2>1. net.win + Len(FlattenSeq(bio.pend)) + Len(Arrived(net.q)) = Window
    BY <1>3 DEF CreditMatches
  <2>2. net'.win + Len(FlattenSeq(bio'.pend)) + Len(Arrived(net'.q)) = Window
    BY <1>2, <1>3, <1>4, <2>1
  <2> QED BY <2>2 DEF CreditMatches, Arrived
<1>7. Inbound' = Inbound
  <2>1. Inbound' = In(tls'.fed, bio', net'.q) /\ Inbound = In(tls.fed, bio, net.q)
    BY DEF Inbound, In, Content, Unread, Arrived
  <2>2. In(tls'.fed, bio', net'.q) = In(tls.fed, bio, q)
    BY <1>3, <1>4, Zenon
  <2>3. In(tls.fed, bio, q) = In(tls.fed, bio, net.q)
    BY <1>2 DEF In
  <2> QED BY <2>1, <2>2, <2>3
<1>8. OrderInv'
  <2> SUFFICES ASSUME bio.cap > 0
      PROVE  Numbered(Inbound') /\ (net'.sent < Len(Stream) => net'.sent = Len(Inbound'))
    BY <1>3, <1>4 DEF OrderInv, Numbered
  <2>1. Numbered(Inbound)
    BY <1>3 DEF OrderInv, Numbered
  <2>2. ~(net'.sent < Len(Stream))
    BY <1>1, <1>4 DEF l
  <2> QED BY <1>7, <2>1, <2>2
<1> QED BY <1>5, <1>6, <1>8

\* Every other step keeps what comes in.
LEMMA OtherIsKept ==
  ASSUME TypeInv, [Next]_vars, ~PeerSend, ~PeerFin
  PROVE  TypeInv' /\ Kept
<1>1. /\ net \in Net /\ bio \in Bio /\ tls \in Tls /\ net.q \in Seq(Seq(Seq(Nat)))
      /\ net.win \in Nat
  BY InboundIs DEF Net
<1>2. ASSUME TypeInv' /\ Still PROVE TypeInv' /\ Kept
  BY <1>2, StillIsKept
<1>3. CASE \/ BeginClient \/ BeginServer \/ ShakeEnter \/ ShakeWait \/ ShakeFail \/ ShakeDone
           \/ ReadFail \/ Poll \/ PeerReset \/ AppClose \/ Closed("async") \/ Closed("app")
           \/ UNCHANGED vars
  <2>1. bio' = bio /\ tls' = tls
    BY <1>3 DEF BeginClient, BeginServer, ShakeEnter, ShakeWait, ShakeFail, ShakeDone,
      ReadFail, Poll, PeerReset, AppClose, Closed, vars
  <2>2. \/ net' = net
        \/ \E p \in {"closed", "gone"} : net' = [net EXCEPT !.pcb = p, !.q = << >>]
    BY <1>3 DEF BeginClient, BeginServer, ShakeEnter, ShakeWait, ShakeFail, ShakeDone,
      ReadFail, Poll, PeerReset, AppClose, Closed, vars
  <2> QED BY <1>2, <2>1, <2>2, QuietIsStill
<1>4. CASE Recv
  <2>1. net.q # << >>
    BY <1>4 DEF Recv
  <2> DEFINE h == Head(net.q)
             t == Tail(net.q)
  <2>2. h \in Seq(Seq(Nat)) /\ t \in Seq(Seq(Seq(Nat))) /\ Arrived(net.q) = FlattenSeq(h) \o Arrived(t)
    BY <1>1, <2>1, ArrivedHead
  <2>3. PICK grow \in {0, BufMax} :
          /\ bio' = FeedRx(bio, h, grow).b
          /\ net' = [net EXCEPT !.q = t, !.win = @ + FeedRx(bio, h, grow).n]
    BY <1>4 DEF Recv
  <2>4. grow \in Nat /\ tls' = tls
    BY <1>4, ConstantsAssumption DEF Recv
  <2> DEFINE f == FeedRx(bio, h, grow)
  <2> HIDE DEF h, t
  <2>5. FedFrom(bio, net.q, f, t)
    BY <1>1, <2>2, <2>4, FeedKeeps
  <2>6. bio' = f.b /\ net' = [net EXCEPT !.q = t, !.win = net.win + f.n]
    BY <2>3
  <2> HIDE DEF f
  <2>7. /\ net' \in Net /\ net'.q = t /\ net'.win = net.win + f.n /\ net'.pcb = net.pcb
        /\ net'.sent = net.sent
    <3>1. net.win + f.n \in Nat
      BY <1>1, <2>5 DEF FedFrom
    <3> QED BY <1>1, <2>2, <2>6, <3>1 DEF Net
  <2>8. Kept
    BY <2>4, <2>5, <2>6, <2>7, FedIsKept
  <2>9. TypeInv'
    BY <1>1, <2>4, <2>5, <2>6, <2>7 DEF TypeInv, Net, Tls, FedFrom
  <2> QED BY <2>8, <2>9
<1>5. CASE Fin
  <2>1. net' \in Net /\ Kept /\ bio' = bio /\ tls' = tls
    BY <1>5, FinIsKept DEF Fin
  <2> QED BY <1>1, <2>1 DEF TypeInv, Net, Tls
<1>6. CASE ShakeRead \/ ReadRecord
  BY <1>6, PullIsKept DEF ShakeRead, ReadRecord
<1>7. CASE ReadNone
  <2>1. CASE pc = "again"
    <3>1. bio' = bio /\ tls' = tls /\ net' = net
      BY <1>7, <2>1 DEF ReadNone
    <3> QED BY <1>2, <3>1, QuietIsStill
  <2>2. CASE pc # "again"
    <3>1. PICK grow \in {0, BufMax} :
            /\ bio' = FeedRx(bio, << >>, grow).b
            /\ net' = IF net.pcb = "open" THEN [net EXCEPT !.win = @ + FeedRx(bio, << >>, grow).n]
                      ELSE net
      BY <1>7, <2>2 DEF ReadNone
    <3>2. grow \in Nat /\ tls' = tls
      BY <1>7, ConstantsAssumption DEF ReadNone
    <3> DEFINE f == FeedRx(bio, << >>, grow)
               q == net.q
    <3>3. FedFrom(bio, net.q, f, q)
      <4>1. << >> \in Seq(Seq(Nat)) /\ Arrived(q) \in Seq(Nat)
        BY <1>1, ArrivedType
      <4>2. Arrived(q) = FlattenSeq(<< >>) \o Arrived(q)
        BY <4>1, FlattenEmpty, ConcatEmptySeq
      <4> QED BY <1>1, <3>2, <4>1, <4>2, FeedKeeps
    <3>4. bio' = f.b /\ net' = IF net.pcb = "open" THEN [net EXCEPT !.win = net.win + f.n] ELSE net
      BY <3>1
    <3> HIDE DEF f
    <3>5. net.win + f.n \in Nat
      BY <1>1, <3>3 DEF FedFrom
    <3>6. CASE net.pcb = "open"
      <4>1. /\ net' \in Net /\ net'.q = q /\ net'.win = net.win + f.n /\ net'.pcb = net.pcb
            /\ net'.sent = net.sent
        BY <1>1, <3>4, <3>5, <3>6 DEF Net
      <4>2. Kept
        BY <3>2, <3>3, <3>4, <4>1, FedIsKept
      <4> QED BY <1>1, <3>2, <3>3, <3>4, <4>1, <4>2 DEF TypeInv, Net, Tls, FedFrom
    <3>7. CASE net.pcb # "open"
      <4>1. net' = net
        BY <3>4, <3>7
      <4> QED BY <1>1, <3>2, <3>3, <3>4, <3>7, <4>1 DEF TypeInv, Net, Tls, FedFrom, Kept
    <3> QED BY <3>6, <3>7
  <2> QED BY <2>1, <2>2
<1>8. CASE ShakeSend
  <2>1. \E how \in Outcome : Put(Record, how)
    BY <1>8 DEF ShakeSend
  <2>2. bio' = bio
    BY <1>8 DEF ShakeSend
  <2> QED BY <1>2, <2>1, <2>2, RecordType, PutIs
<1>9. CASE AppWrite
  <2>1. bio' = bio
    BY <1>9 DEF AppWrite
  <2>2. CASE ses.done /\ ses.pcb
    <3>1. \E how \in Outcome : Put(Record, how)
      BY <1>9, <2>2 DEF AppWrite, SessionWrite
    <3> QED BY <1>2, <2>1, <3>1, RecordType, PutIs
  <2>3. CASE ~(ses.done /\ ses.pcb)
    <3>1. net' = [net EXCEPT !.wire = Append(@, 0)] /\ tls' = tls
      BY <1>9, <2>3 DEF AppWrite
    <3>2. Append(net.wire, 0) \in Seq(Nat)
      BY <1>1 DEF Net
    <3>3. net' \in Net /\ net'.q = net.q /\ net'.win = net.win /\ net'.pcb = net.pcb
          /\ net'.sent = net.sent
      BY <1>1, <3>1, <3>2 DEF Net
    <3>4. TypeInv' /\ Still
      BY <1>1, <2>1, <3>1, <3>3 DEF TypeInv, Net, Tls, Still
    <3> QED BY <1>2, <3>4
  <2> QED BY <2>2, <2>3
<1> QED BY <1>3, <1>4, <1>5, <1>6, <1>7, <1>8, <1>9 DEF Next, Async, Network, Application

-----------------------------------------------------------------------------
(***************************************************************************)
(* The way out.                                                             *)
(***************************************************************************)

InOrder(w) ==
  \A i \in 1 .. Len(w) : w[i] > 0 =>
    /\ \A j \in 1 .. i - 1 : w[j] <= w[i]
    /\ w[i] > 1 => \E j \in 1 .. i - 1 : w[j] = w[i] - 1

\* RecordInv of a wire and of mbedTLS's count.
Records(w, enc, left) ==
  /\ InOrder(w)
  /\ \A i \in 1 .. Len(w) : w[i] <= enc
  /\ \A n \in 1 .. enc : (n < enc \/ ~left) => \E i \in 1 .. Len(w) : w[i] = n

LEMMA RecordInvIs == RecordInv <=> Records(net.wire, tls.enc, tls.left)
BY DEF RecordInv, RecordsInOrder, Records, InOrder

\* A record that is no newer than the next one, or bytes that are none, go to the wire.
LEMMA RecordsAppend ==
  ASSUME NEW w \in Seq(Nat), NEW enc \in Nat, NEW left \in BOOLEAN, Records(w, enc, left),
         NEW n \in Nat, n = 0 \/ n = IF left THEN enc ELSE enc + 1
  PROVE  /\ InOrder(Append(w, n))
         /\ \A i \in 1 .. Len(Append(w, n)) : Append(w, n)[i] <= IF n = 0 THEN enc ELSE n
<1> DEFINE v == Append(w, n)
           m == Len(w)
<1>1. /\ v \in Seq(Nat) /\ Len(v) = m + 1 /\ m \in Nat /\ v[m + 1] = n
      /\ \A i \in 1 .. m : v[i] = w[i]
  BY AppendProperties
<1> HIDE DEF v, m
<1>2. \A i \in 1 .. m : w[i] <= enc /\ w[i] \in Nat
  BY DEF Records, m
<1>3. \A i \in 1 .. m + 1 : v[i] <= IF n = 0 THEN enc ELSE n
  <2> SUFFICES ASSUME NEW i \in 1 .. m + 1 PROVE v[i] <= IF n = 0 THEN enc ELSE n
    OBVIOUS
  <2>1. CASE i \in 1 .. m
    <3>1. v[i] = w[i] /\ w[i] <= enc /\ w[i] \in Nat
      BY <1>1, <1>2, <2>1
    <3>2. CASE n = 0
      BY <3>1, <3>2
    <3>3. CASE n # 0
      <4>1. enc <= n
        BY <3>3
      <4> QED BY <3>1, <3>3, <4>1
    <3> QED BY <3>2, <3>3
  <2>2. CASE i = m + 1
    BY <1>1, <2>2
  <2> QED BY <1>1, <2>1, <2>2
<1>4. InOrder(v)
  <2> SUFFICES ASSUME NEW i \in 1 .. m + 1, v[i] > 0
      PROVE  /\ \A j \in 1 .. i - 1 : v[j] <= v[i]
             /\ v[i] > 1 => \E j \in 1 .. i - 1 : v[j] = v[i] - 1
    BY <1>1 DEF InOrder
  <2>1. CASE i \in 1 .. m
    <3>1. /\ \A j \in 1 .. i - 1 : w[j] <= w[i]
          /\ w[i] > 1 => \E j \in 1 .. i - 1 : w[j] = w[i] - 1
      BY <1>1, <2>1 DEF Records, InOrder, m
    <3>2. \A j \in 1 .. i - 1 : j \in 1 .. m
      BY <1>1, <2>1
    <3> QED BY <1>1, <2>1, <3>1, <3>2
  <2>2. CASE i = m + 1
    <3>1. v[i] = n /\ n > 0 /\ i - 1 = m
      BY <1>1, <2>2
    <3>2. \A j \in 1 .. m : v[j] <= n
      BY <1>1, <1>2, <3>1
    <3>3. ASSUME n > 1 PROVE \E j \in 1 .. m : v[j] = n - 1
      <4>1. n - 1 \in 1 .. enc /\ (n - 1 < enc \/ ~left)
        BY <3>1, <3>3
      <4>2. \E j \in 1 .. m : w[j] = n - 1
        BY <4>1 DEF Records, m
      <4> QED BY <1>1, <4>2
    <3> QED BY <3>1, <3>2, <3>3
  <2> QED BY <1>1, <2>1, <2>2
<1> QED BY <1>1, <1>3, <1>4 DEF v

\* Nothing else is written than the next record or, before the handshake, bytes as they are.
LEMMA WriteCases ==
  ASSUME TypeInv, [Next]_vars
  PROVE  \/ net'.wire = net.wire /\ tls'.enc = tls.enc /\ tls'.left = tls.left
         \/ net'.wire = Append(net.wire, 0) /\ tls' = tls
         \/ /\ tls'.enc = Record
            /\ net'.wire = net.wire \/ net'.wire = Append(net.wire, Record)
            /\ ~tls'.left => net'.wire = Append(net.wire, Record)
<1>1. net \in Net /\ tls \in Tls
  BY InboundIs
<1>2. CASE \/ BeginClient \/ BeginServer \/ ShakeEnter \/ ShakeWait \/ ShakeFail \/ ShakeDone
           \/ ReadFail \/ Poll \/ PeerReset \/ AppClose \/ Closed("async") \/ Closed("app")
           \/ UNCHANGED vars
  <2>1. bio' = bio /\ tls' = tls
    BY <1>2 DEF BeginClient, BeginServer, ShakeEnter, ShakeWait, ShakeFail, ShakeDone,
      ReadFail, Poll, PeerReset, AppClose, Closed, vars
  <2>2. \/ net' = net
        \/ \E p \in {"closed", "gone"} : net' = [net EXCEPT !.pcb = p, !.q = << >>]
    BY <1>2 DEF BeginClient, BeginServer, ShakeEnter, ShakeWait, ShakeFail, ShakeDone,
      ReadFail, Poll, PeerReset, AppClose, Closed, vars
  <2> QED BY <2>1, <2>2, QuietIsStill
<1>3. CASE Recv \/ Fin \/ ReadNone \/ PeerSend \/ PeerFin
  <2>1. tls' = tls
    BY <1>3 DEF Recv, Fin, ReadNone, PeerSend, PeerFin
  <2>2. net'.wire = net.wire
    BY <1>1, <1>3 DEF Recv, Fin, ReadNone, PeerSend, PeerFin, Net
  <2> QED BY <2>1, <2>2
<1>4. CASE ShakeRead \/ ReadRecord
  <2>1. net' = net /\ Pull
    BY <1>4 DEF ShakeRead, ReadRecord
  <2> QED BY <2>1, PullCorrect
<1>5. ASSUME NEW how, Put(Record, how), bio' = bio
      PROVE  /\ tls'.enc = Record
             /\ net'.wire = net.wire \/ net'.wire = Append(net.wire, Record)
             /\ ~tls'.left => net'.wire = Append(net.wire, Record)
  BY <1>5, RecordType, PutIs
<1>6. CASE ShakeSend
  <2>1. bio' = bio /\ \E how \in Outcome : Put(Record, how)
    BY <1>6 DEF ShakeSend
  <2> QED BY <1>5, <2>1
<1>7. CASE AppWrite
  <2>1. CASE ses.done /\ ses.pcb
    <3>1. bio' = bio /\ \E how \in Outcome : Put(Record, how)
      BY <1>7, <2>1 DEF AppWrite, SessionWrite
    <3> QED BY <1>5, <3>1
  <2>2. CASE ~(ses.done /\ ses.pcb)
    <3>1. net' = [net EXCEPT !.wire = Append(@, 0)] /\ tls' = tls
      BY <1>7, <2>2 DEF AppWrite
    <3> QED BY <1>1, <3>1 DEF Net
  <2> QED BY <2>1, <2>2
<1> QED BY <1>2, <1>3, <1>4, <1>6, <1>7 DEF Next, Async, Network, Application

LEMMA RecordNext ==
  ASSUME TypeInv, TypeInv', RecordInv, [Next]_vars
  PROVE  RecordInv'
<1> DEFINE w == net.wire
           v == net'.wire
           e == tls.enc
           f == tls'.enc
           n == Record
<1>1. /\ w \in Seq(Nat) /\ v \in Seq(Nat) /\ e \in Nat /\ f \in Nat /\ tls.left \in BOOLEAN
      /\ tls'.left \in BOOLEAN
  BY DEF TypeInv
<1>2. Records(w, e, tls.left)
  BY RecordInvIs
<1>3. n = IF tls.left THEN e ELSE e + 1
  BY DEF Record
<1>4. SUFFICES Records(v, f, tls'.left)
  BY DEF RecordInv, RecordsInOrder, Records, InOrder
<1>5. \/ v = w /\ f = e /\ tls'.left = tls.left
      \/ v = Append(w, 0) /\ f = e /\ tls'.left = tls.left
      \/ f = n /\ (v = w \/ v = Append(w, n)) /\ (~tls'.left => v = Append(w, n))
  BY WriteCases
<1> HIDE DEF w, v, e, f, n
<1>6. ASSUME NEW k \in Nat, v = Append(w, k)
      PROVE  /\ v[Len(v)] = k /\ Len(v) \in 1 .. Len(v) /\ Len(w) \in Nat /\ Len(v) = Len(w) + 1
             /\ \A i \in 1 .. Len(w) : i \in 1 .. Len(v) /\ v[i] = w[i]
  BY <1>1, <1>6, AppendProperties
<1>7. CASE v = w /\ f = e /\ tls'.left = tls.left
  BY <1>2, <1>7
<1>8. CASE v = Append(w, 0) /\ f = e /\ tls'.left = tls.left
  <2>1. InOrder(v) /\ \A i \in 1 .. Len(v) : v[i] <= f
    BY <1>1, <1>2, <1>8, RecordsAppend
  <2>2. ASSUME NEW j \in 1 .. f, j < f \/ ~tls'.left PROVE \E i \in 1 .. Len(v) : v[i] = j
    <3>1. \E i \in 1 .. Len(w) : w[i] = j
      BY <1>2, <1>8, <2>2 DEF Records
    <3> QED BY <1>6, <1>8, <3>1
  <2> QED BY <2>1, <2>2 DEF Records
<1>9. CASE f = n /\ v = Append(w, n)
  <2>1. n \in Nat /\ e \in Nat /\ (n = 0 => e = 0)
    BY <1>1, <1>3
  <2>2. InOrder(v) /\ \A i \in 1 .. Len(v) : v[i] <= f
    BY <1>1, <1>2, <1>3, <1>9, <2>1, RecordsAppend
  <2>3. ASSUME NEW j \in 1 .. f PROVE \E i \in 1 .. Len(v) : v[i] = j
    <3>1. CASE j = n
      BY <1>6, <1>9, <2>1, <3>1
    <3>2. CASE j # n
      <4>1. j \in 1 .. e /\ (j < e \/ ~tls.left)
        BY <1>1, <1>3, <1>9, <3>2
      <4>2. \E i \in 1 .. Len(w) : w[i] = j
        BY <1>2, <4>1 DEF Records
      <4> QED BY <1>6, <1>9, <2>1, <4>2
    <3> QED BY <3>1, <3>2
  <2> QED BY <2>2, <2>3 DEF Records
<1>10. CASE f = n /\ v = w /\ tls'.left
  <2>1. \A i \in 1 .. Len(w) : w[i] <= n
    <3> SUFFICES ASSUME NEW i \in 1 .. Len(w) PROVE w[i] <= n
      OBVIOUS
    <3>1. w[i] <= e /\ w[i] \in Nat
      BY <1>1, <1>2 DEF Records
    <3> QED BY <1>1, <1>3, <3>1
  <2>2. ASSUME NEW j \in 1 .. n, j < n PROVE \E i \in 1 .. Len(w) : w[i] = j
    <3>1. j \in 1 .. e /\ (j < e \/ ~tls.left)
      BY <1>1, <1>3, <2>2
    <3> QED BY <1>2, <3>1 DEF Records
  <2>3. InOrder(w)
    BY <1>2 DEF Records
  <2> QED BY <1>1, <1>10, <2>1, <2>2, <2>3 DEF Records
<1> QED BY <1>1, <1>5, <1>7, <1>8, <1>9, <1>10

-----------------------------------------------------------------------------
(***************************************************************************)
(* The theorems.                                                            *)
(***************************************************************************)

LEMMA MbedInit == Init => MbedInv
<1> SUFFICES ASSUME Init PROVE MbedInv
  OBVIOUS
<1>1. BufSize \in Nat /\ Window \in Nat
  BY ConstantsAssumption
<1>2. /\ net = [pcb |-> "open", sent |-> 0, q |-> << >>, win |-> Window, wire |-> << >>]
      /\ tls = [fed |-> << >>, enc |-> 0, left |-> FALSE, dead |-> FALSE]
      /\ bio.cap \in Nat /\ bio = [cap |-> bio.cap, data |-> << >>, pos |-> 0, pend |-> << >>]
  BY <1>1 DEF Init
<1>3. /\ << >> \in Seq(Nat) /\ << >> \in Seq(Seq(Nat)) /\ << >> \in Seq(Seq(Seq(Nat)))
      /\ Len(<< >>) = 0
  OBVIOUS
<1>4. bio \in Bio
  <2> DEFINE c == bio.cap
  <2>1. [cap |-> c, data |-> << >>, pos |-> 0, pend |-> << >>] \in Bio
    <3>1. c \in Nat
      BY <1>2
    <3> HIDE DEF c
    <3>2. 0 \in Nat /\ 0 <= Len(<< >>)
      BY <1>3
    <3> QED BY <1>3, <3>1, <3>2, BioMade
  <2> QED BY <1>2, <2>1
<1>5. TypeInv
  BY <1>1, <1>2, <1>3, <1>4 DEF TypeInv
<1>6. Arrived(<< >>) = << >>
  <2>1. [i \in 1 .. Len(<< >>) |-> FlattenSeq(<< >>[i])] = << >>
    BY <1>3
  <2> QED BY <2>1, FlattenEmpty DEF Arrived
<1>7. Unread(bio) = << >> /\ FlattenSeq(bio.pend) = << >>
  BY <1>2, FlattenEmpty DEF Unread
<1>8. CreditMatches
  BY <1>1, <1>2, <1>3, <1>6, <1>7 DEF CreditMatches
<1>9. Inbound = << >>
  BY <1>2, <1>6, <1>7 DEF Inbound
<1>10. OrderInv
  BY <1>2, <1>3, <1>9 DEF OrderInv
<1>11. RecordInv
  BY <1>2, <1>3 DEF RecordInv, RecordsInOrder
<1> QED BY <1>5, <1>8, <1>10, <1>11 DEF MbedInv

LEMMA MbedNext == MbedInv /\ [Next]_vars => MbedInv'
<1> SUFFICES ASSUME TypeInv, OrderInv, CreditMatches, RecordInv, [Next]_vars PROVE MbedInv'
  BY DEF MbedInv
<1>1. TypeInv' /\ OrderInv' /\ CreditMatches'
  BY PeerSendOrder, PeerFinOrder, OtherIsKept, KeptInbound
<1>2. RecordInv'
  BY <1>1, RecordNext
<1> QED BY <1>1, <1>2 DEF MbedInv

LEMMA MbedInvariant == Spec => []MbedInv
BY MbedInit, MbedNext, PTL DEF Spec

\* feedRx, whatever the sizes of the buffer, of its limit and of the pbufs and whatever
\* realloc grants: no byte that the peer sent is lost, doubled or overtaken on the way to mbedTLS.
THEOREM BytesInOrder == Spec => []WireOrder
<1>1. MbedInv => WireOrder
  BY DEF MbedInv, OrderInv, WireOrder
<1> QED BY <1>1, MbedInvariant, PTL

\* onRecv acknowledges exactly what mbedTLS was given: the peer's window lacks what is
\* queued or held back, for any window.
THEOREM CreditIsExact == Spec => []CreditMatches
<1>1. MbedInv => CreditMatches
  BY DEF MbedInv
<1> QED BY <1>1, MbedInvariant, PTL

\* However sends fail and whoever writes, records reach tcp_write in the order in
\* which they were encrypted and none is skipped.
THEOREM RecordsLeaveInOrder == Spec => []RecordsInOrder
<1>1. MbedInv => RecordsInOrder
  BY DEF MbedInv, RecordInv
<1> QED BY <1>1, MbedInvariant, PTL

=============================================================================
