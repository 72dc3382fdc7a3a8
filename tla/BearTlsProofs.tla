--------------------------- MODULE BearTlsProofs ---------------------------
(***************************************************************************)
(* Theorems about BearTls, for every set of connections, every size of the  *)
(* ring and of the windows, every bound of the engine and every length of   *)
(* the talk.  All the state of a connection is its session record, and      *)
(* every operation is a function of it: the lemmas say of each operation    *)
(* which fields it leaves alone and that it keeps the record well formed.   *)
(***************************************************************************)
EXTENDS BearTls, SequenceLemmas, FiniteSetTheorems

-----------------------------------------------------------------------------
(* What the record of a connection is.                                     *)

Unit == [slot : 0 .. Slots, rec : Nat]

Field == {"tcp", "sent", "rxq", "win", "wire", "acks", "lost", "live", "pend", "off", "fed", "app",
          "st", "out", "next", "pinned", "acked", "len", "rec", "n", "defer", "stall",
          "pump", "sched", "hs", "done", "told", "got", "quiet", "wrote"}

IsRecord(r) == r = [x \in Field |-> r[x]]

NetType(r) ==
  /\ r.tcp \in {"none", "open", "closing", "gone"} /\ r.sent \in Nat /\ r.rxq \in Seq(0 .. 2)
  /\ r.win \in Nat /\ r.wire \in Seq(Unit) /\ Len(r.wire) <= SndBuf /\ r.acks \in Nat
  /\ r.lost \in Nat
InType(r) ==
  /\ r.pend \in Seq(1 .. 2) /\ Len(r.pend) <= PendMax /\ r.off \in Nat
  /\ r.off < IF r.pend = << >> THEN 1 ELSE Head(r.pend)
  /\ r.fed \in Nat /\ r.app \in BOOLEAN /\ r.st \in {"hs", "open", "shut"}
RingType(r) ==
  /\ r.next \in Slot /\ r.pinned \in 0 .. Slots /\ r.acked \in 0 .. 1
  /\ r.len \in [Slot -> 0 .. 2] /\ r.rec \in [Slot -> Nat]
OutType(r) ==
  /\ r.out \in Seq(1 .. 2) /\ r.n \in Nat /\ r.defer \in BOOLEAN /\ r.stall \in Nat
  /\ r.pump \in {"idle", "dropped", "queued"} /\ r.sched \in BOOLEAN
AppType(r) ==
  /\ r.live \in BOOLEAN /\ r.hs \in BOOLEAN /\ r.done \in BOOLEAN /\ r.told \in BOOLEAN
  /\ r.got \in Nat /\ r.quiet \in Nat /\ r.wrote \in Nat

Session(r) ==
  IsRecord(r) /\ NetType(r) /\ InType(r) /\ RingType(r) /\ OutType(r) /\ AppType(r)

\* What has come in and what is queued.
Arrived(r) == r.fed + (SumOf(r.pend) - r.off) + SumOf(r.rxq)

\* The window is whole, and no more came in than the peer has sent.
InOK(r) ==
  /\ r.win + SumOf(r.rxq) + SumOf(r.pend) = Window
  /\ Arrived(r) <= r.sent /\ r.sent <= Len(Stream)

\* The handshake and what follows it: the peer's data comes after both of our
\* records, and until the application was told only the flights were emitted.
TalkOK(c, r) ==
  /\ r.hs = r.told /\ (r.got > 0 => r.told)
  /\ r.st = "hs" => r.fed < 2
  /\ r.app => r.fed > 2
  /\ Arrived(r) > 2 => r.n >= 2
  /\ ~r.hs /\ c \notin Server => r.n + Len(r.out) = IF r.fed = 0 THEN 1 ELSE 2

\* RingMatchesWire: all that is on the wire comes from the ring.
RingOK(r) ==
  /\ \A i \in 1 .. Len(r.wire) : r.wire[i].slot # NoSlot
  /\ SumOf(Pinned(r)) = r.acked + r.acks + r.lost + Len(r.wire)

\* Unit p of those that the pinned slots hold is in the j-th of them.
InNth(r, j, p) == Prefix(Pinned(r), j - 1) < p /\ p <= Prefix(Pinned(r), j)

\* What is on the wire is the end of what the pinned slots hold; but for slot
\* 0 they still hold the records it belongs to.
HoldOK(r) ==
  \A i \in 1 .. Len(r.wire), j \in 1 .. r.pinned :
    InNth(r, j, r.acked + r.acks + r.lost + i) =>
      /\ r.wire[i].slot = Nth(r, j)
      /\ Nth(r, j) # 0 => r.rec[Nth(r, j)] = r.wire[i].rec

LiveOK(c, r) == InOK(r) /\ TalkOK(c, r) /\ RingOK(r) /\ HoldOK(r)

Good(c, r) ==
  /\ Session(r)
  /\ r.live <=> r.tcp = "open"
  /\ r.tcp = "none" => r = Fresh
  /\ IF r.live THEN LiveOK(c, r) ELSE r.got = 0

\* PumpArmed, of one connection.
Armed(r) == r.live /\ SendRec(r) /\ ~r.defer /\ r.pinned < Slots => r.pump # "idle"

RunType == /\ run \in [conn : Nat, pass : 0 .. FeedLoops,
                       from : {"none", "poll", "schedule", "start"}]
           /\ run = NoRun \/ run.conn \in Conn

BearInv ==
  /\ s = [c \in Conn |-> s[c]]
  /\ RunType
  /\ \A c \in Conn : Good(c, s[c]) /\ (run.conn # c \/ run.pass = FeedLoops => Armed(s[c]))

-----------------------------------------------------------------------------
(* Records that agree but for the fields X.                                *)

Keeps(r, t, X) == IsRecord(t) /\ \A x \in Field \ X : t[x] = r[x]

InFields == {"win", "rxq", "pend", "off", "fed", "sent"}
TalkFields == {"hs", "told", "got", "st", "fed", "app", "pend", "off", "rxq", "n", "out"}
RingFields == {"wire", "acks", "lost", "acked", "next", "pinned", "len"}

LEMMA InKept ==
  ASSUME NEW r, NEW t, NEW X, Keeps(r, t, X), X \cap InFields = {}
  PROVE  Arrived(t) = Arrived(r) /\ (InOK(r) => InOK(t))
<1>1. \A x \in InFields : t[x] = r[x]
  BY DEF Keeps, InFields, Field
<1>2. t.win = r.win /\ t.rxq = r.rxq /\ t.pend = r.pend /\ t.off = r.off /\ t.fed = r.fed
      /\ t.sent = r.sent
  BY <1>1 DEF InFields
<1> QED BY <1>2 DEF Arrived, InOK

LEMMA TalkKept ==
  ASSUME NEW c, NEW r, NEW t, NEW X, Keeps(r, t, X), X \cap TalkFields = {}, TalkOK(c, r)
  PROVE  TalkOK(c, t)
<1>1. \A x \in TalkFields : t[x] = r[x]
  BY DEF Keeps, TalkFields, Field
<1>2. /\ t.hs = r.hs /\ t.told = r.told /\ t.got = r.got /\ t.st = r.st /\ t.fed = r.fed
      /\ t.app = r.app /\ t.n = r.n /\ t.out = r.out
      /\ t.pend = r.pend /\ t.off = r.off /\ t.rxq = r.rxq
  BY <1>1 DEF TalkFields
<1> QED BY <1>2 DEF Arrived, TalkOK

LEMMA PinnedKept ==
  ASSUME NEW r, NEW t, t.next = r.next, t.pinned = r.pinned, t.len = r.len
  PROVE  Pinned(t) = Pinned(r) /\ \A j : Nth(t, j) = Nth(r, j)
<1>1. \A j : Nth(t, j) = Nth(r, j)
  BY DEF Nth
<1> QED BY <1>1 DEF Pinned

LEMMA RingFieldsKept ==
  ASSUME NEW r, NEW t, NEW X, Keeps(r, t, X), X \cap RingFields = {}
  PROVE  /\ t.wire = r.wire /\ t.acks = r.acks /\ t.lost = r.lost /\ t.acked = r.acked
         /\ t.next = r.next
         /\ t.pinned = r.pinned /\ t.len = r.len
<1>1. \A x \in RingFields : t[x] = r[x]
  BY DEF Keeps, RingFields, Field
<1> QED BY <1>1 DEF RingFields

LEMMA RingKept ==
  ASSUME NEW r, NEW t, NEW X, Keeps(r, t, X), X \cap RingFields = {}, RingOK(r)
  PROVE  RingOK(t)
<1>1. /\ t.wire = r.wire /\ t.acks = r.acks /\ t.lost = r.lost /\ t.acked = r.acked
      /\ t.next = r.next
      /\ t.pinned = r.pinned /\ t.len = r.len
  BY RingFieldsKept
<1>2. Pinned(t) = Pinned(r)
  BY <1>1, PinnedKept
<1> QED BY <1>1, <1>2 DEF RingOK

\* Slot 0 may be written over.
LEMMA HoldKept ==
  ASSUME NEW r, NEW t, NEW X, Keeps(r, t, X), X \cap RingFields = {}, HoldOK(r),
         \A i : i # 0 => t.rec[i] = r.rec[i]
  PROVE  HoldOK(t)
<1>1. /\ t.wire = r.wire /\ t.acks = r.acks /\ t.lost = r.lost /\ t.acked = r.acked
      /\ t.next = r.next
      /\ t.pinned = r.pinned /\ t.len = r.len
  BY RingFieldsKept
<1>2. Pinned(t) = Pinned(r) /\ \A j : Nth(t, j) = Nth(r, j)
  BY <1>1, PinnedKept
<1>3. SUFFICES ASSUME NEW i \in 1 .. Len(r.wire), NEW j \in 1 .. r.pinned,
                      InNth(r, j, r.acked + r.acks + r.lost + i)
               PROVE  /\ r.wire[i].slot = Nth(r, j)
                      /\ Nth(r, j) # 0 => t.rec[Nth(r, j)] = r.wire[i].rec
  BY <1>1, <1>2 DEF HoldOK, InNth
<1> QED BY <1>3 DEF HoldOK

\* A record whose ring and talk nothing touched.
LEMMA LiveKept ==
  ASSUME NEW c, NEW r, NEW t, NEW X, Keeps(r, t, X), LiveOK(c, r),
         X \cap (InFields \cup TalkFields \cup RingFields \cup {"rec"}) = {}
  PROVE  LiveOK(c, t)
<1>1. X \cap InFields = {} /\ X \cap TalkFields = {} /\ X \cap RingFields = {} /\ "rec" \notin X
  OBVIOUS
<1>2. t.rec = r.rec
  BY <1>1 DEF Keeps, Field
<1> QED BY <1>1, <1>2, InKept, TalkKept, RingKept, HoldKept DEF LiveOK

-----------------------------------------------------------------------------
(* Types.                                                                  *)

NetFields == {"tcp", "sent", "rxq", "win", "wire", "acks", "lost"}
FeedFields == {"pend", "off", "fed", "app", "st"}
SlotFields == {"next", "pinned", "acked", "len", "rec"}
OutFields == {"out", "n", "defer", "stall", "pump", "sched"}
AppFields == {"live", "hs", "done", "told", "got", "quiet", "wrote"}

LEMMA TypeKept ==
  ASSUME NEW r, Session(r), NEW t, NEW X, Keeps(r, t, X)
  PROVE  /\ X \cap NetFields = {} => NetType(t)
         /\ X \cap FeedFields = {} => InType(t)
         /\ X \cap SlotFields = {} => RingType(t)
         /\ X \cap OutFields = {} => OutType(t)
         /\ X \cap AppFields = {} => AppType(t)
<1>1. ASSUME X \cap NetFields = {} PROVE NetType(t)
  <2>1. \A x \in NetFields : t[x] = r[x]
    BY <1>1 DEF Keeps, NetFields, Field
  <2> QED BY <2>1 DEF NetFields, NetType, Session
<1>2. ASSUME X \cap FeedFields = {} PROVE InType(t)
  <2>1. \A x \in FeedFields : t[x] = r[x]
    BY <1>2 DEF Keeps, FeedFields, Field
  <2> QED BY <2>1 DEF FeedFields, InType, Session
<1>3. ASSUME X \cap SlotFields = {} PROVE RingType(t)
  <2>1. \A x \in SlotFields : t[x] = r[x]
    BY <1>3 DEF Keeps, SlotFields, Field
  <2> QED BY <2>1 DEF SlotFields, RingType, Session
<1>4. ASSUME X \cap OutFields = {} PROVE OutType(t)
  <2>1. \A x \in OutFields : t[x] = r[x]
    BY <1>4 DEF Keeps, OutFields, Field
  <2> QED BY <2>1 DEF OutFields, OutType, Session
<1>5. ASSUME X \cap AppFields = {} PROVE AppType(t)
  <2>1. \A x \in AppFields : t[x] = r[x]
    BY <1>5 DEF Keeps, AppFields, Field
  <2> QED BY <2>1 DEF AppFields, AppType, Session
<1> QED BY <1>1, <1>2, <1>3, <1>4, <1>5

LEMMA Constants ==
  /\ Slots \in Nat \ {0} /\ FeedLoops \in Nat \ {0} /\ PendMax \in Nat /\ Window \in Nat
  /\ SndBuf \in Nat /\ SndBuf >= 2 /\ Apps \in Nat /\ Conn \subseteq Nat \ {0} /\ Server \subseteq Conn
  /\ Slot = 0 .. Slots - 1 /\ 0 \in Slot /\ NoSlot = Slots /\ NoSlot \notin Slot
BY ConstantsAssumption DEF Slot, NoSlot

LEMMA ConcatStart ==
  ASSUME NEW S, NEW a \in Seq(S), NEW b \in Seq(S), Len(a) >= 2
  PROVE  /\ a \o b \in Seq(S) /\ Len(a \o b) = Len(a) + Len(b)
         /\ (a \o b)[1] = a[1] /\ (a \o b)[2] = a[2]
<1> DEFINE e == a \o b
<1>1. /\ e \in Seq(S) /\ Len(e) = Len(a) + Len(b)
      /\ \A i \in 1 .. Len(a) + Len(b) : e[i] = IF i <= Len(a) THEN a[i] ELSE b[i - Len(a)]
  BY ConcatProperties
<1>2. Len(a) \in Nat /\ Len(b) \in Nat
  BY LenProperties
<1> HIDE DEF e
<1>3. 1 \in 1 .. Len(a) + Len(b) /\ 2 \in 1 .. Len(a) + Len(b)
  BY <1>2
<1>4. e[1] = a[1] /\ e[2] = a[2]
  BY <1>1, <1>2, <1>3
<1> QED BY <1>1, <1>4 DEF e

LEMMA StreamIs ==
  /\ Len(Stream) \in Nat
  /\ Stream[1] = "h" /\ Stream[2] = "h"
<1> DEFINE m == 2 * Apps
           a == <<"h", "h">>
           b == [i \in 1 .. m |-> IF i % 2 = 1 THEN "p" ELSE "d"]
           d == <<"x">>
           S == {"h", "p", "d", "x"}
<1>1. a \in Seq(S) /\ d \in Seq(S) /\ Len(a) = 2 /\ Len(d) = 1 /\ a[1] = "h" /\ a[2] = "h"
  OBVIOUS
<1>2. m \in Nat
  BY Constants
<1>3. b \in Seq(S) /\ Len(b) = m
  <2>1. \A i : (IF i % 2 = 1 THEN "p" ELSE "d") \in S
    OBVIOUS
  <2> HIDE DEF m, S
  <2>2. b \in [1 .. m -> S]
    BY <2>1
  <2>3. \A f \in [1 .. m -> S] : f \in Seq(S) /\ Len(f) = m
    BY <1>2
  <2> QED BY <2>2, <2>3
<1>4. Stream = (a \o b) \o d
  BY DEF Stream
<1> HIDE DEF a, b, d, S, m
<1> DEFINE e == a \o b
<1>5. e \in Seq(S) /\ Len(e) = 2 + m /\ e[1] = "h" /\ e[2] = "h"
  <2>1. Len(a) >= 2 /\ a \in Seq(S) /\ b \in Seq(S)
    BY <1>1, <1>3
  <2>2. e \in Seq(S) /\ Len(e) = Len(a) + Len(b) /\ e[1] = a[1] /\ e[2] = a[2]
    BY <2>1, ConcatStart
  <2> QED BY <1>1, <1>2, <1>3, <2>2
<1> HIDE DEF e
<1>6. e \o d \in Seq(S) /\ (e \o d)[1] = "h" /\ (e \o d)[2] = "h"
  BY <1>1, <1>2, <1>5, ConcatStart
<1>7. Stream = e \o d
  BY <1>4 DEF e
<1> QED BY <1>6, <1>7, LenProperties

LEMMA SeqTypes ==
  /\ \A q \in Seq(1 .. 2) : q \in Seq(0 .. 2) /\ q \in Seq(Nat) /\ SumOf(q) \in Nat
  /\ \A q \in Seq(0 .. 2) : q \in Seq(Nat) /\ SumOf(q) \in Nat
<1>1. \A q \in Seq(1 .. 2) : q \in Seq(0 .. 2)
  BY SeqMonotonic, 1 .. 2 \subseteq 0 .. 2
<1>2. \A q \in Seq(0 .. 2) : q \in Seq(Nat)
  BY SeqMonotonic, 0 .. 2 \subseteq Nat
<1> QED BY <1>1, <1>2, SumType

LEMMA TotalIsSum == \A q : Total(q) = SumOf(q)
BY DEF Total, SumOf

LEMMA TakesIs ==
  ASSUME NEW r, NEW n \in Nat
  PROVE  Takes(r, n) \in 0 .. n /\ (Takes(r, n) > 0 => ~r.app)
<1> DEFINE stops == {j \in 1 .. n : Stream[r.fed + j] \in {"d", "x"}}
<1>1. CASE r.app \/ r.st = "shut"
  BY <1>1 DEF Takes
<1>2. CASE ~(r.app \/ r.st = "shut") /\ stops = {}
  BY <1>2 DEF Takes
<1>3. CASE ~(r.app \/ r.st = "shut") /\ stops # {}
  <2>1. stops \in SUBSET Nat /\ stops \subseteq 1 .. n
    OBVIOUS
  <2>2. Takes(r, n) = CHOOSE j \in stops : \A k \in stops : j <= k
    BY <1>3 DEF Takes
  <2> HIDE DEF stops
  <2>3. \E j \in stops : \A k \in stops : j <= k
    BY <1>3, <2>1, LeastExists
  <2>4. Takes(r, n) \in stops
    BY <2>2, <2>3
  <2>5. Takes(r, n) \in 1 .. n
    BY <2>1, <2>4
  <2>6. ~r.app
    BY <1>3
  <2> QED BY <2>5, <2>6
<1> QED BY <1>1, <1>2, <1>3

-----------------------------------------------------------------------------
(* Operations that leave the ring and what came in alone.                  *)

LEMMA ScheduleIs ==
  ASSUME NEW r, Session(r), NEW ok \in BOOLEAN, NEW t, t = Schedule(r, ok)
  PROVE  Session(t) /\ Keeps(r, t, {"pump", "sched"}) /\ t.pump # "idle" /\ Armed(t)
<1>1. IsRecord(t)
  BY DEF Session, Schedule, IsRecord
<1>2. Keeps(r, t, {"pump", "sched"})
  BY <1>1 DEF Session, Schedule, IsRecord, Field, Keeps
<1>3. OutType(t) /\ t.pump # "idle"
  BY DEF Session, Schedule, IsRecord, Field, OutType
<1>4. NetType(t) /\ InType(t) /\ RingType(t) /\ AppType(t)
  BY <1>2, TypeKept DEF NetFields, FeedFields, SlotFields, AppFields
<1> QED BY <1>1, <1>2, <1>3, <1>4 DEF Session, Armed

LEMMA KeepsTrans ==
  ASSUME NEW r, NEW t, NEW u, NEW X, NEW Y, Keeps(r, t, X), Keeps(t, u, Y)
  PROVE  Keeps(r, u, X \cup Y)
BY DEF Keeps

LEMMA FreshIs ==
  /\ Session(Fresh) /\ Fresh.live = FALSE /\ Fresh.tcp = "none" /\ Fresh.wire = << >>
  /\ Fresh.sched = FALSE /\ Fresh.got = 0
<1>1. IsRecord(Fresh)
  BY DEF Fresh, IsRecord, Field
<1>2. NetType(Fresh)
  BY Constants DEF Fresh, NetType
<1>3. InType(Fresh)
  BY Constants DEF Fresh, InType
<1>4. RingType(Fresh)
  BY Constants DEF Fresh, RingType
<1>5. OutType(Fresh)
  BY DEF Fresh, OutType
<1>6. AppType(Fresh)
  BY DEF Fresh, AppType
<1>7. /\ Fresh.live = FALSE /\ Fresh.tcp = "none" /\ Fresh.wire = << >> /\ Fresh.sched = FALSE
      /\ Fresh.got = 0
  BY DEF Fresh
<1> QED BY <1>1, <1>2, <1>3, <1>4, <1>5, <1>6, <1>7 DEF Session

\* A connection without a session.
LEMMA DeadIsGood ==
  ASSUME NEW c, NEW r, Session(r), ~r.live, r.got = 0, r.tcp # "open", r.tcp = "none" => r = Fresh
  PROVE  Good(c, r) /\ Armed(r)
BY DEF Good, Armed

\* The next record is built over slot 0 alone.
LEMMA BuiltIs ==
  ASSUME NEW r, Session(r), NEW t, t = Built(r)
  PROVE  /\ Session(t) /\ Keeps(r, t, {"rec"}) /\ \A i : i # 0 => t.rec[i] = r.rec[i]
<1>1. CASE SendRec(r)
  <2>1. IsRecord(t)
    BY <1>1 DEF Session, Built, IsRecord
  <2>2. Keeps(r, t, {"rec"})
    BY <1>1, <2>1 DEF Session, Built, IsRecord, Field, Keeps
  <2>3. t.rec = [r.rec EXCEPT ![0] = r.n + 1]
    BY <1>1 DEF Session, Built, IsRecord, Field
  <2>4. r.rec \in [Slot -> Nat] /\ r.n + 1 \in Nat /\ 0 \in Slot
    BY Constants DEF Session, RingType, OutType
  <2>5. t.rec \in [Slot -> Nat] /\ \A i : i # 0 => t.rec[i] = r.rec[i]
    <3>1. t.rec \in [Slot -> Nat]
      BY <2>3, <2>4
    <3>2. ASSUME NEW i, i # 0 PROVE t.rec[i] = r.rec[i]
      <4>1. CASE i \in Slot
        BY <2>3, <2>4, <3>2, <4>1
      <4>2. CASE i \notin Slot
        BY <2>3, <2>4, <3>2, <4>2
      <4> QED BY <4>1, <4>2
    <3> QED BY <3>1, <3>2
  <2>6. NetType(t) /\ InType(t) /\ OutType(t) /\ AppType(t)
    BY <2>2, TypeKept DEF NetFields, FeedFields, OutFields, AppFields
  <2>7. RingType(t)
    BY <2>2, <2>5 DEF Keeps, Field, Session, RingType
  <2> QED BY <2>1, <2>2, <2>5, <2>6, <2>7 DEF Session
<1>2. CASE ~SendRec(r)
  BY <1>2 DEF Built, Keeps, Session
<1> QED BY <1>1, <1>2

LEMMA BuiltLive ==
  ASSUME NEW c, NEW r, Session(r), LiveOK(c, r), NEW t, t = Built(r)
  PROVE  LiveOK(c, t)
<1>1. Keeps(r, t, {"rec"}) /\ \A i : i # 0 => t.rec[i] = r.rec[i]
  BY BuiltIs
<1>2. {"rec"} \cap InFields = {} /\ {"rec"} \cap TalkFields = {} /\ {"rec"} \cap RingFields = {}
  BY DEF InFields, TalkFields, RingFields
<1> QED BY <1>1, <1>2, InKept, TalkKept, RingKept, HoldKept DEF LiveOK

-----------------------------------------------------------------------------
(* The end of a session.                                                   *)

LEMMA TlsCloseIs ==
  ASSUME NEW r, Session(r), NEW k \in Nat, NEW t, t = TlsClose(r, k)
  PROVE  t.wire \in Seq(Unit) /\ Len(t.wire) <= SndBuf /\ t.tcp = r.tcp /\ t.sched = r.sched
<1> DEFINE q == LastRecords(r)
           f == SubSeq(q, 1, k)
           w == [i \in 1 .. Total(f) |-> [slot |-> NoSlot, rec |-> r.n + 1]]
<1>1. /\ r.wire \in Seq(Unit) /\ Len(r.wire) <= SndBuf /\ Len(r.wire) \in Nat /\ r.n + 1 \in Nat
      /\ r.out \in Seq(1 .. 2)
  BY DEF Session, NetType, OutType
<1>2. CASE t = r
  BY <1>1, <1>2
<1>3. CASE t # r
  <2>1. t = [r EXCEPT !.wire = @ \o w] /\ ~(k > Len(q)) /\ ~(Total(f) > Room(r))
    <3> HIDE DEF q
    <3> QED BY <1>3 DEF TlsClose, q
  <2>2. t.wire = r.wire \o w /\ t.tcp = r.tcp /\ t.sched = r.sched
    BY <2>1 DEF Session, IsRecord, Field
  <2>3. q \in Seq(1 .. 2)
    <3>1. <<1>> \in Seq(1 .. 2)
      OBVIOUS
    <3>2. CASE SendRec(r)
      <4>1. <<Head(r.out)>> \in Seq(1 .. 2)
        <5>1. Head(r.out) \in 1 .. 2
          BY <1>1, <3>2, HeadTailProperties DEF SendRec
        <5> QED BY <5>1
      <4> QED BY <3>1, <3>2, <4>1, ConcatProperties DEF LastRecords
    <3>3. CASE ~SendRec(r)
      <4>1. q = << >> \o <<1>>
        BY <3>3 DEF LastRecords
      <4> HIDE DEF q
      <4> QED BY <3>1, <4>1, EmptySeq, ConcatProperties
    <3> QED BY <3>2, <3>3
  <2>4. Total(f) \in Nat
    <3> HIDE DEF q
    <3>0. Len(q) \in Nat
      BY <2>3, LenProperties
    <3>1. k \in 0 .. Len(q)
      BY <2>1, <3>0
    <3>2. f \in Seq(1 .. 2)
      BY <2>3, <3>1, CutAt
    <3> QED BY <3>2, SeqTypes, TotalIsSum
  <2> DEFINE n == Total(f)
             x == [slot |-> NoSlot, rec |-> r.n + 1]
  <2>5. x \in Unit
    BY <1>1, Constants DEF Unit
  <2>6. w \in Seq(Unit) /\ Len(w) = n
    <3>1. w = [i \in 1 .. n |-> x] /\ n \in Nat
      BY <2>4
    <3> HIDE DEF n, x, w
    <3> QED BY <2>5, <3>1
  <2>7. n <= SndBuf - Len(r.wire)
    BY <1>1, <2>1, <2>4, Constants DEF Room
  <2> HIDE DEF w, n
  <2>8. r.wire \o w \in Seq(Unit) /\ Len(r.wire \o w) = Len(r.wire) + n
    BY <1>1, <2>6, ConcatProperties
  <2> QED BY <1>1, <2>2, <2>4, <2>7, <2>8, Constants DEF n
<1> QED BY <1>2, <1>3

Freed(r, tcp, wire) == [Free(r) EXCEPT !.tcp = tcp, !.wire = wire]

LEMMA FreeIs ==
  ASSUME NEW r, NEW tcp \in {"open", "closing", "gone"}, NEW wire \in Seq(Unit), Len(wire) <= SndBuf,
         r.sched \in BOOLEAN, NEW t, t = Freed(r, tcp, wire)
  PROVE  Session(t) /\ t.live = FALSE /\ t.tcp = tcp /\ t.got = 0
<1>1. IsRecord(t)
  BY ZenonT(30) DEF Freed, Free, Fresh, IsRecord, Field
<1>2. Keeps(Fresh, t, {"tcp", "wire", "sched"})
  BY <1>1 DEF Freed, Free, Fresh, Field, Keeps
<1>3. t.tcp = tcp /\ t.wire = wire /\ t.sched = r.sched
  BY DEF Freed, Free, Fresh
<1>4. InType(t) /\ RingType(t) /\ AppType(t) /\ t.live = FALSE /\ t.got = 0
  <2>1. InType(t) /\ RingType(t) /\ AppType(t)
    BY <1>2, FreshIs, TypeKept DEF FeedFields, SlotFields, AppFields
  <2> QED BY <1>2, <2>1, FreshIs DEF Keeps, Field
<1>5. NetType(t)
  BY <1>2, <1>3, FreshIs DEF Keeps, Field, Session, NetType
<1>6. OutType(t)
  BY <1>2, <1>3, FreshIs DEF Keeps, Field, Session, OutType
<1> QED BY <1>1, <1>3, <1>4, <1>5, <1>6 DEF Session

LEMMA CloseIs ==
  ASSUME NEW c, NEW r, Session(r), r.live <=> r.tcp = "open", r.tcp = "none" => r = Fresh,
         ~r.live => r.got = 0, NEW k \in Nat, NEW t, t = Close(r, k)
  PROVE  Good(c, t) /\ Armed(t) /\ t.live = FALSE
<1>1. CASE r.tcp # "open"
  <2>1. t = r /\ Session(r) /\ ~r.live /\ (r.tcp = "none" => r = Fresh) /\ r.got = 0
    BY <1>1 DEF Close
  <2>2. r.live \in BOOLEAN
    BY <2>1 DEF Session, AppType
  <2> QED BY <1>1, <2>1, <2>2, DeadIsGood
<1>2. CASE r.tcp = "open"
  <2> DEFINE x == TlsClose(r, k)
  <2>2. x.wire \in Seq(Unit) /\ Len(x.wire) <= SndBuf /\ x.sched = r.sched
    BY TlsCloseIs
  <2>3. t = [Free(x) EXCEPT !.tcp = "closing"]
    BY <1>2 DEF Close, CloseSession
  <2>4. t = Freed(x, "closing", x.wire)
    BY <2>3, ZenonT(30) DEF Freed, Free, Fresh
  <2>5. x.sched \in BOOLEAN
    BY <2>2 DEF Session, OutType
  <2> HIDE DEF x
  <2>6. Session(t) /\ t.live = FALSE /\ t.tcp = "closing" /\ t.got = 0
    <3>1. "closing" \in {"open", "closing", "gone"}
      OBVIOUS
    <3>2. \A wire \in Seq(Unit) : Len(wire) <= SndBuf =>
            Session(Freed(x, "closing", wire)) /\ Freed(x, "closing", wire).live = FALSE
            /\ Freed(x, "closing", wire).tcp = "closing" /\ Freed(x, "closing", wire).got = 0
      BY <2>5, <3>1, FreeIs
    <3> QED BY <2>2, <2>4, <3>2
  <2> QED BY <2>6, DeadIsGood
<1> QED BY <1>1, <1>2

-----------------------------------------------------------------------------
(* What the application does.                                              *)

LEMMA LiveIsGood ==
  ASSUME NEW c, NEW r, Session(r), r.live, r.tcp = "open", LiveOK(c, r)
  PROVE  Good(c, r)
BY DEF Good

LEMMA ScheduleLive ==
  ASSUME NEW c, NEW r, Session(r), LiveOK(c, r), NEW ok \in BOOLEAN, NEW t, t = Schedule(r, ok)
  PROVE  LiveOK(c, t)
<1>1. Keeps(r, t, {"pump", "sched"})
  BY ScheduleIs
<1>2. {"pump", "sched"} \cap (InFields \cup TalkFields \cup RingFields \cup {"rec"}) = {}
  BY DEF InFields, TalkFields, RingFields
<1> QED BY <1>1, <1>2, LiveKept

WriteFields == {"out", "wrote", "rec", "pump", "sched"}

LEMMA WriteIs ==
  ASSUME NEW c, NEW r, Session(r), LiveOK(c, r), r.hs, NEW n \in 1 .. 2, NEW ok \in BOOLEAN,
         NEW t, t = Write(r, n, ok)
  PROVE  Session(t) /\ LiveOK(c, t) /\ Armed(t) /\ Keeps(r, t, WriteFields)
<1>1. CASE SendApp(r)
  <2> DEFINE u == [r EXCEPT !.out = <<n>>, !.wrote = @ + 1]
             v == Built(u)
             X == {"out", "wrote"}
  <2>1. t = Schedule(v, ok)
    BY <1>1 DEF Write
  <2>2. IsRecord(u)
    BY DEF Session, IsRecord
  <2>3. u.out = <<n>> /\ u.wrote = r.wrote + 1
    BY DEF Session, IsRecord, Field
  <2>4. Keeps(r, u, X)
    BY <2>2 DEF Session, IsRecord, Field, Keeps
  <2> HIDE DEF u, v, X
  <2>5. NetType(u) /\ InType(u) /\ RingType(u)
    BY <2>4, TypeKept DEF NetFields, FeedFields, SlotFields, X
  <2>6. OutType(u)
    <3>1. u.out \in Seq(1 .. 2)
      <4>1. <<n>> \in Seq(1 .. 2)
        OBVIOUS
      <4> QED BY <2>3, <4>1
    <3>2. /\ u.n = r.n /\ u.defer = r.defer /\ u.stall = r.stall /\ u.pump = r.pump
          /\ u.sched = r.sched
      BY <2>4 DEF Keeps, Field, X
    <3> QED BY <3>1, <3>2 DEF Session, OutType
  <2>7. AppType(u)
    <3>1. /\ u.live = r.live /\ u.hs = r.hs /\ u.done = r.done /\ u.told = r.told
          /\ u.got = r.got /\ u.quiet = r.quiet
      BY <2>4 DEF Keeps, Field, X
    <3>2. r.wrote + 1 \in Nat
      BY DEF Session, AppType
    <3> QED BY <2>3, <3>1, <3>2 DEF Session, AppType
  <2>8. Session(u)
    BY <2>2, <2>5, <2>6, <2>7 DEF Session
  <2>9. LiveOK(c, u)
    <3>1. X \cap InFields = {} /\ X \cap RingFields = {}
      BY DEF X, InFields, RingFields
    <3>2. /\ u.hs = r.hs /\ u.told = r.told /\ u.got = r.got /\ u.st = r.st /\ u.fed = r.fed
          /\ u.app = r.app /\ u.n = r.n
      BY <2>4 DEF Keeps, Field, X
    <3>3. Arrived(u) = Arrived(r) /\ InOK(u)
      BY <2>4, <3>1, InKept DEF LiveOK
    <3>4. TalkOK(c, u)
      BY <3>2, <3>3 DEF LiveOK, TalkOK
    <3>5. RingOK(u)
      BY <2>4, <3>1, RingKept DEF LiveOK
    <3>6. u.rec = r.rec
      BY <2>4 DEF Keeps, Field, X
    <3>7. HoldOK(u)
      BY <2>4, <3>1, <3>6, HoldKept DEF LiveOK
    <3> QED BY <3>3, <3>4, <3>5, <3>7 DEF LiveOK
  <2>10. Session(v) /\ LiveOK(c, v) /\ Keeps(u, v, {"rec"})
    BY <2>8, <2>9, BuiltIs, BuiltLive DEF v
  <2>11. Session(t) /\ LiveOK(c, t) /\ Armed(t) /\ Keeps(v, t, {"pump", "sched"})
    BY <2>1, <2>10, ScheduleIs, ScheduleLive
  <2>12. Keeps(r, t, WriteFields)
    <3>1. Keeps(r, v, X \cup {"rec"})
      BY <2>4, <2>10, KeepsTrans
    <3>2. Keeps(r, t, (X \cup {"rec"}) \cup {"pump", "sched"})
      BY <2>11, <3>1, KeepsTrans
    <3>3. (X \cup {"rec"}) \cup {"pump", "sched"} = WriteFields
      BY DEF X, WriteFields
    <3> QED BY <3>2, <3>3
  <2> QED BY <2>11, <2>12
<1>2. CASE ~SendApp(r)
  <2>1. t = Schedule(r, ok)
    BY <1>2 DEF Write
  <2>2. Session(t) /\ LiveOK(c, t) /\ Armed(t) /\ Keeps(r, t, {"pump", "sched"})
    BY <2>1, ScheduleIs, ScheduleLive
  <2>3. Keeps(r, t, WriteFields)
    BY <2>2 DEF Keeps, WriteFields
  <2> QED BY <2>2, <2>3
<1> QED BY <1>1, <1>2

LEMMA ReactionIs ==
  /\ \A a \in Reaction : (a.do = "write" => a.n \in 1 .. 2) /\ (a.do = "close" => a.n \in Nat)
  /\ Nothing \in Reaction
BY DEF Reaction, Nothing

\* The application writes or closes only when it was told of the connection.
LEMMA ReactIs ==
  ASSUME NEW c, NEW r, Good(c, r), r.live => r.hs, NEW a \in Reaction, NEW ok \in BOOLEAN,
         NEW t, t = React(r, a, ok)
  PROVE  /\ Good(c, t) /\ (Armed(r) => Armed(t))
         /\ t.live => r.live /\ Keeps(r, t, WriteFields)
<1>0. /\ Session(r) /\ (r.live <=> r.tcp = "open") /\ (r.live => LiveOK(c, r))
      /\ (r.tcp = "none" => r = Fresh) /\ (~r.live => r.got = 0)
  BY DEF Good
<1>1. CASE a.do = "write" /\ r.live /\ r.wrote < Writes
  <2>1. t = Write(r, a.n, ok) /\ a.n \in 1 .. 2
    BY <1>1, ReactionIs DEF React
  <2>2. Session(t) /\ LiveOK(c, t) /\ Armed(t) /\ Keeps(r, t, WriteFields)
    BY <1>0, <1>1, <2>1, WriteIs
  <2>3. t.live = r.live /\ t.tcp = r.tcp
    BY <2>2 DEF Keeps, WriteFields, Field
  <2>4. Good(c, t)
    BY <1>0, <1>1, <2>2, <2>3, LiveIsGood
  <2> QED BY <1>1, <2>2, <2>4
<1>2. CASE ~(a.do = "write" /\ r.live /\ r.wrote < Writes) /\ a.do = "close"
  <2>1. t = Close(r, a.n) /\ a.n \in Nat
    BY <1>2, ReactionIs DEF React
  <2>2. Good(c, t) /\ Armed(t) /\ t.live = FALSE
    BY <1>0, <2>1, CloseIs
  <2> QED BY <2>2
<1>3. CASE ~(a.do = "write" /\ r.live /\ r.wrote < Writes) /\ a.do # "close"
  <2>1. t = r
    BY <1>3 DEF React
  <2>2. Keeps(r, t, WriteFields)
    BY <1>0, <2>1 DEF Keeps, Session
  <2> QED BY <2>1, <2>2
<1> QED BY <1>1, <1>2, <1>3

-----------------------------------------------------------------------------
(* The steps of a run that only move flags.                                *)

LEMMA KeepsGood ==
  ASSUME NEW c, NEW r, Good(c, r), r.live, NEW t, NEW X, Keeps(r, t, X), Session(t),
         LiveOK(c, t), X \cap {"live", "tcp"} = {}
  PROVE  Good(c, t) /\ t.live = TRUE
<1>1. t.live = r.live /\ t.tcp = r.tcp /\ r.live \in BOOLEAN /\ (r.live <=> r.tcp = "open")
  BY DEF Keeps, Field, Good, Session, AppType
<1> QED BY <1>1, LiveIsGood

LEMMA ArmedKept ==
  ASSUME NEW r, NEW t, NEW X, Keeps(r, t, X), Armed(r),
         X \cap {"live", "out", "defer", "pinned", "pump"} = {}
  PROVE  Armed(t)
<1>1. /\ t.live = r.live /\ t.out = r.out /\ t.defer = r.defer /\ t.pinned = r.pinned
      /\ t.pump = r.pump
  BY DEF Keeps, Field
<1> QED BY <1>1 DEF Armed, SendRec

ToldFields == {"hs", "done", "told"}

LEMMA ToldIs ==
  ASSUME NEW c, NEW r, Good(c, r), r.live, NEW t, t = Told(r)
  PROVE  /\ Good(c, t) /\ t.live = TRUE /\ t.hs = TRUE /\ Keeps(r, t, ToldFields)
         /\ Armed(r) => Armed(t)
<1>0. Session(r) /\ LiveOK(c, r)
  BY DEF Good
<1>1. IsRecord(t)
  BY <1>0 DEF Told, Session, IsRecord
<1>2. Keeps(r, t, ToldFields)
  BY <1>0, <1>1 DEF Told, Session, IsRecord, Field, Keeps, ToldFields
<1>3. t.hs = TRUE /\ t.done = TRUE /\ t.told = TRUE
  BY <1>0 DEF Told, Session, IsRecord, Field
<1>4. Session(t)
  <2>1. NetType(t) /\ InType(t) /\ RingType(t) /\ OutType(t)
    BY <1>0, <1>2, TypeKept DEF NetFields, FeedFields, SlotFields, OutFields, ToldFields
  <2>2. t.live = r.live /\ t.got = r.got /\ t.quiet = r.quiet /\ t.wrote = r.wrote
    BY <1>2 DEF Keeps, Field, ToldFields
  <2>3. AppType(t)
    BY <1>0, <1>3, <2>2 DEF Session, AppType
  <2> QED BY <1>1, <2>1, <2>3 DEF Session
<1>5. LiveOK(c, t)
  <2>1. ToldFields \cap InFields = {} /\ ToldFields \cap RingFields = {} /\ "rec" \notin ToldFields
    BY DEF ToldFields, InFields, RingFields
  <2>2. t.st = r.st /\ t.fed = r.fed /\ t.app = r.app /\ t.n = r.n /\ t.rec = r.rec
    BY <1>2 DEF Keeps, Field, ToldFields
  <2>3. Arrived(t) = Arrived(r) /\ InOK(t)
    BY <1>0, <1>2, <2>1, InKept DEF LiveOK
  <2>4. TalkOK(c, t)
    BY <1>0, <1>3, <2>2, <2>3 DEF LiveOK, TalkOK
  <2>5. RingOK(t) /\ HoldOK(t)
    BY <1>0, <1>2, <2>1, <2>2, RingKept, HoldKept DEF LiveOK
  <2> QED BY <2>3, <2>4, <2>5 DEF LiveOK
<1>6. Good(c, t) /\ t.live = TRUE
  BY <1>2, <1>4, <1>5, KeepsGood DEF ToldFields
<1>7. Armed(r) => Armed(t)
  BY <1>2, ArmedKept DEF ToldFields
<1> QED BY <1>2, <1>3, <1>6, <1>7

LEMMA GreetedIs ==
  ASSUME NEW c, NEW r, Good(c, r), r.live, NEW a \in Reaction, NEW ok \in BOOLEAN,
         NEW t, t = Greeted(c, r, a, ok)
  PROVE  /\ Good(c, t) /\ (Armed(r) => Armed(t))
         /\ t.live => Keeps(r, t, ToldFields \cup WriteFields)
         /\ t.live /\ (r.hs \/ HandshakeOver(c, r)) => t.hs
<1>1. CASE HandshakeOver(c, r)
  <2> DEFINE u == Told(r)
  <2>1. /\ Good(c, u) /\ u.live = TRUE /\ u.hs = TRUE /\ Keeps(r, u, ToldFields)
        /\ Armed(r) => Armed(u)
    BY ToldIs
  <2>2. t = React(u, a, ok)
    BY <1>1 DEF Greeted
  <2> HIDE DEF u
  <2>3. Good(c, t) /\ (Armed(u) => Armed(t)) /\ (t.live => Keeps(u, t, WriteFields))
    BY <2>1, <2>2, ReactIs
  <2>4. ASSUME t.live PROVE Keeps(r, t, ToldFields \cup WriteFields) /\ t.hs
    <3>1. Keeps(r, t, ToldFields \cup WriteFields)
      BY <2>1, <2>3, <2>4, KeepsTrans
    <3>2. t.hs = u.hs
      BY <2>3, <2>4 DEF Keeps, Field, WriteFields
    <3> QED BY <2>1, <3>1, <3>2
  <2> QED BY <2>1, <2>3, <2>4
<1>2. CASE ~HandshakeOver(c, r)
  <2>1. t = r
    BY <1>2 DEF Greeted
  <2>2. Keeps(r, r, ToldFields \cup WriteFields)
    BY DEF Keeps, Good, Session
  <2> QED BY <1>2, <2>1, <2>2
<1> QED BY <1>1, <1>2

\* What waits, and how much of it was fed.
LEMMA WaitingIs ==
  ASSUME NEW r, Session(r)
  PROVE  /\ SumOf(r.pend) \in Nat /\ SumOf(r.rxq) \in Nat /\ r.off <= SumOf(r.pend)
         /\ r.off \in Nat /\ r.fed \in Nat /\ Arrived(r) \in Nat /\ Arrived(r) >= r.fed
<1>1. SumOf(r.pend) \in Nat /\ SumOf(r.rxq) \in Nat /\ r.off \in Nat /\ r.fed \in Nat
  BY SeqTypes DEF Session, InType, NetType
<1>2. r.off <= SumOf(r.pend)
  <2>1. CASE r.pend = << >>
    BY <1>1, <2>1 DEF Session, InType
  <2>2. CASE r.pend # << >>
    <3>1. r.pend \in Seq(Nat)
      BY SeqTypes DEF Session, InType
    <3>2. Tail(r.pend) \in Seq(Nat) /\ Head(r.pend) \in Nat
      BY <2>2, <3>1, HeadTailProperties
    <3>3. SumOf(r.pend) = Head(r.pend) + SumOf(Tail(r.pend)) /\ SumOf(Tail(r.pend)) \in Nat
      BY <2>2, <3>1, <3>2, SumHeadTail, SumType
    <3>4. r.off < Head(r.pend)
      BY <2>2 DEF Session, InType
    <3> QED BY <1>1, <3>2, <3>3, <3>4
  <2> QED BY <2>1, <2>2
<1> QED BY <1>1, <1>2 DEF Arrived

\* Data comes when the handshake is over on our side too.
LEMMA DataAfterHandshake ==
  ASSUME NEW c \in Conn, NEW r, Good(c, r), r.live, r.app, r.st # "shut", ~r.hs
  PROVE  HandshakeOver(c, r)
<1>1. CASE c \in Server
  BY <1>1 DEF HandshakeOver, RecvApp
<1>2. CASE c \notin Server
  <2>1. Session(r) /\ TalkOK(c, r)
    BY DEF Good, LiveOK
  <2>2. r.fed > 2 /\ r.fed \in Nat /\ Arrived(r) \in Nat /\ Arrived(r) >= r.fed
    BY <2>1, WaitingIs DEF TalkOK
  <2>3. Arrived(r) > 2
    BY <2>2
  <2>4. r.n >= 2 /\ r.n + Len(r.out) = 2
    BY <1>2, <2>1, <2>2, <2>3 DEF TalkOK
  <2>5. r.out \in Seq(1 .. 2) /\ r.n \in Nat
    BY <2>1 DEF Session, OutType
  <2>6. r.out = << >>
    <3>1. Len(r.out) \in Nat /\ (r.out # << >> => Len(r.out) \in Nat \ {0})
      BY <2>5, LenProperties, EmptySeq
    <3> QED BY <2>4, <2>5, <3>1
  <2>7. r.st # "hs"
    BY <2>1, <2>2 DEF TalkOK
  <2>8. r.st = "open"
    BY <2>1, <2>7 DEF Session, InType
  <2> QED BY <1>2, <2>6, <2>8 DEF HandshakeOver, SendApp
<1> QED BY <1>1, <1>2

DataFields == {"app", "done", "got"}

LEMMA DeliveredIs ==
  ASSUME NEW c, NEW r, Good(c, r), r.live, r.hs, NEW t, t = Delivered(r)
  PROVE  /\ Good(c, t) /\ t.live = TRUE /\ t.hs = r.hs /\ (Armed(r) => Armed(t))
<1>0. Session(r) /\ LiveOK(c, r)
  BY DEF Good
<1>1. IsRecord(t)
  BY <1>0 DEF Delivered, Session, IsRecord
<1>2. Keeps(r, t, DataFields)
  BY <1>0, <1>1 DEF Delivered, Session, IsRecord, Field, Keeps, DataFields
<1>3. t.app = FALSE /\ t.done = TRUE /\ t.got = r.got + 1
  BY <1>0 DEF Delivered, Session, IsRecord, Field
<1>4. Session(t)
  <2>1. NetType(t) /\ RingType(t) /\ OutType(t)
    BY <1>0, <1>2, TypeKept DEF NetFields, SlotFields, OutFields, DataFields
  <2>2. /\ t.live = r.live /\ t.hs = r.hs /\ t.told = r.told /\ t.quiet = r.quiet
        /\ t.wrote = r.wrote
    BY <1>2 DEF Keeps, Field, DataFields
  <2>3. AppType(t)
    <3>1. r.got + 1 \in Nat
      BY <1>0 DEF Session, AppType
    <3> QED BY <1>0, <1>3, <2>2, <3>1 DEF Session, AppType
  <2>4. t.pend = r.pend /\ t.off = r.off /\ t.fed = r.fed /\ t.st = r.st
    BY <1>2 DEF Keeps, Field, DataFields
  <2>5. InType(t)
    BY <1>0, <1>3, <2>4 DEF Session, InType
  <2> QED BY <1>1, <2>1, <2>3, <2>5 DEF Session
<1>5. LiveOK(c, t)
  <2>1. DataFields \cap InFields = {} /\ DataFields \cap RingFields = {} /\ "rec" \notin DataFields
    BY DEF DataFields, InFields, RingFields
  <2>2. /\ t.hs = r.hs /\ t.told = r.told /\ t.st = r.st /\ t.fed = r.fed /\ t.n = r.n
        /\ t.rec = r.rec
    BY <1>2 DEF Keeps, Field, DataFields
  <2>3. Arrived(t) = Arrived(r) /\ InOK(t)
    BY <1>0, <1>2, <2>1, InKept DEF LiveOK
  <2>4. TalkOK(c, t)
    BY <1>0, <1>3, <2>2, <2>3 DEF LiveOK, TalkOK
  <2>5. RingOK(t) /\ HoldOK(t)
    BY <1>0, <1>2, <2>1, <2>2, RingKept, HoldKept DEF LiveOK
  <2> QED BY <2>3, <2>4, <2>5 DEF LiveOK
<1>6. Good(c, t) /\ t.live = TRUE
  BY <1>2, <1>4, <1>5, KeepsGood DEF DataFields
<1>7. (Armed(r) => Armed(t)) /\ t.hs = r.hs
  <2>1. Armed(r) => Armed(t)
    BY <1>2, ArmedKept DEF DataFields
  <2> QED BY <1>2, <2>1 DEF Keeps, Field, DataFields
<1> QED BY <1>6, <1>7

LEMMA DeferIs ==
  ASSUME NEW c, NEW r, Good(c, r), r.live, NEW t, t = Defer(r)
  PROVE  Good(c, t) /\ t.live = TRUE
<1> DEFINE X == {"defer", "stall"}
<1>0. Session(r) /\ LiveOK(c, r)
  BY DEF Good
<1>1. IsRecord(t)
  BY <1>0 DEF Defer, Session, IsRecord
<1>2. Keeps(r, t, X)
  BY <1>0, <1>1 DEF Defer, Session, IsRecord, Field, Keeps
<1>3. t.defer = TRUE /\ (t.stall = 0 \/ t.stall = 1 \/ t.stall = r.stall)
  BY <1>0 DEF Defer, Session, IsRecord, Field
<1> HIDE DEF X
<1>4. NetType(t) /\ InType(t) /\ RingType(t) /\ AppType(t)
  BY <1>0, <1>2, TypeKept DEF NetFields, FeedFields, SlotFields, AppFields, X
<1>5. t.out = r.out /\ t.n = r.n /\ t.pump = r.pump /\ t.sched = r.sched
  BY <1>2 DEF Keeps, Field, X
<1>6. OutType(t)
  <2>1. t.stall \in Nat
    BY <1>0, <1>3 DEF Session, OutType
  <2>2. t.defer \in BOOLEAN
    BY <1>3
  <2> QED BY <1>0, <1>5, <2>1, <2>2 DEF Session, OutType
<1>7. X \cap (InFields \cup TalkFields \cup RingFields \cup {"rec"}) = {}
  BY DEF X, InFields, TalkFields, RingFields
<1>8. Session(t) /\ LiveOK(c, t)
  BY <1>0, <1>1, <1>2, <1>4, <1>6, <1>7, LiveKept DEF Session
<1> QED BY <1>2, <1>8, KeepsGood DEF X

LEMMA RestIs ==
  ASSUME NEW c, NEW r, Good(c, r), NEW a \in Reaction, NEW ok \in BOOLEAN,
         NEW t, t = Rest(c, r, a, ok)
  PROVE  Good(c, t) /\ Armed(t)
<1>1. CASE ~r.live
  BY <1>1 DEF Rest, Armed
<1>2. CASE r.live /\ ~r.defer /\ r.pinned < Slots /\ SendRec(r)
  <2>1. t = Schedule(r, ok) /\ Session(r) /\ LiveOK(c, r)
    BY <1>2 DEF Rest, Good
  <2>2. Session(t) /\ Armed(t) /\ LiveOK(c, t) /\ Keeps(r, t, {"pump", "sched"})
    BY <2>1, ScheduleIs, ScheduleLive
  <2> QED BY <1>2, <2>2, KeepsGood
<1>3. CASE r.live /\ ~(~r.defer /\ r.pinned < Slots /\ SendRec(r)) /\ HandshakeOver(c, r)
  <2> DEFINE u == Told(r)
  <2>1. t = React(u, a, ok) /\ Armed(r)
    BY <1>3 DEF Rest, Armed
  <2> HIDE DEF u
  <2>2. Good(c, u) /\ u.hs = TRUE /\ Armed(u)
    BY <1>3, <2>1, ToldIs DEF u
  <2> QED BY <2>1, <2>2, ReactIs
<1>4. CASE r.live /\ ~(~r.defer /\ r.pinned < Slots /\ SendRec(r)) /\ ~HandshakeOver(c, r)
  BY <1>4 DEF Rest, Armed
<1> QED BY <1>1, <1>2, <1>3, <1>4

-----------------------------------------------------------------------------
(* The engine is fed.                                                      *)

\* How many elements a sum of e covers, of a sequence of length l.
Whole(q, l, e) ==
  LET full == {m \in 0 .. l : Total(SubSeq(q, 1, m)) <= e}
  IN CHOOSE x \in full : \A y \in full : y <= x

LEMMA WholeIs ==
  ASSUME NEW q \in Seq(Nat), NEW e \in Nat, NEW m, m = Whole(q, Len(q), e)
  PROVE  /\ m \in 0 .. Len(q) /\ Prefix(q, m) <= e /\ (m < Len(q) => e < Prefix(q, m + 1))
         /\ Total(SubSeq(q, 1, m)) = Prefix(q, m)
<1> DEFINE l == Len(q)
           full == {x \in 0 .. l : Total(SubSeq(q, 1, x)) <= e}
<1>1. \A x : Total(SubSeq(q, 1, x)) = Prefix(q, x)
  BY TotalIsSum DEF Prefix
<1>2. PICK p \in 0 .. l : /\ Prefix(q, p) <= e
                          /\ \A y \in 0 .. l : Prefix(q, y) <= e => y <= p
                          /\ p < l => e < Prefix(q, p + 1)
  BY LongestPrefix
<1>3. p \in full /\ \A y \in full : y <= p
  BY <1>1, <1>2
<1>4. m = CHOOSE x \in full : \A y \in full : y <= x
  BY DEF Whole
<1>5. full \subseteq Nat
  OBVIOUS
<1> HIDE DEF full
<1>6. m \in full /\ \A y \in full : y <= m
  BY <1>3, <1>4
<1>7. m <= p /\ p <= m
  BY <1>3, <1>6
<1>8. m = p
  BY <1>3, <1>5, <1>6, <1>7
<1> QED BY <1>1, <1>2, <1>8

\* What is left of rx_pend when its head offset moves to e.
LEMMA PendCut ==
  ASSUME NEW q \in Seq(1 .. 2), NEW e \in Nat, e <= SumOf(q), NEW m, m = Whole(q, Len(q), e),
         NEW rest, rest = SubSeq(q, m + 1, Len(q))
  PROVE  /\ rest \in Seq(1 .. 2) /\ Len(rest) <= Len(q)
         /\ Prefix(q, m) \in Nat /\ Prefix(q, m) <= e /\ SumOf(q) = Prefix(q, m) + SumOf(rest)
         /\ e - Prefix(q, m) < IF rest = << >> THEN 1 ELSE Head(rest)
         /\ SumOf(rest) \in Nat
<1>1. q \in Seq(Nat)
  BY SeqTypes
<1> DEFINE l == Len(q)
<1>2. l \in Nat /\ m \in 0 .. l /\ Prefix(q, m) <= e /\ (m < l => e < Prefix(q, m + 1))
  BY <1>1, WholeIs, LenProperties
<1>3. rest \in Seq(1 .. 2) /\ Len(rest) = l - m /\ \A j \in 1 .. l - m : rest[j] = q[m + j]
  BY <1>2, CutAt
<1>4. SumOf(q) = Prefix(q, m) + SumOf(rest) /\ Prefix(q, m) \in Nat
  BY <1>1, <1>2, PrefixCut, PrefixType
<1>5. SumOf(rest) \in Nat
  BY <1>3, SeqTypes
<1>6. e - Prefix(q, m) < IF rest = << >> THEN 1 ELSE Head(rest)
  <2> HIDE DEF l
  <2>1. CASE rest = << >>
    <3>1. SumOf(rest) = 0
      BY <2>1, SumEmpty
    <3> QED BY <1>2, <1>4, <2>1, <3>1
  <2>2. CASE rest # << >>
    <3>1. Len(rest) \in Nat \ {0}
      BY <1>3, <2>2, EmptySeq
    <3>2. m < l /\ m + 1 \in 1 .. l /\ 1 \in 1 .. l - m
      BY <1>2, <1>3, <3>1, SMTT(30)
    <3>3. Head(rest) = q[m + 1]
      <4>1. Head(rest) = rest[1]
        BY <1>3, <2>2
      <4> QED BY <1>3, <3>2, <4>1
    <3>4. Prefix(q, m + 1) = Prefix(q, m) + q[m + 1] /\ q[m + 1] \in Nat
      <4>1. Prefix(q, m + 1) = Prefix(q, (m + 1) - 1) + q[m + 1]
        BY <1>1, <3>2, PrefixStep DEF l
      <4>2. q[m + 1] \in Nat
        BY <1>1, <3>2, ElementOfSeq DEF l
      <4> QED BY <1>2, <4>1, <4>2
    <3>5. e < Prefix(q, m + 1)
      BY <1>2, <3>2
    <3> DEFINE a == Prefix(q, m)
               b == q[m + 1]
               g == Prefix(q, m + 1)
    <3>6. a \in Nat /\ b \in Nat /\ g = a + b /\ e < g
      BY <1>4, <3>4, <3>5
    <3> HIDE DEF a, b, g
    <3>7. e - a < b
      BY <3>6
    <3> QED BY <2>2, <3>3, <3>7 DEF a, b
  <2> QED BY <2>1, <2>2
<1>7. Len(rest) <= Len(q)
  <2>1. Len(rest) = l - m /\ l \in Nat /\ m \in Nat
    BY <1>2, <1>3
  <2> QED BY <2>1
<1> HIDE DEF l
<1> QED BY <1>2, <1>3, <1>4, <1>5, <1>6, <1>7

LEMMA ShortSequences ==
  ASSUME NEW S, NEW q \in Seq(S)
  PROVE  /\ Len(q) = 1 => q[1] \in S /\ q = <<q[1]>>
         /\ Len(q) = 2 => q[1] \in S /\ q[2] \in S /\ q = <<q[1], q[2]>>
<1>1. ASSUME Len(q) = 1 PROVE q[1] \in S /\ q = <<q[1]>>
  <2>1. 1 \in 1 .. Len(q)
    BY <1>1
  <2>2. q[1] \in S
    BY <2>1, ElementOfSeq
  <2> DEFINE x == q[1]
             p == <<x>>
  <2>3. p \in Seq(S) /\ Len(p) = 1 /\ p[1] = x
    BY <2>2
  <2> HIDE DEF p
  <2>4. \A i \in 1 .. Len(q) : q[i] = p[i]
    BY <1>1, <2>3
  <2>5. q = p
    BY <1>1, <2>3, <2>4, SeqEqual
  <2> QED BY <2>2, <2>5 DEF p
<1>2. ASSUME Len(q) = 2 PROVE q[1] \in S /\ q[2] \in S /\ q = <<q[1], q[2]>>
  <2>1. 1 \in 1 .. Len(q) /\ 2 \in 1 .. Len(q)
    BY <1>2
  <2>2. q[1] \in S /\ q[2] \in S
    BY <2>1, ElementOfSeq
  <2> DEFINE x == q[1]
             y == q[2]
             p == <<x, y>>
  <2>3. p \in Seq(S) /\ Len(p) = 2 /\ p[1] = x /\ p[2] = y
    BY <2>2
  <2> HIDE DEF p
  <2>4. \A i \in 1 .. Len(q) : q[i] = p[i]
    BY <1>2, <2>3
  <2>5. q = p
    BY <1>2, <2>3, <2>4, SeqEqual
  <2> QED BY <2>2, <2>5 DEF p
<1> QED BY <1>1, <1>2

Heard(k) == IF k < HsUnits THEN k ELSE HsUnits
Flights(c, a, b) == [i \in 1 .. b - a |-> Flight(c, a + i)]

LEMMA FlightsAre ==
  ASSUME NEW c, NEW fed \in Nat, NEW to \in Nat, fed <= to,
         NEW f, f = FlattenSeq(Flights(c, Heard(fed), Heard(to)))
  PROVE  /\ f \in Seq(1 .. 2)
         /\ c \notin Server => Len(f) = IF fed = 0 /\ to > 0 THEN 1 ELSE 0
<1> DEFINE a == Heard(fed)
           b == Heard(to)
           q == Flights(c, a, b)
           S == Seq(1 .. 2)
<1>1. /\ a \in 0 .. 2 /\ b \in 0 .. 2 /\ a <= b /\ (a = 0 <=> fed = 0) /\ (b = 0 <=> to = 0)
  BY DEF Heard, HsUnits
<1>2. << >> \in S /\ <<1>> \in S /\ <<2>> \in S /\ Len(<<1>>) = 1
  OBVIOUS
<1>3. \A i \in 0 .. 2 : Flight(c, i) \in S
  <2>1. ASSUME NEW i \in 0 .. 2 PROVE Flight(c, i) \in {<< >>, <<1>>, <<2>>}
    <3>1. i = 0 \/ i = 1 \/ i = 2
      OBVIOUS
    <3> QED BY <3>1 DEF Flight
  <2> HIDE DEF S
  <2> QED BY <1>2, <2>1
<1>4. c \notin Server => Flight(c, 1) = <<1>> /\ Flight(c, 2) = << >>
  BY DEF Flight
<1> HIDE DEF S, a, b
<1>5. q \in Seq(S) /\ Len(q) = b - a
  <2> DEFINE k == b - a
  <2>1. k \in Nat /\ \A i \in 1 .. k : Flight(c, a + i) \in S
    BY <1>1, <1>3
  <2>2. q = [i \in 1 .. k |-> Flight(c, a + i)]
    BY DEF Flights
  <2> HIDE DEF k, q
  <2>3. q \in [1 .. k -> S]
    BY <2>1, <2>2
  <2>4. \A g \in [1 .. k -> S] : g \in Seq(S) /\ Len(g) = k
    BY <2>1
  <2> QED BY <2>3, <2>4 DEF k
<1>6. \A i \in 1 .. b - a : q[i] = Flight(c, a + i)
  BY DEF Flights
<1> HIDE DEF q
<1>7. f = FlattenSeq(q)
  BY DEF q, a, b
<1>8. f \in S
  BY <1>5, <1>7, FlattenType DEF S
<1>9. ASSUME c \notin Server PROVE Len(f) = IF fed = 0 /\ to > 0 THEN 1 ELSE 0
  <2>1. CASE b = a
    <3>1. q = << >>
      BY <1>1, <1>5, <2>1, EmptySeq
    <3>2. f = << >>
      BY <1>7, <3>1, FlattenEmpty
    <3> QED BY <1>1, <2>1, <3>2
  <2>2. CASE b = a + 1
    <3>0. Len(q) = 1 /\ q[1] = Flight(c, a + 1)
      BY <1>1, <1>5, <1>6, <2>2
    <3>1. q = <<q[1]>> /\ q[1] \in Seq(1 .. 2)
      <4>1. q[1] \in S /\ q = <<q[1]>>
        BY <1>5, <3>0, ShortSequences
      <4> QED BY <4>1 DEF S
    <3>2. f = q[1]
      BY <1>7, <3>1, FlattenOne
    <3>3. a = 0 \/ a = 1
      BY <1>1, <2>2
    <3>4. CASE a = 0
      BY <1>1, <1>2, <1>4, <1>9, <2>2, <3>0, <3>2, <3>4
    <3>5. CASE a = 1
      BY <1>1, <1>2, <1>4, <1>9, <2>2, <3>0, <3>2, <3>5
    <3> QED BY <3>3, <3>4, <3>5
  <2>3. CASE b # a /\ b # a + 1
    <3>1. a = 0 /\ b = 2
      BY <1>1, <2>3
    <3>2. Len(q) = 2 /\ q[1] = <<1>> /\ q[2] = << >>
      BY <1>4, <1>5, <1>6, <1>9, <3>1
    <3>3. q = <<q[1], q[2]>> /\ q[1] \in Seq(1 .. 2) /\ q[2] \in Seq(1 .. 2)
      <4>1. q[1] \in S /\ q[2] \in S /\ q = <<q[1], q[2]>>
        BY <1>5, <3>2, ShortSequences
      <4> QED BY <4>1 DEF S
    <3>4. q = Append(<<q[1]>>, q[2]) /\ <<q[1]>> \in Seq(Seq(1 .. 2))
      BY <3>3, TwoConcat
    <3>5. f = FlattenSeq(<<q[1]>>) \o q[2]
      BY <1>7, <3>3, <3>4, FlattenAppend
    <3>6. FlattenSeq(<<q[1]>>) = q[1]
      BY <3>3, FlattenOne
    <3>7. f = q[1]
      <4>1. q[1] \o << >> = q[1]
        BY <3>3, ConcatEmptySeq
      <4> QED BY <3>2, <3>5, <3>6, <4>1
    <3> QED BY <1>1, <1>2, <3>1, <3>2, <3>7
  <2> QED BY <2>1, <2>2, <2>3
<1> QED BY <1>8, <1>9 DEF S

AdvanceFields == {"fed", "app", "out", "st", "rec"}

Advanced(c, r, n, t) ==
  /\ Session(t) /\ Keeps(r, t, AdvanceFields) /\ t.fed = r.fed + n
  /\ t.app => r.app \/ (n > 0 /\ Stream[r.fed + n] = "d")
  /\ t.st = "hs" => r.st = "hs" /\ t.fed < 2
  /\ c \notin Server =>
       Len(t.out) = Len(r.out) + IF r.fed = 0 /\ t.fed > 0 THEN 1 ELSE 0
  /\ \A i : i # 0 => t.rec[i] = r.rec[i]

LEMMA AdvanceIs ==
  ASSUME NEW c, NEW r, Session(r), NEW n \in Nat, NEW t, t = Advance(c, r, n)
  PROVE  Advanced(c, r, n, t)
<1> DEFINE to == r.fed + n
           f == FlattenSeq(Flights(c, Heard(r.fed), Heard(to)))
           app == r.app \/ (n > 0 /\ Stream[to] = "d")
           st == IF n > 0 /\ Stream[to] = "x" THEN "shut"
                 ELSE IF r.st = "hs" /\ to >= HsUnits THEN "open" ELSE r.st
           X == {"fed", "app", "out", "st"}
           u == [r EXCEPT !.fed = to, !.app = app, !.out = r.out \o f, !.st = st]
<1>1. t = Built(u)
  <2>1. IsRecord(r)
    BY DEF Session
  <2>2. \A k : Heard(k) = IF k < HsUnits THEN k ELSE HsUnits
    BY DEF Heard
  <2> QED BY <2>1 DEF Advance, Flights, Heard, IsRecord, Field
<1>2. r.fed \in Nat /\ to \in Nat /\ r.fed <= to
  <2>1. r.fed \in Nat
    BY DEF Session, InType
  <2> QED BY <2>1
<1>3. IsRecord(u)
  BY DEF Session, IsRecord
<1>4. u.fed = to /\ u.app = app /\ u.out = r.out \o f /\ u.st = st
  BY DEF Session, IsRecord, Field
<1>5. Keeps(r, u, X)
  BY <1>3 DEF Session, IsRecord, Field, Keeps
<1>6. f \in Seq(1 .. 2) /\ (c \notin Server => Len(f) = IF r.fed = 0 /\ to > 0 THEN 1 ELSE 0)
  <2> HIDE DEF to
  <2> QED BY <1>2, FlightsAre
<1>7. st = "hs" => r.st = "hs" /\ to < 2
  <2> HIDE DEF to
  <2> QED BY <1>2 DEF HsUnits
<1>8. st \in {"hs", "open", "shut"} /\ app \in BOOLEAN
  <2>1. r.st \in {"hs", "open", "shut"}
    BY DEF Session, InType
  <2>2. st \in {"hs", "open", "shut"}
    BY <2>1
  <2> QED BY <2>2
<1> HIDE DEF u, st, app, f, to, X
<1>9. r.out \o f \in Seq(1 .. 2) /\ Len(r.out \o f) = Len(r.out) + Len(f)
  <2>1. r.out \in Seq(1 .. 2)
    BY DEF Session, OutType
  <2> QED BY <1>6, <2>1, ConcatProperties
<1>10. NetType(u) /\ RingType(u) /\ AppType(u)
  BY <1>5, TypeKept DEF NetFields, SlotFields, AppFields, X
<1>11. InType(u)
  <2>1. u.pend = r.pend /\ u.off = r.off
    BY <1>5 DEF Keeps, Field, X
  <2> QED BY <1>2, <1>4, <1>8, <2>1 DEF Session, InType
<1>12. OutType(u)
  <2>1. /\ u.n = r.n /\ u.defer = r.defer /\ u.stall = r.stall /\ u.pump = r.pump
        /\ u.sched = r.sched
    BY <1>5 DEF Keeps, Field, X
  <2> QED BY <1>4, <1>9, <2>1 DEF Session, OutType
<1>13. Session(u)
  BY <1>3, <1>10, <1>11, <1>12 DEF Session
<1>14. Session(t) /\ Keeps(u, t, {"rec"}) /\ \A i : i # 0 => t.rec[i] = u.rec[i]
  BY <1>1, <1>13, BuiltIs
<1>15. Keeps(r, t, AdvanceFields)
  <2>1. Keeps(r, t, X \cup {"rec"})
    BY <1>5, <1>14, KeepsTrans
  <2>2. X \cup {"rec"} = AdvanceFields
    BY DEF X, AdvanceFields
  <2> QED BY <2>1, <2>2
<1>16. t.fed = to /\ t.app = app /\ t.out = r.out \o f /\ t.st = st /\ u.rec = r.rec
  <2>1. t.fed = u.fed /\ t.app = u.app /\ t.out = u.out /\ t.st = u.st
    BY <1>14 DEF Keeps, Field
  <2>2. u.rec = r.rec
    BY <1>5 DEF Keeps, Field, X
  <2> QED BY <1>4, <2>1, <2>2
<1>17. \A i : i # 0 => t.rec[i] = r.rec[i]
  BY <1>14, <1>16
<1>18. t.app => r.app \/ (n > 0 /\ Stream[r.fed + n] = "d")
  BY <1>16 DEF app, to
<1>19. c \notin Server => Len(t.out) = Len(r.out) + IF r.fed = 0 /\ t.fed > 0 THEN 1 ELSE 0
  BY <1>6, <1>9, <1>16
<1>20. t.st = "hs" => r.st = "hs" /\ t.fed < 2
  BY <1>7, <1>16
<1>21. t.fed = r.fed + n
  BY <1>16 DEF to
<1> QED BY <1>14, <1>15, <1>17, <1>18, <1>19, <1>20, <1>21 DEF Advanced

LEMMA FeedIs ==
  ASSUME NEW c \in Conn, NEW r, Good(c, r), r.live, NEW t, t = Feed(c, r)
  PROVE  Good(c, t) /\ t.live = TRUE
<1> DEFINE n == Taken(r)
           e == r.off + n
           m == Whole(r.pend, Len(r.pend), e)
           gone == Prefix(r.pend, m)
           rest == SubSeq(r.pend, m + 1, Len(r.pend))
           u == Advance(c, r, n)
           X == {"pend", "off", "win"}
<1>0. Session(r) /\ LiveOK(c, r)
  BY DEF Good
<1>1. /\ SumOf(r.pend) \in Nat /\ SumOf(r.rxq) \in Nat /\ r.off <= SumOf(r.pend)
      /\ r.off \in Nat /\ r.fed \in Nat /\ r.win \in Nat
  BY <1>0, WaitingIs DEF Session, NetType
<1>2. n \in 0 .. SumOf(r.pend) - r.off /\ (n > 0 => ~r.app)
  <2> DEFINE k == SumOf(r.pend) - r.off
  <2>1. k \in Nat
    BY <1>1
  <2>2. Taken(r) = Takes(r, k)
    BY TotalIsSum DEF Taken
  <2> HIDE DEF k
  <2>3. n \in 0 .. k /\ (n > 0 => ~r.app)
    BY <2>1, <2>2, TakesIs
  <2> QED BY <2>3 DEF k
<1> HIDE DEF n
<1>3. n \in Nat /\ e \in Nat /\ e <= SumOf(r.pend)
  BY <1>1, <1>2
<1>4. r.pend \in Seq(1 .. 2) /\ r.pend \in Seq(Nat)
  BY <1>0, SeqTypes DEF Session, InType
<1> HIDE DEF e, m, gone, rest, u, X
<1>5. /\ rest \in Seq(1 .. 2) /\ Len(rest) <= Len(r.pend)
      /\ gone \in Nat /\ gone <= e /\ SumOf(r.pend) = gone + SumOf(rest)
      /\ e - gone < IF rest = << >> THEN 1 ELSE Head(rest)
      /\ SumOf(rest) \in Nat
  BY <1>3, <1>4, PendCut DEF m, gone, rest
<1>6. /\ Session(u) /\ Keeps(r, u, AdvanceFields) /\ u.fed = r.fed + n
      /\ u.app => r.app \/ (n > 0 /\ Stream[r.fed + n] = "d")
      /\ u.st = "hs" => r.st = "hs" /\ u.fed < 2
      /\ c \notin Server =>
           Len(u.out) = Len(r.out) + IF r.fed = 0 /\ u.fed > 0 THEN 1 ELSE 0
      /\ \A i : i # 0 => u.rec[i] = r.rec[i]
  <2>1. u = Advance(c, r, n)
    BY DEF u
  <2>2. Advanced(c, r, n, u)
    BY <1>0, <1>3, <2>1, AdvanceIs
  <2> QED BY <2>2 DEF Advanced
<1>7. u.pend = r.pend /\ u.win = r.win
  BY <1>6 DEF Keeps, Field, AdvanceFields
<1>8. t = [u EXCEPT !.pend = rest, !.off = e - gone, !.win = r.win + gone]
  <2>1. Total(SubSeq(r.pend, 1, m)) = gone
    BY <1>3, <1>4, WholeIs DEF m, gone
  <2>2. t = [u EXCEPT !.pend = SubSeq(@, m + 1, Len(@)),
                      !.off = e - Total(SubSeq(r.pend, 1, m)),
                      !.win = @ + Total(SubSeq(r.pend, 1, m))]
    BY DEF Feed, Fed, u, n, e, m, Whole
  <2>3. IsRecord(u)
    BY <1>6 DEF Session
  <2> QED BY <1>7, <2>1, <2>2, <2>3 DEF rest, IsRecord, Field
<1>9. IsRecord(t)
  BY <1>6, <1>8 DEF Session, IsRecord
<1>10. t.pend = rest /\ t.off = e - gone /\ t.win = r.win + gone
  BY <1>6, <1>8 DEF Session, IsRecord, Field
<1>11. Keeps(u, t, X)
  BY <1>6, <1>8, <1>9 DEF Session, IsRecord, Field, Keeps, X
<1>12. Keeps(r, t, AdvanceFields \cup X)
  BY <1>6, <1>11, KeepsTrans
<1>13. RingType(t) /\ OutType(t) /\ AppType(t)
  BY <1>6, <1>11, TypeKept DEF SlotFields, OutFields, AppFields, X
<1>14. /\ t.fed = r.fed + n /\ t.app = u.app /\ t.st = u.st /\ t.out = u.out /\ t.rec = u.rec
  BY <1>6, <1>11 DEF Keeps, Field, X
<1>15. t.hs = r.hs /\ t.told = r.told /\ t.got = r.got /\ t.n = r.n /\ t.rxq = r.rxq
       /\ t.sent = r.sent /\ t.tcp = r.tcp /\ t.wire = r.wire /\ t.acks = r.acks
       /\ t.lost = r.lost
  BY <1>12 DEF Keeps, Field, X, AdvanceFields
<1>16. InType(t)
  <2>1. u.app \in BOOLEAN /\ u.st \in {"hs", "open", "shut"} /\ u.fed \in Nat
    BY <1>6 DEF Session, InType
  <2>2. Len(t.pend) <= PendMax
    <3>1. Len(r.pend) <= PendMax /\ Len(r.pend) \in Nat /\ Len(rest) \in Nat
      BY <1>0, <1>4, <1>5, LenProperties DEF Session, InType
    <3> QED BY <1>5, <1>10, <3>1, Constants
  <2>3. t.off \in Nat /\ t.off < IF t.pend = << >> THEN 1 ELSE Head(t.pend)
    <3>1. t.off \in Nat
      BY <1>3, <1>5, <1>10
    <3> QED BY <1>5, <1>10, <3>1
  <2> QED BY <1>5, <1>10, <1>14, <1>6, <2>1, <2>2, <2>3 DEF InType
<1>17. NetType(t)
  <2>1. t.win \in Nat
    BY <1>1, <1>5, <1>10
  <2> QED BY <1>0, <1>15, <2>1 DEF Session, NetType
<1>18. Session(t)
  BY <1>9, <1>13, <1>16, <1>17 DEF Session
<1>19. Arrived(t) = Arrived(r)
  <2> DEFINE a == SumOf(r.pend)
             b == SumOf(rest)
             q == SumOf(r.rxq)
  <2>1. Arrived(r) = r.fed + (a - r.off) + q
    BY DEF Arrived
  <2>2. Arrived(t) = (r.fed + n) + (b - (e - gone)) + q
    BY <1>10, <1>14, <1>15 DEF Arrived
  <2>3. a = gone + b /\ e = r.off + n
    BY <1>5 DEF e
  <2>4. a \in Nat /\ b \in Nat /\ q \in Nat /\ gone \in Nat /\ n \in Nat /\ r.off \in Nat /\ r.fed \in Nat
    BY <1>1, <1>3, <1>5
  <2> HIDE DEF a, b, q
  <2> QED BY <2>1, <2>2, <2>3, <2>4
<1>20. InOK(t)
  <2>1. r.win + SumOf(r.rxq) + SumOf(r.pend) = Window /\ Arrived(r) <= r.sent /\ r.sent <= Len(Stream)
    BY <1>0 DEF LiveOK, InOK
  <2>2. t.win + SumOf(t.rxq) + SumOf(t.pend) = Window
    <3> DEFINE a == SumOf(r.pend)
               b == SumOf(rest)
               q == SumOf(r.rxq)
    <3>1. a = gone + b /\ r.win + q + a = Window
      BY <1>5, <2>1
    <3>2. a \in Nat /\ b \in Nat /\ q \in Nat /\ gone \in Nat /\ r.win \in Nat
      BY <1>1, <1>5
    <3>3. t.win + SumOf(t.rxq) + SumOf(t.pend) = (r.win + gone) + q + b
      BY <1>10, <1>15
    <3> HIDE DEF a, b, q
    <3> QED BY <3>1, <3>2, <3>3
  <2> QED BY <1>15, <1>19, <2>1, <2>2 DEF InOK
<1>21. TalkOK(c, t)
  <2>1. TalkOK(c, r)
    BY <1>0 DEF LiveOK
  <2>2. t.hs = t.told /\ (t.got > 0 => t.told) /\ (Arrived(t) > 2 => t.n >= 2)
    BY <1>15, <1>19, <2>1 DEF TalkOK
  <2>3. t.st = "hs" => t.fed < 2
    BY <1>6, <1>14
  <2>4. t.app => t.fed > 2
    <3>1. CASE r.app
      BY <1>1, <1>3, <1>14, <2>1, <3>1 DEF TalkOK
    <3>2. CASE ~r.app /\ t.app
      <4>1. n > 0 /\ Stream[r.fed + n] = "d"
        BY <1>6, <1>14, <3>2
      <4>2. r.fed + n # 1 /\ r.fed + n # 2
        BY <4>1, StreamIs
      <4> QED BY <1>1, <1>3, <1>14, <4>1, <4>2
    <3> QED BY <3>1, <3>2
  <2>5. ~t.hs /\ c \notin Server => t.n + Len(t.out) = IF t.fed = 0 THEN 1 ELSE 2
    <3> SUFFICES ASSUME ~t.hs, c \notin Server
                 PROVE  t.n + Len(t.out) = IF t.fed = 0 THEN 1 ELSE 2
      OBVIOUS
    <3> DEFINE k == Len(r.out)
               x == r.n
               a == r.fed
               b == t.fed
    <3>1. x + k = (IF a = 0 THEN 1 ELSE 2) /\ t.n = x
      BY <1>15, <2>1 DEF TalkOK
    <3>2. Len(t.out) = k + IF a = 0 /\ b > 0 THEN 1 ELSE 0
      BY <1>6, <1>14
    <3>3. k \in Nat /\ x \in Nat /\ a \in Nat /\ b \in Nat /\ a <= b
      <4>1. k \in Nat /\ x \in Nat
        BY <1>0, LenProperties DEF Session, OutType
      <4> QED BY <1>1, <1>3, <1>14, <4>1
    <3> HIDE DEF k, x, a, b
    <3>4. CASE a = 0 /\ b > 0
      BY <3>1, <3>2, <3>3, <3>4 DEF b
    <3>5. CASE ~(a = 0 /\ b > 0)
      BY <3>1, <3>2, <3>3, <3>5 DEF b
    <3> QED BY <3>4, <3>5
  <2> QED BY <2>2, <2>3, <2>4, <2>5 DEF TalkOK
<1>22. RingOK(t) /\ HoldOK(t)
  <2>1. (AdvanceFields \cup X) \cap RingFields = {}
    BY DEF AdvanceFields, X, RingFields
  <2>2. \A i : i # 0 => t.rec[i] = r.rec[i]
    BY <1>6, <1>14
  <2> QED BY <1>0, <1>12, <2>1, <2>2, RingKept, HoldKept DEF LiveOK
<1>23. LiveOK(c, t)
  BY <1>20, <1>21, <1>22 DEF LiveOK
<1>24. (AdvanceFields \cup X) \cap {"live", "tcp"} = {}
  BY DEF AdvanceFields, X
<1> QED BY <1>12, <1>18, <1>23, <1>24, KeepsGood

-----------------------------------------------------------------------------
(* The ring of outbound records.                                           *)

\* A remainder is taken once.
LEMMA SlotMod ==
  ASSUME NEW x \in Nat, x < 2 * Slots
  PROVE  x % Slots = IF x < Slots THEN x ELSE x - Slots
<1>1. Slots \in Nat \ {0}
  BY Constants
<1>2. CASE x < Slots
  <2>1. x \in 0 .. Slots - 1
    BY <1>1, <1>2
  <2> QED BY <1>1, <1>2, <2>1
<1>3. CASE x >= Slots
  <2>1. x \in Slots .. 2 * Slots - 1
    BY <1>1, <1>3
  <2> QED BY <1>1, <1>3, <2>1
<1> QED BY <1>1, <1>2, <1>3

\* The slot that is d behind the next one, or next itself.
Back(r, d) == IF r.next - d < 0 THEN r.next - d + Slots ELSE r.next - d

LEMMA NthIs ==
  ASSUME NEW r, r.next \in Slot, r.pinned \in 0 .. Slots, NEW j \in 1 .. r.pinned + 1
  PROVE  Nth(r, j) = Back(r, r.pinned + 1 - j) /\ Nth(r, j) \in Slot
<1> DEFINE x == r.next - r.pinned + j - 1 + Slots
<1>1. /\ Slots \in Nat \ {0} /\ r.next \in Nat /\ r.next < Slots /\ r.pinned \in Nat
      /\ r.pinned <= Slots /\ j \in Nat /\ 1 <= j /\ j <= r.pinned + 1
  BY Constants DEF Slot
<1>2. x \in Nat /\ x < 2 * Slots
  BY <1>1
<1>3. Nth(r, j) = x % Slots
  BY DEF Nth
<1>4. x % Slots = IF x < Slots THEN x ELSE x - Slots
  <2> HIDE DEF x
  <2> QED BY <1>2, SlotMod
<1>5. Nth(r, j) = IF x < Slots THEN x ELSE x - Slots
  BY <1>3, <1>4
<1>6. CASE x < Slots
  BY <1>1, <1>2, <1>5, <1>6 DEF Back, Slot
<1>7. CASE x >= Slots
  BY <1>1, <1>2, <1>5, <1>7 DEF Back, Slot
<1> QED BY <1>2, <1>6, <1>7, <1>1

LEMMA NthDistinct ==
  ASSUME NEW r, r.next \in Slot, r.pinned \in 0 .. Slots,
         NEW i \in 1 .. r.pinned, NEW j \in 1 .. r.pinned
  PROVE  /\ i # j => Nth(r, i) # Nth(r, j)
         /\ r.pinned < Slots => Nth(r, j) # r.next
<1>1. /\ Slots \in Nat \ {0} /\ r.next \in Nat /\ r.next < Slots /\ r.pinned \in Nat
      /\ r.pinned <= Slots /\ j \in Nat /\ 1 <= j /\ j <= r.pinned
      /\ i \in Nat /\ 1 <= i /\ i <= r.pinned
  BY Constants DEF Slot
<1>2. /\ Nth(r, i) = Back(r, r.pinned + 1 - i) /\ Nth(r, j) = Back(r, r.pinned + 1 - j)
  BY NthIs
<1>3. i # j => Back(r, r.pinned + 1 - i) # Back(r, r.pinned + 1 - j)
  BY <1>1 DEF Back
<1>4. r.pinned < Slots => Back(r, r.pinned + 1 - j) # r.next
  BY <1>1 DEF Back
<1> QED BY <1>2, <1>3, <1>4

LEMMA PinnedIs ==
  ASSUME NEW r, r.next \in Slot, r.pinned \in 0 .. Slots, r.len \in [Slot -> 0 .. 2]
  PROVE  /\ Pinned(r) \in Seq(0 .. 2) /\ Pinned(r) \in Seq(Nat) /\ Len(Pinned(r)) = r.pinned
         /\ \A j \in 1 .. r.pinned : Pinned(r)[j] = r.len[Nth(r, j)]
<1> DEFINE k == r.pinned
           q == Pinned(r)
<1>1. k \in Nat
  OBVIOUS
<1>2. \A j \in 1 .. k : r.len[Nth(r, j)] \in 0 .. 2
  <2>1. ASSUME NEW j \in 1 .. k PROVE Nth(r, j) \in Slot
    <3>1. j \in 1 .. r.pinned + 1
      BY <1>1
    <3> QED BY <3>1, NthIs
  <2> QED BY <2>1
<1>3. q = [j \in 1 .. k |-> r.len[Nth(r, j)]]
  BY DEF Pinned
<1> HIDE DEF q, k
<1>4. q \in [1 .. k -> 0 .. 2] /\ \A j \in 1 .. k : q[j] = r.len[Nth(r, j)]
  BY <1>2, <1>3
<1>5. \A f \in [1 .. k -> 0 .. 2] : f \in Seq(0 .. 2) /\ Len(f) = k
  BY <1>1
<1>6. q \in Seq(0 .. 2) /\ Len(q) = k
  BY <1>4, <1>5
<1> QED BY <1>4, <1>6, SeqTypes DEF q, k

\* The next slot moves on and joins the pinned ones: those before it stay.
LEMMA NthAfterEmit ==
  ASSUME NEW r, NEW t, r.next \in Slot, r.pinned \in 0 .. Slots - 1,
         t.next = (r.next + 1) % Slots, t.pinned = r.pinned + 1
  PROVE  /\ t.next \in Slot
         /\ \A j \in 1 .. t.pinned : Nth(t, j) = Nth(r, j)
         /\ Nth(t, t.pinned) = r.next
<1>1. /\ Slots \in Nat \ {0} /\ r.next \in Nat /\ r.next < Slots /\ r.pinned \in Nat
      /\ r.pinned < Slots /\ r.pinned \in 0 .. Slots /\ t.pinned \in 0 .. Slots
  BY Constants DEF Slot
<1>2. t.next = IF r.next + 1 < Slots THEN r.next + 1 ELSE 0
  <2> DEFINE x == r.next + 1
  <2>1. x \in Nat /\ x < 2 * Slots
    BY <1>1
  <2>2. t.next = IF x < Slots THEN x ELSE x - Slots
    <3>1. t.next = x % Slots
      OBVIOUS
    <3> HIDE DEF x
    <3> QED BY <2>1, <3>1, SlotMod
  <2> QED BY <1>1, <2>2
<1>3. t.next \in Slot
  BY <1>1, <1>2 DEF Slot
<1>4. ASSUME NEW j \in 1 .. t.pinned PROVE Nth(t, j) = Nth(r, j)
  <2>1. j \in 1 .. r.pinned + 1 /\ j \in 1 .. t.pinned + 1
    BY <1>1
  <2>2. Nth(t, j) = Back(t, t.pinned + 1 - j) /\ Nth(r, j) = Back(r, r.pinned + 1 - j)
    BY <1>1, <1>3, <2>1, NthIs
  <2>3. Back(t, t.pinned + 1 - j) = Back(r, r.pinned + 1 - j)
    <3>1. j \in Nat /\ 1 <= j /\ j <= r.pinned + 1
      BY <1>1, <2>1
    <3> QED BY <1>1, <1>2, <3>1 DEF Back
  <2> QED BY <2>2, <2>3
<1>5. Nth(r, r.pinned + 1) = r.next
  <2>1. r.pinned + 1 \in 1 .. r.pinned + 1
    BY <1>1
  <2>2. Nth(r, r.pinned + 1) = Back(r, r.pinned + 1 - (r.pinned + 1))
    BY <1>1, <2>1, NthIs
  <2>3. r.pinned + 1 - (r.pinned + 1) = 0
    BY <1>1
  <2>4. Back(r, 0) = r.next
    BY <1>1 DEF Back
  <2> QED BY <2>2, <2>3, <2>4
<1>6. t.pinned \in 1 .. t.pinned
  BY <1>1
<1> QED BY <1>3, <1>4, <1>5, <1>6

\* The oldest m slots are released: those after them stay.
LEMMA NthAfterRelease ==
  ASSUME NEW r, NEW t, r.next \in Slot, r.pinned \in 0 .. Slots, NEW m \in 0 .. r.pinned,
         t.next = r.next, t.pinned = r.pinned - m
  PROVE  \A j \in 1 .. t.pinned : Nth(t, j) = Nth(r, m + j) /\ m + j \in 1 .. r.pinned
<1>1. /\ Slots \in Nat \ {0} /\ r.next \in Nat /\ r.pinned \in Nat /\ r.pinned <= Slots
      /\ m \in Nat /\ m <= r.pinned
  BY Constants DEF Slot
<1>2. ASSUME NEW j \in 1 .. t.pinned PROVE Nth(t, j) = Nth(r, m + j) /\ m + j \in 1 .. r.pinned
  <2>1. j \in Nat /\ 1 <= j /\ j <= r.pinned - m
    BY <1>1
  <2>2. m + j \in 1 .. r.pinned
    BY <1>1, <2>1
  <2>3. /\ j \in 1 .. t.pinned + 1 /\ m + j \in 1 .. r.pinned + 1 /\ t.pinned \in 0 .. Slots
        /\ t.next \in Slot
    BY <1>1, <2>1, <2>2
  <2>4. Nth(t, j) = Back(t, t.pinned + 1 - j) /\ Nth(r, m + j) = Back(r, r.pinned + 1 - (m + j))
    BY <2>3, NthIs
  <2>5. t.pinned + 1 - j = r.pinned + 1 - (m + j)
    BY <1>1, <2>1
  <2> QED BY <2>2, <2>4, <2>5 DEF Back
<1> QED BY <1>2

EmitFields == {"wire", "n", "len", "rec", "next", "pinned", "out", "defer", "stall"}

\* The fields of the connection when its record is in the ring, before the
\* engine goes on to the next one.
Emitted(r, t) ==
  LET n == Head(r.out)
  IN /\ Session(t) /\ Keeps(r, t, EmitFields)
     /\ t.wire = r.wire \o [k \in 1 .. n |-> [slot |-> r.next, rec |-> r.n + 1]]
     /\ t.n = r.n + 1 /\ t.out = Tail(r.out)
     /\ t.next = (r.next + 1) % Slots /\ t.pinned = r.pinned + 1
     /\ t.len = [r.len EXCEPT ![r.next] = n]
     /\ t.rec = [r.rec EXCEPT ![r.next] = r.n + 1]

LEMMA EmittedIs ==
  ASSUME NEW r, Session(r), SendRec(r), r.pinned < Slots, Head(r.out) <= Room(r)
  PROVE  \E t : Emitted(r, t) /\ Emit(r) = Built(t)
<1> DEFINE n == Head(r.out)
           w == [k \in 1 .. n |-> [slot |-> r.next, rec |-> r.n + 1]]
           t == [OnWire(r, n, r.next) EXCEPT
                   !.len[r.next] = n, !.rec[r.next] = r.n + 1,
                   !.next = (r.next + 1) % Slots, !.pinned = @ + 1,
                   !.out = Tail(@), !.defer = FALSE, !.stall = 0]
<1>1. Emit(r) = Built(t)
  BY DEF Emit
<1>2. IsRecord(t)
  BY DEF Session, IsRecord, OnWire
<1>3. /\ t.wire = r.wire \o w /\ t.n = r.n + 1 /\ t.out = Tail(r.out)
      /\ t.next = (r.next + 1) % Slots /\ t.pinned = r.pinned + 1
      /\ t.len = [r.len EXCEPT ![r.next] = n]
      /\ t.rec = [r.rec EXCEPT ![r.next] = r.n + 1] /\ t.defer = FALSE /\ t.stall = 0
  BY DEF Session, IsRecord, Field, OnWire
<1>4. Keeps(r, t, EmitFields)
  BY <1>2 DEF Session, IsRecord, Field, OnWire, Keeps, EmitFields
<1> HIDE DEF t, w
<1>5. r.out \in Seq(1 .. 2) /\ r.out # << >> /\ n \in 1 .. 2 /\ Tail(r.out) \in Seq(1 .. 2)
  <2>1. r.out \in Seq(1 .. 2) /\ r.out # << >>
    BY DEF Session, OutType, SendRec
  <2> QED BY <2>1, HeadTailProperties
<1>6. r.next \in Slot /\ r.pinned \in 0 .. Slots - 1 /\ r.n + 1 \in Nat /\ n <= SndBuf - Len(r.wire)
  BY Constants DEF Session, RingType, OutType, Room
<1> HIDE DEF n
<1>7. w \in Seq(Unit) /\ Len(w) = n
  <2> DEFINE x == [slot |-> r.next, rec |-> r.n + 1]
  <2>1. x \in Unit
    BY <1>6, Constants DEF Unit
  <2>2. w = [i \in 1 .. n |-> x] /\ n \in Nat
    BY <1>5 DEF w
  <2> HIDE DEF x
  <2> QED BY <2>1, <2>2
<1>8. NetType(t)
  <2>1. r.wire \in Seq(Unit) /\ Len(r.wire) \in Nat
    BY LenProperties DEF Session, NetType
  <2>2. t.wire \in Seq(Unit) /\ Len(t.wire) = Len(r.wire) + n
    <3>1. t.wire = r.wire \o w
      BY <1>3
    <3>2. r.wire \o w \in Seq(Unit) /\ Len(r.wire \o w) = Len(r.wire) + Len(w)
      BY <1>7, <2>1, ConcatProperties
    <3> QED BY <1>7, <3>1, <3>2
  <2>3. Len(t.wire) <= SndBuf
    BY <1>5, <1>6, <2>1, <2>2, Constants
  <2>4. /\ t.tcp = r.tcp /\ t.sent = r.sent /\ t.rxq = r.rxq /\ t.win = r.win /\ t.acks = r.acks
        /\ t.lost = r.lost
    BY <1>4 DEF Keeps, Field, EmitFields
  <2> QED BY <2>2, <2>3, <2>4 DEF Session, NetType
<1>9. InType(t) /\ AppType(t)
  BY <1>4, TypeKept DEF FeedFields, AppFields, EmitFields
<1>10. RingType(t)
  <2>1. t.next \in Slot
    BY <1>3, <1>6, NthAfterEmit
  <2>2. t.pinned \in 0 .. Slots
    BY <1>3, <1>6, Constants
  <2>3. t.acked = r.acked
    BY <1>4 DEF Keeps, Field, EmitFields
  <2>4. t.len \in [Slot -> 0 .. 2] /\ t.rec \in [Slot -> Nat]
    <3>1. r.len \in [Slot -> 0 .. 2] /\ r.rec \in [Slot -> Nat] /\ n \in 0 .. 2
      BY <1>5 DEF Session, RingType
    <3> QED BY <1>3, <1>6, <3>1
  <2> QED BY <2>1, <2>2, <2>3, <2>4 DEF Session, RingType
<1>11. OutType(t)
  <2>1. t.pump = r.pump /\ t.sched = r.sched
    BY <1>4 DEF Keeps, Field, EmitFields
  <2>2. t.stall \in Nat /\ t.n \in Nat /\ t.out \in Seq(1 .. 2)
    BY <1>3, <1>5, <1>6
  <2>3. t.defer \in BOOLEAN
    BY <1>3
  <2> QED BY <2>1, <2>2, <2>3 DEF Session, OutType
<1>12. Session(t)
  BY <1>2, <1>8, <1>9, <1>10, <1>11 DEF Session
<1>13. Emitted(r, t)
  BY <1>3, <1>4, <1>12 DEF Emitted, n, w
<1> QED BY <1>1, <1>13

LEMMA EmittedRing ==
  ASSUME NEW c, NEW r, Session(r), LiveOK(c, r), SendRec(r), r.pinned < Slots,
         NEW t, Emitted(r, t)
  PROVE  /\ RingOK(t) /\ HoldOK(t)
<1> DEFINE n == Head(r.out)
           w == [k \in 1 .. n |-> [slot |-> r.next, rec |-> r.n + 1]]
           k == r.pinned
           l == Len(r.wire)
           b == r.acked + r.acks + r.lost
           P == Pinned(r)
           Q == Pinned(t)
<1>1. n \in 1 .. 2
  <2>1. r.out \in Seq(1 .. 2) /\ r.out # << >>
    BY DEF Session, OutType, SendRec
  <2> QED BY <2>1, HeadTailProperties
<1>2. /\ r.next \in Slot /\ k \in 0 .. Slots - 1 /\ k \in 0 .. Slots /\ r.len \in [Slot -> 0 .. 2]
      /\ r.rec \in [Slot -> Nat] /\ b \in Nat /\ r.n + 1 \in Nat
  <2>1. /\ r.next \in Slot /\ r.pinned \in 0 .. Slots /\ r.acked \in 0 .. 1 /\ r.acks \in Nat
        /\ r.lost \in Nat /\ r.len \in [Slot -> 0 .. 2] /\ r.rec \in [Slot -> Nat] /\ r.n \in Nat
    BY DEF Session, RingType, NetType, OutType
  <2>2. b \in Nat /\ r.n + 1 \in Nat
    BY <2>1
  <2>3. k \in 0 .. Slots - 1
    BY <2>1, Constants
  <2> QED BY <2>1, <2>2, <2>3
<1>3. /\ t.wire = r.wire \o w /\ t.next = (r.next + 1) % Slots /\ t.pinned = k + 1
      /\ t.len = [r.len EXCEPT ![r.next] = n] /\ t.rec = [r.rec EXCEPT ![r.next] = r.n + 1]
      /\ Session(t)
  BY DEF Emitted
<1>4. t.acked + t.acks + t.lost = b
  <2>1. t.acked = r.acked /\ t.acks = r.acks /\ t.lost = r.lost
    BY DEF Emitted, Keeps, Field, EmitFields
  <2> QED BY <2>1
<1>5. /\ r.wire \in Seq(Unit) /\ l \in Nat
      /\ \A i \in 1 .. l : r.wire[i].slot # NoSlot
      /\ SumOf(P) = b + l /\ HoldOK(r)
  BY LenProperties DEF Session, NetType, LiveOK, RingOK
<1>6. w \in Seq(Unit) /\ Len(w) = n /\ \A i \in 1 .. n : w[i].slot = r.next /\ w[i].rec = r.n + 1
  <2> DEFINE x == [slot |-> r.next, rec |-> r.n + 1]
  <2>1. x \in Unit /\ x.slot = r.next /\ x.rec = r.n + 1
    BY <1>2, Constants DEF Unit
  <2>2. w = [i \in 1 .. n |-> x] /\ n \in Nat
    BY <1>1
  <2> HIDE DEF x, w, n
  <2> QED BY <2>1, <2>2
<1> HIDE DEF n, w, b
<1>7. /\ Len(t.wire) = l + n
      /\ \A i \in 1 .. l + n : t.wire[i] = IF i <= l THEN r.wire[i] ELSE w[i - l]
  <2> DEFINE v == r.wire
             x == t.wire
  <2>1. v \in Seq(Unit) /\ w \in Seq(Unit) /\ Len(w) = n /\ x = v \o w
    BY <1>3, <1>5, <1>6
  <2> HIDE DEF v, x
  <2>2. /\ Len(x) = Len(v) + Len(w)
        /\ \A i \in 1 .. Len(v) + Len(w) : x[i] = IF i <= Len(v) THEN v[i] ELSE w[i - Len(v)]
    BY <2>1, ConcatProperties
  <2> QED BY <2>1, <2>2 DEF v, x
<1>8. /\ \A j \in 1 .. k + 1 : Nth(t, j) = Nth(r, j)
      /\ Nth(t, k + 1) = r.next
  BY <1>2, <1>3, NthAfterEmit
<1>9. \A j \in 1 .. k : Nth(r, j) # r.next /\ Nth(r, j) \in Slot
  <2>1. ASSUME NEW j \in 1 .. k PROVE Nth(r, j) # r.next /\ Nth(r, j) \in Slot
    <3>1. j \in 1 .. r.pinned + 1 /\ r.pinned \in 0 .. Slots /\ r.pinned < Slots
      BY <1>2
    <3> QED BY <1>2, <3>1, NthIs, NthDistinct
  <2> QED BY <2>1
<1>10. P \in Seq(Nat) /\ Len(P) = k /\ \A j \in 1 .. k : P[j] = r.len[Nth(r, j)]
  BY <1>2, PinnedIs
<1>11. Q \in Seq(Nat) /\ Len(Q) = k + 1 /\ \A j \in 1 .. k + 1 : Q[j] = t.len[Nth(t, j)]
  BY <1>3, PinnedIs DEF Session, RingType
<1> HIDE DEF P, Q, k, l
<1>12. k \in Nat /\ k + 1 \in 1 .. k + 1 /\ \A j \in 1 .. k : j \in 1 .. k + 1
  BY <1>2
<1>13. (\A j \in 1 .. k : Q[j] = P[j]) /\ Q[k + 1] = n
  <2>1. ASSUME NEW j \in 1 .. k PROVE Q[j] = P[j]
    <3>1. Q[j] = t.len[Nth(r, j)] /\ P[j] = r.len[Nth(r, j)]
      BY <1>8, <1>10, <1>11, <1>12
    <3>2. t.len[Nth(r, j)] = r.len[Nth(r, j)]
      BY <1>2, <1>3, <1>9
    <3> QED BY <3>1, <3>2
  <2>2. Q[k + 1] = t.len[r.next]
    BY <1>8, <1>11, <1>12
  <2> QED BY <1>2, <1>3, <2>1, <2>2
<1>14. Q = Append(P, n)
  <2>1. n \in Nat
    BY <1>1
  <2> QED BY <1>10, <1>11, <1>13, <2>1, AppendElements
<1>15. SumOf(Q) = b + l + n
  <2>1. n \in Nat
    BY <1>1
  <2> QED BY <1>5, <1>10, <1>14, <2>1, SumAppend
<1>16. \A i \in 1 .. l + n : t.wire[i].slot # NoSlot
  <2>1. ASSUME NEW i \in 1 .. l + n PROVE t.wire[i].slot # NoSlot
    <3>1. CASE i <= l
      <4>1. i \in 1 .. l /\ t.wire[i] = r.wire[i]
        BY <1>1, <1>5, <1>7, <3>1
      <4> QED BY <1>5, <4>1
    <3>2. CASE i > l
      <4>1. i - l \in 1 .. n /\ t.wire[i] = w[i - l]
        BY <1>1, <1>5, <1>7, <3>2
      <4>2. t.wire[i].slot = r.next
        BY <1>6, <4>1
      <4> QED BY <1>2, <4>2, Constants
    <3> QED BY <1>1, <1>5, <3>1, <3>2
  <2> QED BY <2>1
<1>17. RingOK(t)
  <2>1. SumOf(Q) = t.acked + t.acks + t.lost + Len(t.wire)
    BY <1>1, <1>2, <1>4, <1>5, <1>7, <1>15
  <2> QED BY <1>7, <1>16, <2>1 DEF RingOK, Q
<1>18. HoldOK(t)
  <2>1. \A j \in 0 .. k : Prefix(Q, j) = Prefix(P, j)
    <3>1. 0 \in Nat /\ k \in 0 .. Len(P) /\ 0 + k <= Len(Q) /\ \A i \in 1 .. k : P[i] = Q[0 + i]
      BY <1>10, <1>11, <1>12, <1>13
    <3>2. \A j \in 0 .. k : Prefix(Q, 0 + j) = Prefix(Q, 0) + Prefix(P, j)
      BY <1>10, <1>11, <3>1, PrefixShift
    <3>3. Prefix(Q, 0) = 0
      BY <1>11, PrefixEnds
    <3>4. ASSUME NEW j \in 0 .. k PROVE Prefix(Q, j) = Prefix(P, j)
      <4>1. Prefix(P, j) \in Nat
        BY <1>10, PrefixType
      <4>2. 0 + j = j /\ Prefix(Q, 0 + j) = Prefix(Q, 0) + Prefix(P, j)
        BY <1>12, <3>2
      <4> QED BY <3>3, <4>1, <4>2
    <3> QED BY <3>4
  <2>2. Prefix(P, k) = b + l
    BY <1>5, <1>10, PrefixEnds
  <2>3. SUFFICES ASSUME NEW i \in 1 .. l + n, NEW j \in 1 .. k + 1, InNth(t, j, b + i)
                 PROVE  /\ t.wire[i].slot = Nth(t, j)
                        /\ Nth(t, j) # 0 => t.rec[Nth(t, j)] = t.wire[i].rec
    <3>1. t.pinned = k + 1
      BY <1>3 DEF k
    <3> QED BY <1>4, <1>7, <3>1 DEF HoldOK
  <2>4. Prefix(Q, j - 1) < b + i /\ b + i <= Prefix(Q, j)
    BY <2>3 DEF InNth, Q
  <2>5. CASE j \in 1 .. k
    <3>1. j - 1 \in 0 .. k /\ j \in 0 .. k
      BY <1>12, <2>5
    <3>2. Prefix(P, j - 1) < b + i /\ b + i <= Prefix(P, j)
      BY <2>1, <2>4, <3>1
    <3>3. Prefix(P, j) <= Prefix(P, k)
      <4>1. k \in 0 .. Len(P)
        BY <1>10, <1>12
      <4> QED BY <1>10, <3>1, <4>1, PrefixGrows
    <3>4. i \in 1 .. l
      <4> DEFINE x == Prefix(P, j)
      <4>1. x \in Nat
        BY <1>10, <3>1, PrefixType
      <4>2. b + i <= x /\ x <= b + l
        BY <2>2, <3>2, <3>3
      <4> HIDE DEF x
      <4> QED BY <1>1, <1>2, <1>5, <4>1, <4>2
    <3>5. t.wire[i] = r.wire[i]
      BY <1>1, <1>5, <1>7, <3>4
    <3>6. InNth(r, j, b + i)
      BY <3>2 DEF InNth, P
    <3>7. /\ r.wire[i].slot = Nth(r, j)
          /\ Nth(r, j) # 0 => r.rec[Nth(r, j)] = r.wire[i].rec
      BY <1>5, <2>5, <3>4, <3>6 DEF HoldOK, b, k, l
    <3>8. Nth(t, j) = Nth(r, j) /\ t.rec[Nth(r, j)] = r.rec[Nth(r, j)]
      <4>1. Nth(t, j) = Nth(r, j)
        BY <1>8, <1>12, <2>5
      <4> QED BY <1>2, <1>3, <1>9, <2>5, <4>1
    <3> QED BY <3>5, <3>7, <3>8
  <2>6. CASE j \notin 1 .. k
    <3>1. j = k + 1 /\ j - 1 = k /\ k \in 0 .. k
      BY <1>12, <2>6
    <3>2. b + l < b + i
      BY <2>1, <2>2, <2>4, <3>1
    <3>3. i - l \in 1 .. n /\ ~(i <= l)
      BY <1>1, <1>2, <1>5, <3>2
    <3>4. t.wire[i].slot = r.next /\ t.wire[i].rec = r.n + 1
      BY <1>6, <1>7, <3>3
    <3>5. Nth(t, j) = r.next /\ t.rec[r.next] = r.n + 1
      BY <1>2, <1>3, <1>8, <3>1
    <3> QED BY <3>4, <3>5
  <2> QED BY <2>5, <2>6
<1> QED BY <1>17, <1>18

LEMMA EmitIs ==
  ASSUME NEW c, NEW r, Good(c, r), r.live, SendRec(r), r.pinned < Slots, Head(r.out) <= Room(r),
         NEW t, t = Emit(r)
  PROVE  Good(c, t) /\ t.live = TRUE
<1>1. Session(r) /\ LiveOK(c, r)
  BY DEF Good
<1>2. PICK u : Emitted(r, u) /\ t = Built(u)
  BY <1>1, EmittedIs
<1>3. Session(u) /\ Keeps(r, u, EmitFields)
  BY <1>2 DEF Emitted
<1>4. RingOK(u) /\ HoldOK(u)
  BY <1>1, <1>2, EmittedRing
<1>5. InOK(u) /\ Arrived(u) = Arrived(r)
  <2>1. EmitFields \cap InFields = {}
    BY DEF EmitFields, InFields
  <2> QED BY <1>1, <1>3, <2>1, InKept DEF LiveOK
<1>6. TalkOK(c, u)
  <2>1. TalkOK(c, r)
    BY <1>1 DEF LiveOK
  <2>2. /\ u.hs = r.hs /\ u.told = r.told /\ u.got = r.got /\ u.st = r.st /\ u.fed = r.fed
        /\ u.app = r.app
    BY <1>3 DEF Keeps, Field, EmitFields
  <2>3. u.n = r.n + 1 /\ r.n \in Nat
    BY <1>1, <1>2 DEF Emitted, Session, OutType
  <2>4. u.n + Len(u.out) = r.n + Len(r.out)
    <3>1. r.out \in Seq(1 .. 2) /\ r.out # << >> /\ u.out = Tail(r.out)
      BY <1>1, <1>2 DEF Emitted, Session, OutType, SendRec
    <3>2. Len(u.out) = Len(r.out) - 1 /\ Len(r.out) \in Nat
      BY <3>1, HeadTailProperties, LenProperties
    <3> QED BY <2>3, <3>2
  <2>5. Arrived(u) > 2 => u.n >= 2
    BY <1>5, <2>1, <2>3 DEF TalkOK
  <2> QED BY <2>1, <2>2, <2>4, <2>5 DEF TalkOK
<1>7. LiveOK(c, u)
  BY <1>4, <1>5, <1>6 DEF LiveOK
<1>8. Good(c, u) /\ u.live = TRUE
  BY <1>3, <1>7, KeepsGood DEF EmitFields
<1>9. Session(t) /\ LiveOK(c, t) /\ Keeps(u, t, {"rec"})
  BY <1>2, <1>3, <1>7, BuiltIs, BuiltLive
<1> QED BY <1>8, <1>9, KeepsGood

AckFields == {"acked", "pinned", "len", "acks", "quiet"}

\* The session after an event about n units: what they release, and the event
\* taken off the queue.
Acked(r, n, q) ==
  [Release([r EXCEPT !.acked = @ + n]) EXCEPT !.acks = @ - n, !.quiet = q]

\* What the release does, for the number m of slots that the units cover.
Released(r, n, q, m, t) ==
  LET P == Pinned(r)
      e == r.acked + n
  IN /\ Keeps(r, t, AckFields)
     /\ t.acked = (IF m = r.pinned THEN 0 ELSE e - Prefix(P, m))
     /\ t.pinned = r.pinned - m /\ t.acks = r.acks - n /\ t.quiet = q
     /\ t.len = [i \in Slot |-> IF \E j \in 1 .. m : i = Nth(r, j) THEN 0 ELSE r.len[i]]

LEMMA ReleasedIs ==
  ASSUME NEW r, Session(r), NEW n \in Nat, NEW q, NEW t, t = Acked(r, n, q),
         NEW m, m = Whole(Pinned(r), r.pinned, r.acked + n)
  PROVE  Released(r, n, q, m, t)
<1> DEFINE u == [r EXCEPT !.acked = @ + n]
           x == Release(u)
           g == Total(SubSeq(Pinned(r), 1, m))
<1>1. /\ IsRecord(u) /\ u.acked = r.acked + n /\ Keeps(r, u, {"acked"})
  <2>1. IsRecord(u)
    BY DEF Session, IsRecord
  <2>2. Keeps(r, u, {"acked"})
    BY <2>1 DEF Session, IsRecord, Field, Keeps
  <2> QED BY <2>1, <2>2 DEF Session, IsRecord, Field
<1> HIDE DEF u
<1>2. u.next = r.next /\ u.pinned = r.pinned /\ u.len = r.len /\ u.acks = r.acks
  BY <1>1 DEF Keeps, Field
<1>3. Pinned(u) = Pinned(r) /\ \A j : Nth(u, j) = Nth(r, j)
  BY <1>2, PinnedKept
<1>4. x = [u EXCEPT !.acked = IF m = r.pinned THEN 0 ELSE (r.acked + n) - g,
                    !.pinned = r.pinned - m,
                    !.len = [i \in Slot |-> IF \E j \in 1 .. m : i = Nth(r, j) THEN 0 ELSE r.len[i]]]
  <2>1. x = [u EXCEPT !.acked = IF m = u.pinned THEN 0 ELSE @ - Total(SubSeq(Pinned(u), 1, m)),
                      !.pinned = @ - m,
                      !.len = [i \in Slot |-> IF \E j \in 1 .. m : i = Nth(u, j) THEN 0 ELSE @[i]]]
    BY <1>1, <1>2, <1>3 DEF Release, Whole
  <2> DEFINE before == [i \in Slot |-> IF \E j \in 1 .. m : i = Nth(u, j) THEN 0 ELSE u.len[i]]
             after == [i \in Slot |-> IF \E j \in 1 .. m : i = Nth(r, j) THEN 0 ELSE r.len[i]]
             was == IF m = u.pinned THEN 0 ELSE u.acked - Total(SubSeq(Pinned(u), 1, m))
             is == IF m = r.pinned THEN 0 ELSE (r.acked + n) - g
  <2>2. before = after
    BY <1>2, <1>3
  <2>3. was = is
    <3>1. u.pinned = r.pinned /\ u.acked = r.acked + n /\ Pinned(u) = Pinned(r)
      BY <1>1, <1>2, <1>3
    <3> QED BY <3>1, Zenon
  <2>4. x = [u EXCEPT !.acked = was, !.pinned = u.pinned - m, !.len = before]
    BY <2>1
  <2> HIDE DEF before, after, was, is
  <2>5. x = [u EXCEPT !.acked = is, !.pinned = r.pinned - m, !.len = after]
    BY <1>2, <2>2, <2>3, <2>4
  <2> QED BY <2>5 DEF is, after
<1> HIDE DEF x
<1>5. g = Prefix(Pinned(r), m)
  BY TotalIsSum DEF Prefix
<1> HIDE DEF g
<1> DEFINE a == IF m = r.pinned THEN 0 ELSE (r.acked + n) - g
           l == [i \in Slot |-> IF \E j \in 1 .. m : i = Nth(r, j) THEN 0 ELSE r.len[i]]
<1>6. x = [u EXCEPT !.acked = a, !.pinned = r.pinned - m, !.len = l]
  BY <1>4
<1>7. t = [x EXCEPT !.acks = @ - n, !.quiet = q]
  BY DEF Acked, x, u
<1> HIDE DEF a, l
<1>8. IsRecord(x) /\ x.acked = a /\ x.pinned = r.pinned - m /\ x.len = l
  BY <1>1, <1>6 DEF IsRecord, Field
<1>9. Keeps(u, x, {"acked", "pinned", "len"})
  BY <1>1, <1>6, <1>8 DEF IsRecord, Field, Keeps
<1>10. x.acks = r.acks
  BY <1>2, <1>9 DEF Keeps, Field
<1>11. IsRecord(t)
  BY <1>7, <1>8 DEF IsRecord
<1>12. /\ t.acks = r.acks - n /\ t.quiet = q /\ t.acked = a /\ t.pinned = r.pinned - m
       /\ t.len = l
  BY <1>7, <1>8, <1>10 DEF IsRecord, Field
<1>13. Keeps(x, t, {"acks", "quiet"})
  BY <1>7, <1>8, <1>11 DEF IsRecord, Field, Keeps
<1>14. Keeps(r, t, AckFields)
  <2>1. Keeps(r, x, {"acked"} \cup {"acked", "pinned", "len"})
    BY <1>1, <1>9, KeepsTrans
  <2>2. Keeps(r, t, ({"acked"} \cup {"acked", "pinned", "len"}) \cup {"acks", "quiet"})
    BY <1>13, <2>1, KeepsTrans
  <2>3. ({"acked"} \cup {"acked", "pinned", "len"}) \cup {"acks", "quiet"} = AckFields
    BY DEF AckFields
  <2> QED BY <2>2, <2>3
<1>15. t.acked = (IF m = r.pinned THEN 0 ELSE (r.acked + n) - Prefix(Pinned(r), m))
  <2>1. t.acked = IF m = r.pinned THEN 0 ELSE (r.acked + n) - g
    BY <1>12 DEF a
  <2> QED BY <1>5, <2>1, Zenon
<1>16. t.len = [i \in Slot |-> IF \E j \in 1 .. m : i = Nth(r, j) THEN 0 ELSE r.len[i]]
  BY <1>12 DEF l
<1> QED BY <1>12, <1>14, <1>15, <1>16 DEF Released

\* What a release counts for the slots that go, it no longer counts.
LEMMA ReleaseSum ==
  ASSUME NEW a \in Nat, NEW k \in Nat, NEW x \in Nat, NEW n \in Nat, NEW g \in Nat, NEW i \in Nat
  PROVE  a + k + x + i = g + (((a + n) - g) + (k - n) + x + i)
OBVIOUS

LEMMA AckedIs ==
  ASSUME NEW c, NEW r, Good(c, r), r.live, NEW n \in 0 .. r.acks, NEW q \in Nat,
         NEW t, t = Acked(r, n, q)
  PROVE  Good(c, t) /\ t.live = TRUE
<1> DEFINE P == Pinned(r)
           Q == Pinned(t)
           k == r.pinned
           e == r.acked + n
           m == Whole(P, k, e)
           g == Prefix(P, m)
           l == Len(r.wire)
<1>0. Session(r) /\ LiveOK(c, r)
  BY DEF Good
<1>1. /\ r.next \in Slot /\ k \in 0 .. Slots /\ k \in Nat /\ r.len \in [Slot -> 0 .. 2]
      /\ r.acked \in Nat /\ r.acks \in Nat /\ r.lost \in Nat /\ n \in Nat /\ n <= r.acks
      /\ l \in Nat
  <2>1. /\ r.next \in Slot /\ r.pinned \in 0 .. Slots /\ r.acked \in 0 .. 1 /\ r.acks \in Nat
        /\ r.lost \in Nat /\ r.len \in [Slot -> 0 .. 2]
    BY <1>0 DEF Session, RingType, NetType
  <2>2. l \in Nat
    BY <1>0, LenProperties DEF Session, NetType
  <2>3. k \in Nat /\ r.acked \in Nat /\ n \in Nat /\ n <= r.acks
    BY <2>1
  <2> QED BY <2>1, <2>2, <2>3
<1>2. P \in Seq(Nat) /\ Len(P) = k /\ \A j \in 1 .. k : P[j] = r.len[Nth(r, j)] /\ P[j] \in 0 .. 2
  <2>1. P \in Seq(0 .. 2) /\ P \in Seq(Nat) /\ Len(P) = k /\ \A j \in 1 .. k : P[j] = r.len[Nth(r, j)]
    BY <1>1, PinnedIs
  <2>2. \A j \in 1 .. k : P[j] \in 0 .. 2
    <3> HIDE DEF P, k
    <3> QED BY <2>1, ElementOfSeq
  <2> QED BY <2>1, <2>2
<1> HIDE DEF P, Q, k, m, e, g, l
<1>3. SumOf(P) = r.acked + r.acks + r.lost + l
  BY <1>0 DEF LiveOK, RingOK, P, l
<1>4. e \in Nat /\ e <= SumOf(P)
  BY <1>1, <1>3 DEF e
<1>5. /\ m \in 0 .. k /\ g <= e /\ (m < k => e < Prefix(P, m + 1)) /\ g \in Nat
  <2>1. m \in 0 .. Len(P) /\ Prefix(P, m) <= e /\ (m < Len(P) => e < Prefix(P, m + 1))
    BY <1>2, <1>4, WholeIs DEF m
  <2>2. g \in Nat
    BY <1>2, <2>1, PrefixType DEF g
  <2> QED BY <1>2, <2>1, <2>2 DEF g
<1>6. Released(r, n, q, m, t)
  BY <1>0, <1>1, ReleasedIs DEF m, P, k, e
<1>7. /\ Keeps(r, t, AckFields) /\ t.acked = (IF m = k THEN 0 ELSE e - g)
      /\ t.pinned = k - m /\ t.acks = r.acks - n /\ t.quiet = q
      /\ t.len = [i \in Slot |-> IF \E j \in 1 .. m : i = Nth(r, j) THEN 0 ELSE r.len[i]]
  BY <1>6 DEF Released, P, k, e, g
<1>8. t.next = r.next /\ t.rec = r.rec /\ t.wire = r.wire /\ t.live = r.live /\ t.tcp = r.tcp
      /\ t.lost = r.lost
  BY <1>7 DEF Keeps, Field, AckFields
\* What remains counts for no slot, or for the oldest one that is still pinned.
<1>9. t.acked = e - g /\ t.acked \in 0 .. 1
  <2>1. CASE m = k
    <3>1. g = SumOf(P)
      BY <1>2, <2>1, PrefixEnds DEF g
    <3> QED BY <1>4, <1>5, <1>7, <2>1, <3>1
  <2>2. CASE m # k
    <3>1. m < k /\ m + 1 \in 1 .. k /\ (m + 1) - 1 = m
      BY <1>1, <1>5, <2>2
    <3>2. Prefix(P, m + 1) = g + P[m + 1] /\ P[m + 1] \in 0 .. 2
      <4>1. Prefix(P, m + 1) = Prefix(P, (m + 1) - 1) + P[m + 1]
        BY <1>2, <3>1, PrefixStep
      <4> QED BY <1>2, <3>1, <4>1 DEF g
    <3> DEFINE b == P[m + 1]
    <3>3. b \in 0 .. 2 /\ e < g + b
      BY <1>5, <3>1, <3>2
    <3> HIDE DEF b
    <3> QED BY <1>4, <1>5, <1>7, <2>2, <3>3
  <2> QED BY <2>1, <2>2
<1>10. t.len \in [Slot -> 0 .. 2]
  BY <1>1, <1>7
<1>11. Session(t)
  <2>1. IsRecord(t)
    BY <1>7 DEF Keeps
  <2>2. InType(t) /\ OutType(t)
    BY <1>0, <1>7, TypeKept DEF FeedFields, OutFields, AckFields
  <2>3. RingType(t)
    <3>1. t.pinned \in 0 .. Slots
      BY <1>1, <1>5, <1>7, Constants
    <3> QED BY <1>0, <1>8, <1>9, <1>10, <3>1 DEF Session, RingType
  <2>4. NetType(t)
    <3>1. t.acks \in Nat
      BY <1>1, <1>7
    <3>2. t.sent = r.sent /\ t.rxq = r.rxq /\ t.win = r.win
      BY <1>7 DEF Keeps, Field, AckFields
    <3> QED BY <1>0, <1>8, <3>1, <3>2 DEF Session, NetType
  <2>5. AppType(t)
    <3>1. /\ t.hs = r.hs /\ t.done = r.done /\ t.told = r.told /\ t.got = r.got
          /\ t.wrote = r.wrote
      BY <1>7 DEF Keeps, Field, AckFields
    <3> QED BY <1>0, <1>7, <1>8, <3>1 DEF Session, AppType
  <2> QED BY <2>1, <2>2, <2>3, <2>4, <2>5 DEF Session
<1>12. \A j \in 1 .. k - m : Nth(t, j) = Nth(r, m + j) /\ m + j \in 1 .. k
  <2>1. r.next \in Slot /\ r.pinned \in 0 .. Slots /\ m \in 0 .. r.pinned /\ t.next = r.next
        /\ t.pinned = r.pinned - m
    BY <1>1, <1>5, <1>7, <1>8 DEF k
  <2>2. \A j \in 1 .. t.pinned : Nth(t, j) = Nth(r, m + j) /\ m + j \in 1 .. r.pinned
    BY <2>1, NthAfterRelease
  <2> QED BY <1>7, <2>2 DEF k
<1>13. Q \in Seq(Nat) /\ Len(Q) = k - m /\ \A j \in 1 .. k - m : Q[j] = t.len[Nth(t, j)]
  <2>1. t.next \in Slot /\ t.pinned \in 0 .. Slots
    BY <1>11 DEF Session, RingType
  <2>2. /\ Pinned(t) \in Seq(Nat) /\ Len(Pinned(t)) = t.pinned
        /\ \A j \in 1 .. t.pinned : Pinned(t)[j] = t.len[Nth(t, j)]
    BY <1>10, <2>1, PinnedIs
  <2>3. t.pinned = k - m
    BY <1>7
  <2> QED BY <2>2, <2>3 DEF Q
<1>14. \A j \in 1 .. k - m : Q[j] = P[m + j]
  <2>1. ASSUME NEW j \in 1 .. k - m PROVE Q[j] = P[m + j]
    <3>1. m + j \in 1 .. k /\ Q[j] = t.len[Nth(r, m + j)] /\ P[m + j] = r.len[Nth(r, m + j)]
      BY <1>2, <1>12, <1>13
    <3>2. \A i \in 1 .. m : Nth(r, i) # Nth(r, m + j)
      <4>1. ASSUME NEW i \in 1 .. m PROVE Nth(r, i) # Nth(r, m + j)
        <5>1. i \in 1 .. k /\ i # m + j
          BY <1>1, <1>5
        <5> QED BY <1>1, <3>1, <5>1, NthDistinct DEF k
      <4> QED BY <4>1
    <3>3. Nth(r, m + j) \in Slot
      <4>1. m + j \in 1 .. r.pinned + 1 /\ r.pinned \in 0 .. Slots
        BY <1>1, <3>1 DEF k
      <4> QED BY <1>1, <4>1, NthIs
    <3>4. t.len[Nth(r, m + j)] = r.len[Nth(r, m + j)]
      BY <1>7, <3>2, <3>3
    <3> QED BY <3>1, <3>4
  <2> QED BY <2>1
<1>15. \A j \in 0 .. k - m : Prefix(P, m + j) = g + Prefix(Q, j)
  <2>1. m \in Nat /\ k - m \in 0 .. Len(Q) /\ m + (k - m) <= Len(P)
    BY <1>1, <1>2, <1>5, <1>13
  <2> QED BY <1>2, <1>13, <1>14, <2>1, PrefixShift DEF g
<1>16. SumOf(P) = g + SumOf(Q) /\ SumOf(Q) \in Nat
  <2>1. k - m \in 0 .. k - m /\ m + (k - m) = k
    BY <1>1, <1>5
  <2>2. Prefix(P, k) = g + Prefix(Q, k - m)
    BY <1>15, <2>1
  <2> QED BY <1>2, <1>13, <2>2, PrefixEnds, SumType
\* The place of a unit on the wire, counted from the oldest pinned one.
<1>17. \A i \in Nat : r.acked + r.acks + r.lost + i = g + (t.acked + t.acks + t.lost + i)
  <2>1. t.acked = (r.acked + n) - g /\ t.acks = r.acks - n /\ t.lost = r.lost
    BY <1>7, <1>8, <1>9 DEF e
  <2> QED BY <1>1, <1>5, <2>1, ReleaseSum
<1>18. RingOK(t)
  <2>1. SumOf(Q) = t.acked + t.acks + t.lost + l
    <3>1. r.acked + r.acks + r.lost + l = g + (t.acked + t.acks + t.lost + l)
      BY <1>1, <1>17
    <3>2. t.acked \in Nat /\ t.acks \in Nat /\ t.lost \in Nat
      BY <1>1, <1>7, <1>8, <1>9
    <3> DEFINE h == t.acked + t.acks + t.lost + l
    <3>3. SumOf(P) = g + h /\ h \in Nat
      BY <1>1, <1>3, <3>1, <3>2
    <3> HIDE DEF h
    <3>4. SumOf(Q) = h
      BY <1>5, <1>16, <3>3
    <3> QED BY <3>4 DEF h
  <2>2. \A i \in 1 .. Len(r.wire) : r.wire[i].slot # NoSlot
    BY <1>0 DEF LiveOK, RingOK
  <2> QED BY <1>8, <2>1, <2>2 DEF RingOK, Q, l
<1>19. HoldOK(t)
  <2>1. SUFFICES ASSUME NEW i \in 1 .. l, NEW j \in 1 .. k - m,
                        InNth(t, j, t.acked + t.acks + t.lost + i)
                 PROVE  /\ r.wire[i].slot = Nth(t, j)
                        /\ Nth(t, j) # 0 => r.rec[Nth(t, j)] = r.wire[i].rec
    BY <1>7, <1>8 DEF HoldOK, l
  <2>2. m + j \in 1 .. k /\ Nth(t, j) = Nth(r, m + j)
    BY <1>12
  <2>3. InNth(r, m + j, r.acked + r.acks + r.lost + i)
    <3> DEFINE p == t.acked + t.acks + t.lost + i
               x == Prefix(Q, j - 1)
               y == Prefix(Q, j)
    <3>1. x < p /\ p <= y
      BY <2>1 DEF InNth, Q
    <3>2. j - 1 \in 0 .. k - m /\ j \in 0 .. k - m /\ m + (j - 1) = (m + j) - 1
      BY <1>1, <1>5
    <3>3. Prefix(P, (m + j) - 1) = g + x /\ Prefix(P, m + j) = g + y
      <4>1. Prefix(P, m + (j - 1)) = g + Prefix(Q, j - 1) /\ Prefix(P, m + j) = g + Prefix(Q, j)
        BY <1>15, <3>2
      <4> QED BY <3>2, <4>1
    <3>4. r.acked + r.acks + r.lost + i = g + p
      BY <1>17, i \in Nat
    <3>5. x \in Nat /\ y \in Nat
      <4>1. j - 1 \in 0 .. Len(Q) /\ j \in 0 .. Len(Q)
        BY <1>13, <3>2
      <4> QED BY <1>13, <4>1, PrefixType
    <3>6. p \in Nat
      BY <1>1, <1>7, <1>8, <1>9
    <3> HIDE DEF p, x, y
    <3>7. g + x < g + p /\ g + p <= g + y
      BY <1>5, <3>1, <3>5, <3>6
    <3> QED BY <3>3, <3>4, <3>7 DEF InNth, P
  <2>4. /\ r.wire[i].slot = Nth(r, m + j)
        /\ Nth(r, m + j) # 0 => r.rec[Nth(r, m + j)] = r.wire[i].rec
    BY <1>0, <2>2, <2>3 DEF LiveOK, HoldOK, l, k
  <2> QED BY <2>2, <2>4
<1>20. InOK(t) /\ TalkOK(c, t)
  <2>1. AckFields \cap InFields = {} /\ AckFields \cap TalkFields = {}
    BY DEF AckFields, InFields, TalkFields
  <2> QED BY <1>0, <1>7, <2>1, InKept, TalkKept DEF LiveOK
<1>21. LiveOK(c, t)
  BY <1>18, <1>19, <1>20 DEF LiveOK
<1> QED BY <1>7, <1>11, <1>21, KeepsGood DEF AckFields

-----------------------------------------------------------------------------
(* Events.                                                                 *)

LEMMA ScheduleKeeps ==
  ASSUME NEW r, IsRecord(r), NEW ok, NEW t, t = Schedule(r, ok)
  PROVE  Keeps(r, t, {"pump", "sched"})
<1>1. IsRecord(t)
  BY DEF Schedule, IsRecord
<1> QED BY <1>1 DEF Schedule, IsRecord, Field, Keeps

LEMMA ReleaseKeeps ==
  ASSUME NEW r, IsRecord(r), NEW t, t = Release(r)
  PROVE  Keeps(r, t, {"acked", "pinned", "len"})
<1> DEFINE m == Whole(Pinned(r), r.pinned, r.acked)
           a == IF m = r.pinned THEN 0 ELSE r.acked - Total(SubSeq(Pinned(r), 1, m))
           b == r.pinned - m
           l == [i \in Slot |-> IF \E j \in 1 .. m : i = Nth(r, j) THEN 0 ELSE r.len[i]]
<1>1. t = [r EXCEPT !.acked = a, !.pinned = b, !.len = l]
  BY DEF Release, Whole
<1> HIDE DEF m, a, b, l
<1>2. IsRecord(t)
  BY <1>1 DEF IsRecord
<1> QED BY <1>1, <1>2 DEF IsRecord, Field, Keeps

\* A session after onSent of n units.
SentOf(r, n, q, ok) == [SentAck(r, n, ok) EXCEPT !.acks = @ - n, !.quiet = q]

LEMMA SentOfIs ==
  ASSUME NEW c, NEW r, Good(c, r), r.live, NEW n \in 0 .. r.acks, NEW q \in Nat,
         NEW ok \in BOOLEAN, NEW t, t = SentOf(r, n, q, ok)
  PROVE  Good(c, t) /\ t.live = TRUE /\ Armed(t)
<1> DEFINE u == [r EXCEPT !.acked = @ + n]
           x == Release(u)
           v == Acked(r, n, q)
<1>1. IsRecord(u)
  BY DEF Good, Session, IsRecord
<1>2. v = [x EXCEPT !.acks = @ - n, !.quiet = q]
  BY DEF Acked
<1>3. t = [(IF SendRec(x) THEN Schedule(x, ok) ELSE x) EXCEPT !.acks = @ - n, !.quiet = q]
  BY DEF SentOf, SentAck
<1> HIDE DEF u
<1>4. IsRecord(x)
  BY <1>1, ReleaseKeeps DEF Keeps
<1> HIDE DEF x
<1>5. v.out = x.out /\ v.pump = x.pump
  BY <1>2, <1>4 DEF IsRecord, Field
<1>6. SendRec(v) <=> SendRec(x)
  BY <1>5 DEF SendRec
<1>7. Good(c, v) /\ v.live = TRUE
  BY AckedIs DEF v
<1> HIDE DEF v
<1>8. CASE SendRec(x)
  <2>1. t = Schedule(v, ok)
    BY <1>2, <1>3, <1>4, <1>5, <1>8, ZenonT(30) DEF Schedule, IsRecord, Field
  <2>2. Session(v) /\ LiveOK(c, v)
    BY <1>7 DEF Good
  <2>3. Session(t) /\ Keeps(v, t, {"pump", "sched"}) /\ Armed(t) /\ LiveOK(c, t)
    BY <2>1, <2>2, ScheduleIs, ScheduleLive
  <2> QED BY <1>7, <2>3, KeepsGood
<1>9. CASE ~SendRec(x)
  <2>1. t = v
    BY <1>2, <1>3, <1>9
  <2> QED BY <1>6, <1>7, <1>9, <2>1 DEF Armed
<1> QED BY <1>8, <1>9

\* onPoll asks for it without an acknowledgement.
LEMMA SentNothing ==
  ASSUME NEW c, NEW r, Good(c, r), r.live, NEW ok \in BOOLEAN, NEW t, t = SentAck(r, 0, ok)
  PROVE  Good(c, t) /\ t.live = TRUE
<1> DEFINE u == [r EXCEPT !.acked = @ + 0]
           x == Release(u)
<1>1. IsRecord(u) /\ u.acks = r.acks /\ u.quiet = r.quiet
  BY DEF Good, Session, IsRecord, Field
<1>2. t = IF SendRec(x) THEN Schedule(x, ok) ELSE x
  BY DEF SentAck
<1> HIDE DEF u
<1>3. IsRecord(x) /\ x.acks = r.acks /\ x.quiet = r.quiet
  BY <1>1, ReleaseKeeps DEF Keeps, Field
<1> HIDE DEF x
<1>4. IsRecord(t) /\ t.acks = r.acks /\ t.quiet = r.quiet
  <2>1. CASE SendRec(x)
    BY <1>2, <1>3, <2>1, ScheduleKeeps DEF Keeps, Field
  <2>2. CASE ~SendRec(x)
    BY <1>2, <1>3, <2>2
  <2> QED BY <2>1, <2>2
<1>5. r.acks \in Nat /\ r.quiet \in Nat
  BY DEF Good, Session, NetType, AppType
<1>6. t.acks - 0 = t.acks /\ 0 \in 0 .. r.acks
  BY <1>4, <1>5
<1>7. t = [t EXCEPT !.acks = @ - 0, !.quiet = r.quiet]
  BY <1>4, <1>6 DEF IsRecord, Field
<1>8. t = SentOf(r, 0, r.quiet, ok)
  BY <1>7 DEF SentOf
<1> QED BY <1>5, <1>6, <1>8, SentOfIs

\* A pbuf joins rx_pend.
ReceivedFields == {"rxq", "pend", "done", "quiet"}
Received(r) ==
  [r EXCEPT !.rxq = Tail(@), !.pend = Append(@, Head(r.rxq)), !.done = TRUE, !.quiet = 0]

LEMMA ReceivedIs ==
  ASSUME NEW c, NEW r, Good(c, r), r.live, r.rxq # << >>, Head(r.rxq) # 0,
         Len(r.pend) < PendMax, NEW t, t = Received(r)
  PROVE  Good(c, t) /\ t.live = TRUE
<1> DEFINE n == Head(r.rxq)
<1>0. Session(r) /\ LiveOK(c, r)
  BY DEF Good
<1>1. IsRecord(t)
  BY <1>0 DEF Received, Session, IsRecord
<1>2. Keeps(r, t, ReceivedFields)
  BY <1>0, <1>1 DEF Received, Session, IsRecord, Field, Keeps, ReceivedFields
<1>3. t.rxq = Tail(r.rxq) /\ t.pend = Append(r.pend, n) /\ t.done = TRUE /\ t.quiet = 0
  BY <1>0 DEF Received, Session, IsRecord, Field
<1>4. /\ r.rxq \in Seq(0 .. 2) /\ r.rxq \in Seq(Nat) /\ r.pend \in Seq(1 .. 2)
      /\ r.pend \in Seq(Nat) /\ Len(r.pend) \in Nat
  BY <1>0, SeqTypes, LenProperties DEF Session, NetType, InType
<1>5. n \in 1 .. 2 /\ Tail(r.rxq) \in Seq(0 .. 2)
  <2>1. n \in 0 .. 2 /\ Tail(r.rxq) \in Seq(0 .. 2)
    BY <1>4, HeadTailProperties
  <2> QED BY <2>1
<1>6. SumOf(r.rxq) = n + SumOf(Tail(r.rxq)) /\ SumOf(Append(r.pend, n)) = SumOf(r.pend) + n
  BY <1>4, <1>5, SumHeadTail, SumAppend
<1>7. /\ SumOf(r.pend) \in Nat /\ SumOf(r.rxq) \in Nat /\ r.off \in Nat /\ r.fed \in Nat
      /\ SumOf(Tail(r.rxq)) \in Nat /\ r.win \in Nat
  BY <1>0, <1>5, WaitingIs, SeqTypes DEF Session, NetType
<1> HIDE DEF n
<1>8. /\ t.fed = r.fed /\ t.off = r.off /\ t.win = r.win /\ t.sent = r.sent /\ t.app = r.app
      /\ t.st = r.st /\ t.hs = r.hs /\ t.told = r.told /\ t.got = r.got /\ t.n = r.n
      /\ t.out = r.out /\ t.rec = r.rec
  BY <1>2 DEF Keeps, Field, ReceivedFields
<1>9. InType(t)
  <2>1. t.pend \in Seq(1 .. 2) /\ t.pend # << >> /\ Len(t.pend) = Len(r.pend) + 1
    <3>1. t.pend = Append(r.pend, n)
      BY <1>3
    <3>2. r.pend \in Seq(1 .. 2) /\ n \in 1 .. 2
      BY <1>4, <1>5
    <3> DEFINE q == Append(r.pend, n)
    <3>3. q \in Seq(1 .. 2) /\ q # << >> /\ Len(q) = Len(r.pend) + 1
      BY <3>2, AppendProperties
    <3> HIDE DEF q
    <3> QED BY <3>1, <3>3 DEF q
  <2>2. Len(t.pend) <= PendMax
    BY <1>4, <2>1, Constants
  <2>3. r.off < IF r.pend = << >> THEN 1 ELSE Head(r.pend)
    BY <1>0 DEF Session, InType
  <2>4. r.off < Head(t.pend)
    <3>1. CASE r.pend = << >>
      <4>1. t.pend = <<n>>
        BY <1>3, <3>1
      <4> QED BY <1>5, <1>7, <2>3, <3>1, <4>1
    <3>2. CASE r.pend # << >>
      <4>1. 1 \in 1 .. Len(r.pend)
        <5>1. Len(r.pend) \in Nat \ {0}
          BY <1>4, <3>2, EmptySeq
        <5> QED BY <5>1
      <4>2. t.pend[1] = r.pend[1]
        BY <1>3, <1>4, <1>5, <4>1, AppendProperties
      <4>3. Head(t.pend) = t.pend[1] /\ Head(r.pend) = r.pend[1]
        BY <1>4, <2>1, <3>2
      <4> QED BY <2>3, <3>2, <4>2, <4>3
    <3> QED BY <3>1, <3>2
  <2> QED BY <1>0, <1>8, <2>1, <2>2, <2>4 DEF Session, InType
<1>10. Session(t)
  <2>1. RingType(t) /\ OutType(t)
    BY <1>0, <1>2, TypeKept DEF SlotFields, OutFields, ReceivedFields
  <2>2. NetType(t)
    <3>1. t.tcp = r.tcp /\ t.wire = r.wire /\ t.acks = r.acks /\ t.lost = r.lost
      BY <1>2 DEF Keeps, Field, ReceivedFields
    <3> QED BY <1>0, <1>3, <1>5, <1>8, <3>1 DEF Session, NetType
  <2>3. AppType(t)
    <3>1. t.live = r.live /\ t.wrote = r.wrote
      BY <1>2 DEF Keeps, Field, ReceivedFields
    <3>2. t.done \in BOOLEAN
      BY <1>3
    <3>3. t.quiet \in Nat
      BY <1>3
    <3> QED BY <1>0, <1>8, <3>1, <3>2, <3>3 DEF Session, AppType
  <2> QED BY <1>1, <1>9, <2>1, <2>2, <2>3 DEF Session
<1>11. Arrived(t) = Arrived(r)
  <2> DEFINE a == SumOf(r.pend)
             b == SumOf(r.rxq)
             d == SumOf(Tail(r.rxq))
  <2>1. Arrived(r) = r.fed + (a - r.off) + b /\ Arrived(t) = r.fed + ((a + n) - r.off) + d
    BY <1>3, <1>6, <1>8 DEF Arrived
  <2>2. b = n + d /\ a \in Nat /\ b \in Nat /\ d \in Nat /\ n \in Nat
    BY <1>5, <1>6, <1>7
  <2> HIDE DEF a, b, d
  <2> QED BY <1>7, <2>1, <2>2
<1>12. InOK(t)
  <2>1. r.win + SumOf(r.rxq) + SumOf(r.pend) = Window /\ Arrived(r) <= r.sent /\ r.sent <= Len(Stream)
    BY <1>0 DEF LiveOK, InOK
  <2>2. t.win + SumOf(t.rxq) + SumOf(t.pend) = Window
    <3> DEFINE a == SumOf(r.pend)
               b == SumOf(r.rxq)
               d == SumOf(Tail(r.rxq))
    <3>1. t.win + SumOf(t.rxq) + SumOf(t.pend) = r.win + d + (a + n)
      BY <1>3, <1>6, <1>8
    <3>2. r.win + b + a = Window
      BY <2>1
    <3>3. b = n + d /\ a \in Nat /\ b \in Nat /\ d \in Nat /\ n \in Nat
      BY <1>5, <1>6, <1>7
    <3> HIDE DEF a, b, d
    <3> QED BY <1>7, <3>1, <3>2, <3>3
  <2> QED BY <1>8, <1>11, <2>1, <2>2 DEF InOK
<1>13. TalkOK(c, t)
  BY <1>0, <1>8, <1>11 DEF LiveOK, TalkOK
<1>14. RingOK(t) /\ HoldOK(t)
  <2>1. ReceivedFields \cap RingFields = {}
    BY DEF ReceivedFields, RingFields
  <2> QED BY <1>0, <1>2, <1>8, <2>1, RingKept, HoldKept DEF LiveOK
<1>15. LiveOK(c, t)
  BY <1>12, <1>13, <1>14 DEF LiveOK
<1> QED BY <1>2, <1>10, <1>15, KeepsGood DEF ReceivedFields

RecvOf(r, ok) == [FedRx([r EXCEPT !.rxq = Tail(@)], Head(r.rxq), ok) EXCEPT !.quiet = 0]

LEMMA RecvOfIs ==
  ASSUME NEW c, NEW r, Good(c, r), r.live, r.rxq # << >>, Head(r.rxq) # 0,
         Len(r.pend) < PendMax, NEW ok \in BOOLEAN, NEW t, t = RecvOf(r, ok)
  PROVE  Good(c, t) /\ Armed(t)
<1> DEFINE u == Received(r)
<1>1. Good(c, u) /\ u.live = TRUE
  BY ReceivedIs
<1>2. t = Schedule(u, ok)
  BY DEF Good, Session, IsRecord, Field, RecvOf, FedRx, Queued, Received, Schedule
<1> HIDE DEF u
<1>3. Session(u) /\ LiveOK(c, u)
  BY <1>1 DEF Good
<1>4. Session(t) /\ Keeps(u, t, {"pump", "sched"}) /\ Armed(t) /\ LiveOK(c, t)
  BY <1>2, <1>3, ScheduleIs, ScheduleLive
<1> QED BY <1>1, <1>4, KeepsGood

\* The peer sends n units, or its FIN, which is none.
PeerFields == {"sent", "win", "rxq"}
PeerPut(r, sent, n) == [r EXCEPT !.sent = sent, !.win = @ - n, !.rxq = Append(@, n)]

LEMMA PeerPutIs ==
  ASSUME NEW c, NEW r, Good(c, r), r.live, NEW sent \in Nat, NEW n \in 0 .. 2, n <= r.win,
         r.sent + n <= sent, sent <= Len(Stream), n > 0 => r.n >= Needs(c, r.sent + n),
         NEW t, t = PeerPut(r, sent, n)
  PROVE  Good(c, t) /\ t.live = TRUE /\ (Armed(r) => Armed(t))
<1>0. Session(r) /\ LiveOK(c, r)
  BY DEF Good
<1>1. IsRecord(t)
  BY <1>0 DEF PeerPut, Session, IsRecord
<1>2. Keeps(r, t, PeerFields)
  BY <1>0, <1>1 DEF PeerPut, Session, IsRecord, Field, Keeps, PeerFields
<1>3. t.sent = sent /\ t.win = r.win - n /\ t.rxq = Append(r.rxq, n)
  BY <1>0 DEF PeerPut, Session, IsRecord, Field
<1>4. /\ r.rxq \in Seq(0 .. 2) /\ r.rxq \in Seq(Nat) /\ r.win \in Nat /\ r.sent \in Nat
      /\ n \in Nat
  BY <1>0, SeqTypes DEF Session, NetType
<1>5. SumOf(Append(r.rxq, n)) = SumOf(r.rxq) + n
  BY <1>4, SumAppend
<1>6. /\ SumOf(r.pend) \in Nat /\ SumOf(r.rxq) \in Nat /\ r.off \in Nat /\ r.fed \in Nat
      /\ Arrived(r) \in Nat
  BY <1>0, WaitingIs
<1>7. /\ t.fed = r.fed /\ t.off = r.off /\ t.pend = r.pend /\ t.app = r.app
      /\ t.st = r.st /\ t.hs = r.hs /\ t.told = r.told /\ t.got = r.got /\ t.n = r.n
      /\ t.out = r.out /\ t.rec = r.rec
  BY <1>2 DEF Keeps, Field, PeerFields
<1>8. NetType(t)
  <2>1. t.tcp = r.tcp /\ t.wire = r.wire /\ t.acks = r.acks /\ t.lost = r.lost
    BY <1>2 DEF Keeps, Field, PeerFields
  <2>2. Append(r.rxq, n) \in Seq(0 .. 2)
    BY <1>4, AppendProperties
  <2>3. t.win \in Nat
    BY <1>3, <1>4
  <2> QED BY <1>0, <1>3, <2>1, <2>2, <2>3 DEF Session, NetType
<1>9. Session(t)
  <2>1. InType(t) /\ RingType(t) /\ OutType(t) /\ AppType(t)
    BY <1>0, <1>2, TypeKept DEF FeedFields, SlotFields, OutFields, AppFields, PeerFields
  <2> QED BY <1>1, <1>8, <2>1 DEF Session
<1>10. Arrived(t) = Arrived(r) + n
  <2> DEFINE a == SumOf(r.pend)
             b == SumOf(r.rxq)
  <2>1. Arrived(r) = r.fed + (a - r.off) + b /\ Arrived(t) = r.fed + (a - r.off) + (b + n)
    BY <1>3, <1>5, <1>7 DEF Arrived
  <2> HIDE DEF a, b
  <2>2. a \in Nat /\ b \in Nat
    BY <1>6 DEF a, b
  <2> QED BY <1>4, <1>6, <2>1, <2>2
<1>11. r.win + SumOf(r.rxq) + SumOf(r.pend) = Window /\ Arrived(r) <= r.sent
  BY <1>0 DEF LiveOK, InOK
<1>12. InOK(t)
  <2>1. t.win + SumOf(t.rxq) + SumOf(t.pend) = Window
    <3> DEFINE a == SumOf(r.pend)
               b == SumOf(r.rxq)
    <3>1. t.win + SumOf(t.rxq) + SumOf(t.pend) = (r.win - n) + (b + n) + a
      BY <1>3, <1>5, <1>7
    <3>2. r.win + b + a = Window /\ a \in Nat /\ b \in Nat
      BY <1>6, <1>11
    <3> HIDE DEF a, b
    <3> QED BY <1>4, <3>1, <3>2
  <2>2. Arrived(t) <= t.sent
    BY <1>3, <1>4, <1>6, <1>10, <1>11
  <2> QED BY <1>3, <2>1, <2>2 DEF InOK
<1>13. TalkOK(c, t)
  <2>1. TalkOK(c, r)
    BY <1>0 DEF LiveOK
  <2>2. ASSUME Arrived(t) > 2 PROVE t.n >= 2
    <3>1. CASE n = 0
      BY <1>6, <1>7, <1>10, <2>1, <2>2, <3>1 DEF TalkOK
    <3>2. CASE n # 0
      <4>1. r.sent + n > 2
        BY <1>4, <1>6, <1>10, <1>11, <2>2
      <4>2. Needs(c, r.sent + n) = 2
        BY <1>4, <4>1 DEF Needs
      <4> QED BY <1>4, <1>7, <3>2, <4>2
    <3> QED BY <3>1, <3>2
  <2> QED BY <1>7, <2>1, <2>2 DEF TalkOK
<1>14. RingOK(t) /\ HoldOK(t)
  <2>1. PeerFields \cap RingFields = {}
    BY DEF PeerFields, RingFields
  <2> QED BY <1>0, <1>2, <1>7, <2>1, RingKept, HoldKept DEF LiveOK
<1>15. LiveOK(c, t)
  BY <1>12, <1>13, <1>14 DEF LiveOK
<1>16. Good(c, t) /\ t.live = TRUE
  BY <1>2, <1>9, <1>15, KeepsGood DEF PeerFields
<1> QED BY <1>2, <1>16, ArmedKept DEF PeerFields

LEMMA TellSum ==
  ASSUME NEW a \in Nat, NEW k \in Nat, NEW x \in Nat, NEW n \in Nat, NEW u \in Nat, NEW v \in Nat,
         u + v = k + x + n, NEW i \in Nat
  PROVE  a + u + v + i = a + k + x + (n + i)
OBVIOUS

\* The peer acknowledges n units, which a SENT event will tell of or never.
LEMMA PeerAckIs ==
  ASSUME NEW c, NEW r, Good(c, r), r.live, NEW n \in 1 .. Len(r.wire),
         NEW t, Keeps(r, t, {"wire", "acks", "lost"}), t.wire = SubSeq(r.wire, n + 1, Len(r.wire)),
         t.acks \in Nat, t.lost \in Nat, t.acks + t.lost = r.acks + r.lost + n
  PROVE  Good(c, t) /\ t.live = TRUE /\ (Armed(r) => Armed(t))
<1> DEFINE X == {"wire", "acks", "lost"}
           l == Len(r.wire)
           w == SubSeq(r.wire, n + 1, l)
<1>0. Session(r) /\ LiveOK(c, r)
  BY DEF Good
<1>1. IsRecord(t)
  BY DEF Keeps
<1>2. Keeps(r, t, X)
  OBVIOUS
<1>3. /\ t.wire = w /\ t.acks \in Nat /\ t.lost \in Nat
      /\ t.acks + t.lost = r.acks + r.lost + n
  OBVIOUS
<1>4. /\ r.wire \in Seq(Unit) /\ l \in Nat /\ l <= SndBuf /\ n \in 0 .. l /\ n \in Nat
      /\ r.acks \in Nat /\ r.lost \in Nat /\ r.acked \in Nat
  <2>1. /\ r.wire \in Seq(Unit) /\ l <= SndBuf /\ r.acks \in Nat /\ r.lost \in Nat
        /\ r.acked \in 0 .. 1
    BY <1>0 DEF Session, NetType, RingType
  <2>2. l \in Nat
    BY <2>1, LenProperties
  <2> QED BY <2>1, <2>2
<1>5. w \in Seq(Unit) /\ Len(w) = l - n /\ \A i \in 1 .. l - n : w[i] = r.wire[n + i]
  BY <1>4, CutAt
<1> HIDE DEF w, l, X
<1>6. /\ t.next = r.next /\ t.pinned = r.pinned /\ t.len = r.len /\ t.rec = r.rec
      /\ t.acked = r.acked
  BY <1>2 DEF Keeps, Field, X
<1>7. Pinned(t) = Pinned(r) /\ \A j : Nth(t, j) = Nth(r, j)
  BY <1>6, PinnedKept
<1>8. Session(t)
  <2>1. InType(t) /\ RingType(t) /\ OutType(t) /\ AppType(t)
    BY <1>0, <1>2, TypeKept DEF FeedFields, SlotFields, OutFields, AppFields, X
  <2>2. NetType(t)
    <3>1. t.tcp = r.tcp /\ t.sent = r.sent /\ t.rxq = r.rxq /\ t.win = r.win
      BY <1>2 DEF Keeps, Field, X
    <3>2. Len(t.wire) <= SndBuf
      <4>1. Len(t.wire) = l - n
        BY <1>3, <1>5
      <4> QED BY <1>4, <4>1, Constants
    <3>3. t.wire \in Seq(Unit) /\ t.acks \in Nat /\ t.lost \in Nat
      BY <1>3, <1>5
    <3> QED BY <1>0, <3>1, <3>2, <3>3 DEF Session, NetType
  <2> QED BY <1>1, <2>1, <2>2 DEF Session
<1>9. /\ \A i \in 1 .. l : r.wire[i].slot # NoSlot
      /\ SumOf(Pinned(r)) = r.acked + r.acks + r.lost + l
  BY <1>0 DEF LiveOK, RingOK, l
<1>10. \A i \in 1 .. l - n : n + i \in 1 .. l
  BY <1>4
\* The place of a unit on the wire, counted from the oldest pinned one.
<1>16. \A i \in Nat : t.acked + t.acks + t.lost + i = r.acked + r.acks + r.lost + (n + i)
  <2> DEFINE a == r.acked
             k == r.acks
             x == r.lost
             u == t.acks
             v == t.lost
  <2>1. /\ a \in Nat /\ k \in Nat /\ x \in Nat /\ n \in Nat /\ u \in Nat /\ v \in Nat
        /\ u + v = k + x + n /\ t.acked = a
    BY <1>3, <1>4, <1>6
  <2> HIDE DEF a, k, x, u, v
  <2>2. \A i \in Nat : a + u + v + i = a + k + x + (n + i)
    BY <2>1, TellSum
  <2> QED BY <2>1, <2>2 DEF a, k, x, u, v
<1>11. RingOK(t)
  <2>1. \A i \in 1 .. l - n : t.wire[i].slot # NoSlot
    BY <1>3, <1>5, <1>9, <1>10
  <2>2. SumOf(Pinned(t)) = t.acked + t.acks + t.lost + (l - n)
    <3>1. t.acked + t.acks + t.lost + (l - n) = r.acked + r.acks + r.lost + (n + (l - n))
      BY <1>4, <1>5, <1>16
    <3>2. n + (l - n) = l
      BY <1>4
    <3> QED BY <1>7, <1>9, <3>1, <3>2
  <2> QED BY <1>3, <1>5, <2>1, <2>2 DEF RingOK
<1>12. HoldOK(t)
  <2>1. SUFFICES ASSUME NEW i \in 1 .. l - n, NEW j \in 1 .. r.pinned,
                        InNth(t, j, t.acked + t.acks + t.lost + i)
                 PROVE  /\ t.wire[i].slot = Nth(t, j)
                        /\ Nth(t, j) # 0 => t.rec[Nth(t, j)] = t.wire[i].rec
    BY <1>3, <1>5, <1>6 DEF HoldOK
  <2>2. t.acked + t.acks + t.lost + i = r.acked + r.acks + r.lost + (n + i)
    BY <1>16, i \in Nat
  <2>3. InNth(r, j, r.acked + r.acks + r.lost + (n + i))
    BY <1>7, <2>1, <2>2 DEF InNth
  <2>4. /\ r.wire[n + i].slot = Nth(r, j)
        /\ Nth(r, j) # 0 => r.rec[Nth(r, j)] = r.wire[n + i].rec
    BY <1>0, <1>10, <2>3 DEF LiveOK, HoldOK, l
  <2> QED BY <1>3, <1>5, <1>6, <1>7, <2>4
<1>13. InOK(t) /\ TalkOK(c, t)
  <2>1. X \cap InFields = {} /\ X \cap TalkFields = {}
    BY DEF X, InFields, TalkFields
  <2> QED BY <1>0, <1>2, <2>1, InKept, TalkKept DEF LiveOK
<1>14. LiveOK(c, t)
  BY <1>11, <1>12, <1>13 DEF LiveOK
<1>15. Good(c, t) /\ t.live = TRUE
  BY <1>2, <1>8, <1>14, KeepsGood DEF X
<1> QED BY <1>2, <1>15, ArmedKept DEF X

\* A connection without a session, and what lwIP still has of it.
Gone(r, tcp, wire) == [r EXCEPT !.wire = wire, !.tcp = tcp]

LEMMA GoneIs ==
  ASSUME NEW c, NEW r, Session(r), ~r.live, r.got = 0, NEW tcp \in {"closing", "gone"},
         NEW wire \in Seq(Unit), Len(wire) <= SndBuf,
         NEW t, t = Gone(r, tcp, wire)
  PROVE  Good(c, t) /\ Armed(t)
<1>1. IsRecord(t)
  BY DEF Gone, Session, IsRecord
<1>2. Keeps(r, t, {"wire", "tcp"})
  BY <1>1 DEF Gone, Session, IsRecord, Field, Keeps
<1>3. t.wire = wire /\ t.tcp = tcp
  BY DEF Gone, Session, IsRecord, Field
<1>4. InType(t) /\ RingType(t) /\ OutType(t) /\ AppType(t)
  BY <1>2, TypeKept DEF FeedFields, SlotFields, OutFields, AppFields
<1>5. /\ t.live = r.live /\ t.sent = r.sent /\ t.rxq = r.rxq /\ t.win = r.win /\ t.acks = r.acks
      /\ t.lost = r.lost /\ t.got = r.got
  BY <1>2 DEF Keeps, Field
<1>6. NetType(t)
  BY <1>3, <1>5 DEF Session, NetType
<1>7. Session(t)
  BY <1>1, <1>4, <1>6 DEF Session
<1> QED BY <1>3, <1>5, <1>7, DeadIsGood

-----------------------------------------------------------------------------
(* The start of a session.                                                 *)

Started(out) == [Fresh EXCEPT !.tcp = "open", !.live = TRUE, !.out = out]

LEMMA StartedIs ==
  ASSUME NEW c, NEW out \in Seq(1 .. 2), c \notin Server => Len(out) = 1,
         NEW t, t = Started(out)
  PROVE  Good(c, t) /\ t.live = TRUE /\ (out = << >> => Armed(t))
<1> DEFINE X == {"tcp", "live", "out"}
<1>1. IsRecord(t)
  BY ZenonT(30) DEF Started, Fresh, IsRecord, Field
<1>2. Keeps(Fresh, t, X)
  BY <1>1 DEF Started, Fresh, Field, Keeps
<1>3. t.tcp = "open" /\ t.live = TRUE /\ t.out = out
  BY DEF Started, Fresh
<1>4. /\ t.hs = FALSE /\ t.told = FALSE /\ t.got = 0 /\ t.st = "hs" /\ t.fed = 0 /\ t.app = FALSE
      /\ t.n = 0 /\ t.pend = << >> /\ t.off = 0 /\ t.rxq = << >> /\ t.win = Window /\ t.sent = 0
  BY DEF Started, Fresh
<1>5. /\ t.wire = << >> /\ t.acked = 0 /\ t.acks = 0 /\ t.lost = 0 /\ t.pinned = 0
  BY DEF Started, Fresh
<1> HIDE DEF X
<1>6. Session(t)
  <2>1. InType(t) /\ RingType(t)
    BY <1>2, FreshIs, TypeKept DEF FeedFields, SlotFields, X
  <2>2. NetType(t)
    <3>1. t.wire = Fresh.wire /\ t.acks = Fresh.acks /\ t.rxq = Fresh.rxq /\ t.win = Fresh.win
          /\ t.sent = Fresh.sent /\ t.lost = Fresh.lost
      BY <1>2 DEF Keeps, Field, X
    <3> QED BY <1>3, <3>1, FreshIs DEF Session, NetType
  <2>3. OutType(t)
    <3>1. /\ t.n = Fresh.n /\ t.defer = Fresh.defer /\ t.stall = Fresh.stall
          /\ t.pump = Fresh.pump /\ t.sched = Fresh.sched
      BY <1>2 DEF Keeps, Field, X
    <3> QED BY <1>3, <3>1, FreshIs DEF Session, OutType
  <2>4. AppType(t)
    <3>1. /\ t.hs = Fresh.hs /\ t.done = Fresh.done /\ t.told = Fresh.told /\ t.got = Fresh.got
          /\ t.quiet = Fresh.quiet /\ t.wrote = Fresh.wrote
      BY <1>2 DEF Keeps, Field, X
    <3>2. t.live \in BOOLEAN
      BY <1>3
    <3> QED BY <3>1, <3>2, FreshIs DEF Session, AppType
  <2> QED BY <1>1, <2>1, <2>2, <2>3, <2>4 DEF Session
<1>7. Arrived(t) = 0 /\ InOK(t)
  <2>1. Arrived(t) = 0
    BY <1>4, SumEmpty DEF Arrived
  <2> QED BY <1>4, <2>1, SumEmpty, StreamIs, Constants DEF InOK
<1>8. TalkOK(c, t)
  <2>1. t.hs = t.told
    BY <1>4
  <2>4. ~(t.got > 0) /\ t.fed < 2
    BY <1>4
  <2>2. (t.app => t.fed > 2) /\ (Arrived(t) > 2 => t.n >= 2)
    BY <1>4, <1>7
  <2>3. c \notin Server => t.n + Len(t.out) = IF t.fed = 0 THEN 1 ELSE 2
    BY <1>3, <1>4
  <2> QED BY <2>1, <2>2, <2>3, <2>4 DEF TalkOK
<1>9. RingOK(t)
  <2>1. Pinned(t) \in Seq(Nat) /\ Len(Pinned(t)) = 0
    BY <1>5, <1>6, PinnedIs DEF Session, RingType
  <2>2. Pinned(t) = << >>
    BY <2>1, EmptySeq
  <2>3. SumOf(Pinned(t)) = 0
    BY <2>2, SumEmpty
  <2> QED BY <1>5, <2>3 DEF RingOK
<1>10. HoldOK(t)
  BY <1>5 DEF HoldOK
<1>11. LiveOK(c, t)
  BY <1>7, <1>8, <1>9, <1>10 DEF LiveOK
<1>12. Good(c, t)
  BY <1>3, <1>6, <1>11, LiveIsGood
<1>13. out = << >> => Armed(t)
  BY <1>3 DEF Armed, SendRec
<1> QED BY <1>3, <1>12, <1>13

LEMMA NewServerIs ==
  ASSUME NEW c \in Server, NEW t, t = Registered(Fresh)
  PROVE  Good(c, t) /\ Armed(t)
<1>1. t = Started(<< >>)
  <2>1. Fresh.out = << >>
    BY DEF Fresh
  <2> QED BY <2>1, FreshIs DEF Session, IsRecord, Field, Registered, Started
<1> QED BY <1>1, StartedIs, EmptySeq

LEMMA NewClientIs ==
  ASSUME NEW c, c \notin Server, NEW t, t = Built([Registered(Fresh) EXCEPT !.out = Flight(c, 0)])
  PROVE  Good(c, t) /\ t.live = TRUE
<1> DEFINE u == Started(<<2>>)
<1>1. Flight(c, 0) = <<2>>
  BY DEF Flight
<1>2. t = Built(u)
  BY <1>1 DEF Started, Registered
<1>3. Good(c, u) /\ u.live = TRUE
  <2>1. <<2>> \in Seq(1 .. 2) /\ Len(<<2>>) = 1
    OBVIOUS
  <2> QED BY <2>1, StartedIs
<1> HIDE DEF u
<1>4. Session(u) /\ LiveOK(c, u)
  BY <1>3 DEF Good
<1>5. Session(t) /\ LiveOK(c, t) /\ Keeps(u, t, {"rec"})
  BY <1>2, <1>4, BuiltIs, BuiltLive
<1> QED BY <1>3, <1>5, KeepsGood

\* The one-shot is taken from the pool.
Called(r) == [r EXCEPT !.sched = FALSE, !.pump = "idle"]
Ticked(r) == [r EXCEPT !.quiet = Sooner(@ + 1, IdlePolls),
                       !.stall = IF @ = 0 THEN 0 ELSE Sooner(@ + 1, StallPolls + 1)]

LEMMA CalledIs ==
  ASSUME NEW c, NEW r, Good(c, r), r.live, NEW t, t = Called(r)
  PROVE  Good(c, t) /\ t.live = TRUE
<1> DEFINE X == {"sched", "pump"}
<1>0. Session(r) /\ LiveOK(c, r)
  BY DEF Good
<1>1. IsRecord(t)
  BY <1>0 DEF Called, Session, IsRecord
<1>2. Keeps(r, t, X)
  BY <1>0, <1>1 DEF Called, Session, IsRecord, Field, Keeps
<1>3. t.sched \in BOOLEAN /\ t.pump = "idle"
  BY <1>0 DEF Called, Session, IsRecord, Field
<1> HIDE DEF X
<1>4. NetType(t) /\ InType(t) /\ RingType(t) /\ AppType(t)
  BY <1>0, <1>2, TypeKept DEF NetFields, FeedFields, SlotFields, AppFields, X
<1>5. OutType(t)
  <2>1. t.out = r.out /\ t.n = r.n /\ t.defer = r.defer /\ t.stall = r.stall
    BY <1>2 DEF Keeps, Field, X
  <2> QED BY <1>0, <1>3, <2>1 DEF Session, OutType
<1>6. Session(t)
  BY <1>1, <1>4, <1>5 DEF Session
<1>7. X \cap (InFields \cup TalkFields \cup RingFields \cup {"rec"}) = {}
  BY DEF X, InFields, TalkFields, RingFields
<1> QED BY <1>0, <1>2, <1>6, <1>7, LiveKept, KeepsGood DEF X

LEMMA TickedIs ==
  ASSUME NEW c, NEW r, Good(c, r), r.live, NEW t, t = Ticked(r)
  PROVE  Good(c, t) /\ t.live = TRUE
<1> DEFINE X == {"quiet", "stall"}
           q == Sooner(r.quiet + 1, IdlePolls)
           l == IF r.stall = 0 THEN 0 ELSE Sooner(r.stall + 1, StallPolls + 1)
<1>0. Session(r) /\ LiveOK(c, r)
  BY DEF Good
<1>1. IsRecord(t)
  BY <1>0 DEF Ticked, Session, IsRecord
<1>2. Keeps(r, t, X)
  BY <1>0, <1>1 DEF Ticked, Session, IsRecord, Field, Keeps
<1>3. t.quiet = q /\ t.stall = l
  BY <1>0 DEF Ticked, Session, IsRecord, Field
<1>4. q \in Nat /\ l \in Nat
  <2>1. r.quiet \in Nat /\ r.stall \in Nat /\ IdlePolls \in Nat /\ StallPolls \in Nat
    BY <1>0, ConstantsAssumption DEF Session, OutType, AppType
  <2> QED BY <2>1 DEF Sooner
<1> HIDE DEF X, q, l
<1>5. NetType(t) /\ InType(t) /\ RingType(t)
  BY <1>0, <1>2, TypeKept DEF NetFields, FeedFields, SlotFields, X
<1>6. OutType(t)
  <2>1. t.out = r.out /\ t.n = r.n /\ t.defer = r.defer /\ t.pump = r.pump /\ t.sched = r.sched
    BY <1>2 DEF Keeps, Field, X
  <2> QED BY <1>0, <1>3, <1>4, <2>1 DEF Session, OutType
<1>7. AppType(t)
  <2>1. /\ t.live = r.live /\ t.hs = r.hs /\ t.done = r.done /\ t.told = r.told
        /\ t.got = r.got /\ t.wrote = r.wrote
    BY <1>2 DEF Keeps, Field, X
  <2> QED BY <1>0, <1>3, <1>4, <2>1 DEF Session, AppType
<1>8. Session(t)
  BY <1>1, <1>5, <1>6, <1>7 DEF Session
<1>9. X \cap (InFields \cup TalkFields \cup RingFields \cup {"rec"}) = {}
  BY DEF X, InFields, TalkFields, RingFields
<1> QED BY <1>0, <1>2, <1>8, <1>9, LiveKept, KeepsGood DEF X

-----------------------------------------------------------------------------
(* A step changes one connection, and the run.                             *)

LEMMA Idle0 ==
  ASSUME run = NoRun
  PROVE  run.conn = 0 /\ run.pass = 0 /\ run.conn \notin Conn /\ run.pass # FeedLoops
BY Constants DEF NoRun

LEMMA PutIs ==
  ASSUME BearInv, NEW c \in Conn, NEW t, Put(c, t)
  PROVE  s' = [d \in Conn |-> s'[d]] /\ s'[c] = t /\ \A d \in Conn \ {c} : s'[d] = s[d]
BY DEF BearInv, Put

LEMMA InvGood ==
  ASSUME BearInv, NEW c \in Conn
  PROVE  /\ Good(c, s[c]) /\ Session(s[c]) /\ (s[c].live <=> s[c].tcp = "open")
         /\ (s[c].tcp = "none" => s[c] = Fresh) /\ s[c].live \in BOOLEAN
         /\ ~s[c].live => s[c].got = 0
         /\ (run.conn # c \/ run.pass = FeedLoops => Armed(s[c]))
<1>1. Good(c, s[c]) /\ (run.conn # c \/ run.pass = FeedLoops => Armed(s[c]))
  BY DEF BearInv
<1>2. /\ Session(s[c]) /\ (s[c].live <=> s[c].tcp = "open")
      /\ (s[c].tcp = "none" => s[c] = Fresh) /\ (~s[c].live => s[c].got = 0)
  BY <1>1 DEF Good
<1>3. s[c].live \in BOOLEAN
  BY <1>2 DEF Session, AppType
<1> QED BY <1>1, <1>2, <1>3

\* While a run goes on or rests, lwIP and the application come in.
LEMMA Meanwhile ==
  ASSUME BearInv, NEW c \in Conn, NEW t, Put(c, t), Good(c, t), Armed(s[c]) => Armed(t),
         run' = run
  PROVE  BearInv'
<1>1. s' = [d \in Conn |-> s'[d]] /\ s'[c] = t /\ \A d \in Conn \ {c} : s'[d] = s[d]
  BY PutIs
<1>2. RunType'
  BY DEF BearInv, RunType
<1>3. ASSUME NEW d \in Conn
      PROVE  Good(d, s'[d]) /\ (run'.conn # d \/ run'.pass = FeedLoops => Armed(s'[d]))
  <2>1. Good(d, s[d]) /\ (run.conn # d \/ run.pass = FeedLoops => Armed(s[d]))
    BY InvGood
  <2>2. CASE d = c
    BY <1>1, <2>1, <2>2
  <2>3. CASE d # c
    BY <1>1, <2>1, <2>3
  <2> QED BY <2>2, <2>3
<1> QED BY <1>1, <1>2, <1>3 DEF BearInv

\* The loop works on one connection: the others are armed.
LEMMA Worked ==
  ASSUME BearInv, NEW c \in Conn, NEW t, Put(c, t), Good(c, t), run = NoRun \/ run.conn = c,
         RunType', run' = NoRun \/ run'.conn = c,
         Armed(t) \/ (run'.conn = c /\ run'.pass # FeedLoops)
  PROVE  BearInv'
<1>1. s' = [d \in Conn |-> s'[d]] /\ s'[c] = t /\ \A d \in Conn \ {c} : s'[d] = s[d]
  BY PutIs
<1>2. ASSUME NEW d \in Conn
      PROVE  Good(d, s'[d]) /\ (run'.conn # d \/ run'.pass = FeedLoops => Armed(s'[d]))
  <2>1. Good(d, s[d]) /\ (run.conn # d \/ run.pass = FeedLoops => Armed(s[d]))
    BY InvGood
  <2>2. CASE d = c
    BY <1>1, <2>2
  <2>3. CASE d # c
    <3>1. run.conn # d
      BY <2>3, Idle0
    <3> QED BY <1>1, <2>1, <2>3, <3>1
  <2> QED BY <2>2, <2>3
<1> QED BY <1>1, <1>2 DEF BearInv

LEMMA EndRunIs ==
  ASSUME BearInv, NEW c \in Conn, run.conn = c, EndRun
  PROVE  RunType' /\ (run' = NoRun \/ run'.conn = c)
<1>1. run \in [conn : Nat, pass : 0 .. FeedLoops, from : {"none", "poll", "schedule", "start"}]
  BY DEF BearInv, RunType
<1>2. CASE run.from = "poll"
  <2>1. run' = [run EXCEPT !.pass = FeedLoops]
    BY <1>2 DEF EndRun
  <2> QED BY <1>1, <2>1, Constants DEF RunType
<1>3. CASE run.from # "poll"
  <2>1. run' = NoRun
    BY <1>3 DEF EndRun
  <2>2. NoRun \in [conn : Nat, pass : 0 .. FeedLoops, from : {"none", "poll", "schedule", "start"}]
    BY Constants DEF NoRun
  <2> QED BY <2>1, <2>2 DEF RunType
<1> QED BY <1>2, <1>3

LEMMA LeaveIs ==
  ASSUME BearInv, NEW c \in Conn, run.conn = c, NEW r, Good(c, r), NEW a \in Reaction,
         NEW ok \in BOOLEAN, Leave(c, r, a, ok)
  PROVE  BearInv'
<1> DEFINE t == Rest(c, r, a, ok)
<1>1. Put(c, t) /\ EndRun
  BY DEF Leave
<1>2. Good(c, t) /\ Armed(t)
  BY RestIs
<1> HIDE DEF t
<1>3. RunType' /\ (run' = NoRun \/ run'.conn = c)
  BY <1>1, EndRunIs
<1> QED BY <1>1, <1>2, <1>3, Worked

LEMMA GoOnIs ==
  ASSUME BearInv, NEW c \in Conn, Running(c), NEW r, Good(c, r), NEW a \in Reaction,
         NEW ok \in BOOLEAN, GoOn(c, r, a, ok)
  PROVE  BearInv'
<1>1. run.conn = c /\ run.pass < FeedLoops
  BY DEF Running
<1>2. CASE run.pass + 1 < FeedLoops
  <2>1. Put(c, r) /\ run' = [run EXCEPT !.pass = @ + 1]
    BY <1>2 DEF GoOn
  <2>2. run \in [conn : Nat, pass : 0 .. FeedLoops, from : {"none", "poll", "schedule", "start"}]
    BY DEF BearInv, RunType
  <2>3. RunType' /\ run'.conn = c /\ run'.pass # FeedLoops
    BY <1>1, <1>2, <2>1, <2>2, Constants DEF RunType
  <2> QED BY <1>1, <2>1, <2>3, Worked
<1>3. CASE ~(run.pass + 1 < FeedLoops)
  BY <1>1, <1>3, LeaveIs DEF GoOn
<1> QED BY <1>2, <1>3

LEMMA EnterIs ==
  ASSUME BearInv, NEW c \in Conn, run = NoRun, NEW r, Good(c, r), r.live,
         NEW from \in {"poll", "schedule", "start"}, Enter(c, r, from)
  PROVE  BearInv'
<1> DEFINE t == Feed(c, r)
<1>1. Put(c, t) /\ run' = [conn |-> c, pass |-> 0, from |-> from]
  BY DEF Enter
<1>2. Good(c, t)
  BY FeedIs
<1>3. RunType' /\ run'.conn = c /\ run'.pass # FeedLoops
  <2>1. c \in Nat /\ FeedLoops \in Nat \ {0}
    BY Constants
  <2> QED BY <1>1, <2>1 DEF RunType
<1> HIDE DEF t
<1> QED BY <1>1, <1>2, <1>3, Worked

-----------------------------------------------------------------------------
(* The steps of a run.                                                     *)

LEMMA PassFreedKeeps ==
  ASSUME BearInv, NEW c \in Conn, PassFreed(c)
  PROVE  BearInv'
<1>1. run.conn = c /\ ~s[c].live /\ EndRun /\ s' = s
  BY DEF PassFreed, Running
<1>2. Good(c, s[c]) /\ Armed(s[c])
  BY <1>1, InvGood DEF Armed
<1>3. Put(c, s[c])
  BY <1>1 DEF BearInv, Put
<1>4. RunType' /\ (run' = NoRun \/ run'.conn = c)
  BY <1>1, EndRunIs
<1> QED BY <1>1, <1>2, <1>3, <1>4, Worked

LEMMA PassClosedKeeps ==
  ASSUME BearInv, NEW c \in Conn, PassClosed(c)
  PROVE  BearInv'
<1>1. PICK k \in 0 .. 2 : Put(c, Close(s[c], k)) /\ EndRun /\ run.conn = c
  BY DEF PassClosed, Running
<1> DEFINE t == Close(s[c], k)
<1>2. Good(c, t) /\ Armed(t)
  <2>1. k \in Nat
    OBVIOUS
  <2> QED BY <2>1, InvGood, CloseIs
<1>3. Put(c, t)
  BY <1>1
<1> HIDE DEF t
<1>4. RunType' /\ (run' = NoRun \/ run'.conn = c)
  BY <1>1, EndRunIs
<1> QED BY <1>1, <1>2, <1>3, <1>4, Worked

LEMMA PassDataKeeps ==
  ASSUME BearInv, NEW c \in Conn, PassData(c)
  PROVE  BearInv'
<1>1. /\ run.conn = c /\ Running(c) /\ s[c].live /\ s[c].st # "shut" /\ s[c].app
      /\ \E a \in Greeting(c), b \in Reaction, ok \in BOOLEAN :
           IF Greeted(c, s[c], a, ok).live
           THEN GoOn(c, React(Delivered(Greeted(c, s[c], a, ok)), b, ok), Nothing, ok)
           ELSE Leave(c, Greeted(c, s[c], a, ok), Nothing, ok)
  BY DEF PassData, Running, RecvApp
<1>2. PICK a \in Greeting(c), b \in Reaction, ok \in BOOLEAN :
           IF Greeted(c, s[c], a, ok).live
           THEN GoOn(c, React(Delivered(Greeted(c, s[c], a, ok)), b, ok), Nothing, ok)
           ELSE Leave(c, Greeted(c, s[c], a, ok), Nothing, ok)
  BY <1>1
<1> DEFINE r == Greeted(c, s[c], a, ok)
<1>3. a \in Reaction
  BY ReactionIs DEF Greeting
<1>4. Good(c, s[c]) /\ (s[c].hs \/ HandshakeOver(c, s[c]))
  BY <1>1, InvGood, DataAfterHandshake
<1>5. Good(c, r) /\ (r.live => r.hs)
  BY <1>1, <1>3, <1>4, GreetedIs
<1>6. IF r.live THEN GoOn(c, React(Delivered(r), b, ok), Nothing, ok)
      ELSE Leave(c, r, Nothing, ok)
  BY <1>2
<1> HIDE DEF r
<1>7. CASE r.live
  <2> DEFINE u == Delivered(r)
             t == React(u, b, ok)
  <2>1. Good(c, u) /\ u.live = TRUE /\ u.hs = r.hs
    BY <1>5, <1>7, DeliveredIs
  <2> HIDE DEF u
  <2>2. Good(c, t)
    BY <1>5, <1>7, <2>1, ReactIs
  <2>3. GoOn(c, t, Nothing, ok)
    BY <1>6, <1>7 DEF u
  <2> HIDE DEF t
  <2> QED BY <1>1, <2>2, <2>3, GoOnIs, ReactionIs
<1>8. CASE ~r.live
  BY <1>1, <1>5, <1>6, <1>8, LeaveIs, ReactionIs
<1> QED BY <1>7, <1>8

LEMMA PassSendKeeps ==
  ASSUME BearInv, NEW c \in Conn, PassSend(c)
  PROVE  BearInv'
<1>1. run.conn = c /\ Running(c) /\ s[c].live
  BY DEF PassSend, Running
<1>2. PICK a \in Reaction, ok \in BOOLEAN, written \in BOOLEAN :
        LET r == Greeted(c, s[c], a, ok)
            blocked == ~r.live \/ r.pinned >= Slots \/ ~SendRec(r) \/ Room(r) < Head(r.out)
        IN IF blocked THEN Leave(c, r, a, ok)
           ELSE IF written THEN GoOn(c, Emit(r), a, ok)
           ELSE Leave(c, Defer(r), a, ok)
  BY DEF PassSend
<1> DEFINE r == Greeted(c, s[c], a, ok)
           blocked == ~r.live \/ r.pinned >= Slots \/ ~SendRec(r) \/ Room(r) < Head(r.out)
<1>3. Good(c, r)
  BY <1>1, InvGood, GreetedIs
<1>4. IF blocked THEN Leave(c, r, a, ok)
      ELSE IF written THEN GoOn(c, Emit(r), a, ok)
      ELSE Leave(c, Defer(r), a, ok)
  BY <1>2
<1> HIDE DEF r
<1>5. CASE blocked
  BY <1>1, <1>3, <1>4, <1>5, LeaveIs
<1>6. CASE ~blocked /\ written
  <2> DEFINE t == Emit(r)
  <2>1. r.live /\ SendRec(r) /\ ~(r.pinned >= Slots) /\ ~(Room(r) < Head(r.out))
    BY <1>6
  <2>2. r.pinned < Slots /\ Head(r.out) <= Room(r)
    <3>1. Session(r)
      BY <1>3 DEF Good
    <3>2. r.pinned \in Int /\ Slots \in Int
      BY <3>1, Constants DEF Session, RingType
    <3>3. Head(r.out) \in Int
      <4>1. r.out \in Seq(1 .. 2) /\ r.out # << >>
        BY <2>1, <3>1 DEF Session, OutType, SendRec
      <4>2. Head(r.out) \in 1 .. 2
        BY <4>1, HeadTailProperties
      <4> QED BY <4>2
    <3>4. Room(r) \in Int
      <4>1. Len(r.wire) \in Nat
        BY <3>1, LenProperties DEF Session, NetType
      <4> QED BY <4>1, Constants DEF Room
    <3> QED BY <2>1, <3>2, <3>3, <3>4
  <2>3. Good(c, t)
    BY <1>3, <2>1, <2>2, EmitIs
  <2>4. GoOn(c, t, a, ok)
    BY <1>4, <1>6
  <2> HIDE DEF t
  <2> QED BY <1>1, <2>3, <2>4, GoOnIs
<1>7. CASE ~blocked /\ ~written
  <2> DEFINE t == Defer(r)
  <2>1. r.live
    BY <1>7
  <2>2. Good(c, t)
    BY <1>3, <2>1, DeferIs
  <2>3. Leave(c, t, a, ok)
    BY <1>4, <1>7
  <2> HIDE DEF t
  <2> QED BY <1>1, <2>2, <2>3, LeaveIs
<1> QED BY <1>5, <1>6, <1>7

LEMMA PollRestKeeps ==
  ASSUME BearInv, NEW c \in Conn, PollRest(c)
  PROVE  BearInv'
<1>1. run.conn = c /\ run.pass = FeedLoops /\ run' = NoRun
  BY DEF PollRest
<1>2. PICK k \in 0 .. 2 :
        Put(c, IF s[c].live /\ (Stalled(s[c]) \/ Idle(s[c])) THEN Close(s[c], k) ELSE s[c])
  BY DEF PollRest
<1> DEFINE t == IF s[c].live /\ (Stalled(s[c]) \/ Idle(s[c])) THEN Close(s[c], k) ELSE s[c]
<1>3. Good(c, s[c]) /\ Armed(s[c])
  BY <1>1, InvGood
<1>4. Good(c, Close(s[c], k)) /\ Armed(Close(s[c], k))
  <2>1. k \in Nat
    OBVIOUS
  <2> QED BY <2>1, InvGood, CloseIs
<1>5. Good(c, t) /\ Armed(t)
  BY <1>3, <1>4
<1>6. Put(c, t)
  BY <1>2
<1> HIDE DEF t
<1>7. RunType'
  <2>1. NoRun \in [conn : Nat, pass : 0 .. FeedLoops, from : {"none", "poll", "schedule", "start"}]
    BY Constants DEF NoRun
  <2> QED BY <1>1, <2>1 DEF RunType
<1> QED BY <1>1, <1>5, <1>6, <1>7, Worked

-----------------------------------------------------------------------------
(* The steps that begin or disturb a run.                                  *)

LEMMA RunScheduledKeeps ==
  ASSUME BearInv, NEW c \in Conn, RunScheduled(c)
  PROVE  BearInv'
<1>1. run = NoRun /\ s[c].sched
  BY DEF RunScheduled, LoopIdle
<1>2. CASE s[c].live
  <2> DEFINE t == Called(s[c])
  <2>1. Enter(c, t, "schedule")
    BY <1>2 DEF RunScheduled, Called
  <2>2. Good(c, t) /\ t.live = TRUE
    BY <1>2, InvGood, CalledIs
  <2> HIDE DEF t
  <2> QED BY <1>1, <2>1, <2>2, EnterIs
<1>3. CASE ~s[c].live
  <2> DEFINE r == s[c]
             t == [r EXCEPT !.sched = FALSE]
  <2>1. Put(c, t) /\ run' = run
    BY <1>3 DEF RunScheduled
  <2>2. Session(r) /\ r.tcp # "open" /\ r.tcp # "none" /\ r.live \in BOOLEAN /\ r.got = 0
    BY <1>1, <1>3, InvGood, FreshIs
  <2>3. IsRecord(t)
    BY <2>2 DEF Session, IsRecord
  <2>4. Keeps(r, t, {"sched"})
    BY <2>2, <2>3 DEF Session, IsRecord, Field, Keeps
  <2>5. t.sched = FALSE
    BY <2>2 DEF Session, IsRecord, Field
  <2> HIDE DEF r, t
  <2>6. NetType(t) /\ InType(t) /\ RingType(t) /\ AppType(t)
    BY <2>2, <2>4, TypeKept DEF NetFields, FeedFields, SlotFields, AppFields
  <2>7. OutType(t)
    <3>1. t.out = r.out /\ t.n = r.n /\ t.defer = r.defer /\ t.stall = r.stall /\ t.pump = r.pump
      BY <2>4 DEF Keeps, Field
    <3>2. t.sched \in BOOLEAN
      BY <2>5
    <3> QED BY <2>2, <3>1, <3>2 DEF Session, OutType
  <2>8. Session(t) /\ t.live = r.live /\ t.tcp = r.tcp /\ t.got = r.got
    BY <2>3, <2>4, <2>6, <2>7 DEF Session, Keeps, Field
  <2>9. Good(c, t) /\ Armed(t)
    <3>1. ~t.live /\ t.tcp # "open" /\ t.tcp # "none" /\ t.got = 0
      BY <1>3, <2>2, <2>8 DEF r
    <3> QED BY <2>8, <3>1, DeadIsGood
  <2> QED BY <2>1, <2>9, Meanwhile
<1> QED BY <1>2, <1>3

LEMMA AcceptTlsKeeps ==
  ASSUME BearInv, NEW c \in Conn, AcceptTls(c)
  PROVE  BearInv'
<1>1. c \in Server /\ s[c] = Fresh /\ run' = run
  BY InvGood DEF AcceptTls
<1>2. CASE Put(c, [s[c] EXCEPT !.tcp = "gone"])
  <2> DEFINE t == Gone(Fresh, "gone", << >>)
  <2>1. Put(c, t)
    <3>1. t = [Fresh EXCEPT !.tcp = "gone"]
      BY FreshIs DEF Session, IsRecord, Field, Gone
    <3> QED BY <1>1, <1>2, <3>1
  <2>2. Good(c, t) /\ Armed(t)
    <3>1. << >> \in Seq(Unit) /\ Len(<< >>) <= SndBuf
      BY Constants
    <3>2. "gone" \in {"closing", "gone"}
      OBVIOUS
    <3> QED BY <3>1, <3>2, FreshIs, GoneIs
  <2> HIDE DEF t
  <2> QED BY <1>1, <2>1, <2>2, Meanwhile
<1>3. CASE Put(c, NewServer(c))
  <2> DEFINE t == Registered(Fresh)
  <2>1. Put(c, t)
    BY <1>1, <1>3 DEF NewServer
  <2>2. Good(c, t) /\ Armed(t)
    BY <1>1, NewServerIs
  <2> HIDE DEF t
  <2> QED BY <1>1, <2>1, <2>2, Meanwhile
<1> QED BY <1>2, <1>3 DEF AcceptTls

LEMMA ClientConnectedKeeps ==
  ASSUME BearInv, NEW c \in Conn, ClientConnected(c)
  PROVE  BearInv'
<1>1. c \notin Server /\ s[c] = Fresh /\ run = NoRun
  BY InvGood DEF ClientConnected, LoopIdle
<1>2. CASE Put(c, [s[c] EXCEPT !.tcp = "closing"]) /\ UNCHANGED run
  <2> DEFINE t == Gone(Fresh, "closing", << >>)
  <2>1. Put(c, t)
    <3>1. t = [Fresh EXCEPT !.tcp = "closing"]
      BY FreshIs DEF Session, IsRecord, Field, Gone
    <3> QED BY <1>1, <1>2, <3>1
  <2>2. Good(c, t) /\ Armed(t)
    <3>1. << >> \in Seq(Unit) /\ Len(<< >>) <= SndBuf
      BY Constants
    <3>2. "closing" \in {"closing", "gone"}
      OBVIOUS
    <3> QED BY <3>1, <3>2, FreshIs, GoneIs
  <2> HIDE DEF t
  <2> QED BY <1>2, <2>1, <2>2, Meanwhile
<1>3. CASE Enter(c, NewClient(c), "start")
  <2> DEFINE t == NewClient(c)
  <2>1. Good(c, t) /\ t.live = TRUE
    BY <1>1, NewClientIs DEF NewClient
  <2>2. Enter(c, t, "start")
    BY <1>3
  <2> HIDE DEF t
  <2> QED BY <1>1, <2>1, <2>2, EnterIs
<1> QED BY <1>2, <1>3 DEF ClientConnected

-----------------------------------------------------------------------------
(* lwIP and the peer.                                                      *)

LEMMA OpenIsLive ==
  ASSUME BearInv, NEW c \in Conn, s[c].tcp = "open"
  PROVE  /\ Good(c, s[c]) /\ s[c].live /\ Session(s[c]) /\ LiveOK(c, s[c])
BY InvGood DEF Good

LEMMA PeerSendKeeps ==
  ASSUME BearInv, NEW c \in Conn, PeerSend(c)
  PROVE  BearInv'
<1>1. s[c].tcp = "open" /\ run' = run
  BY DEF PeerSend
<1>2. PICK n \in 1 .. 2 :
        /\ s[c].sent + n <= Len(Stream) /\ n <= s[c].win /\ s[c].n >= Needs(c, s[c].sent + n)
        /\ Put(c, [s[c] EXCEPT !.sent = @ + n, !.win = @ - n, !.rxq = Append(@, n)])
  BY DEF PeerSend
<1> DEFINE r == s[c]
           m == r.sent + n
           t == PeerPut(r, m, n)
<1>3. Good(c, r) /\ r.live /\ Session(r)
  BY <1>1, OpenIsLive
<1>4. m \in Nat /\ n \in 0 .. 2
  BY <1>3 DEF Session, NetType
<1>5. Put(c, t)
  BY <1>2 DEF PeerPut
<1>6. r.sent + n <= m
  BY <1>4
<1>7. Good(c, t) /\ (Armed(r) => Armed(t))
  <2>1. m <= Len(Stream) /\ n <= r.win /\ (n > 0 => r.n >= Needs(c, r.sent + n))
    BY <1>2
  <2>2. t = PeerPut(r, m, n)
    OBVIOUS
  <2>3. n \in 0 .. 2 /\ m \in Nat /\ Good(c, r) /\ r.live
    BY <1>3, <1>4
  <2> HIDE DEF r, m, t
  <2> QED BY <1>6, <2>1, <2>2, <2>3, PeerPutIs
<1> HIDE DEF t
<1> QED BY <1>1, <1>5, <1>7, Meanwhile

LEMMA PeerFinKeeps ==
  ASSUME BearInv, NEW c \in Conn, PeerFin(c)
  PROVE  BearInv'
<1>1. s[c].tcp = "open" /\ run' = run
  BY DEF PeerFin
<1>2. Put(c, [s[c] EXCEPT !.sent = Len(Stream), !.rxq = Append(@, 0)])
  BY DEF PeerFin
<1>3. Good(c, s[c]) /\ s[c].live /\ Session(s[c]) /\ LiveOK(c, s[c])
  BY <1>1, OpenIsLive
<1> DEFINE r == s[c]
           m == Len(Stream)
           t == PeerPut(r, m, 0)
<1>4. r.win \in Nat /\ r.sent \in Nat /\ r.sent <= m
  BY <1>3 DEF Session, NetType, LiveOK, InOK
<1>5. t = [r EXCEPT !.sent = m, !.rxq = Append(@, 0)]
  <2>1. r.win - 0 = r.win
    BY <1>4
  <2>2. IsRecord(r)
    BY <1>3 DEF Session
  <2> HIDE DEF r, m
  <2> QED BY <2>1, <2>2 DEF PeerPut, IsRecord, Field
<1>6. Put(c, t)
  BY <1>2, <1>5
<1>7. Good(c, t) /\ (Armed(r) => Armed(t))
  <2>1. m \in Nat
    BY StreamIs
  <2> HIDE DEF m
  <2>2. 0 \in 0 .. 2 /\ 0 <= r.win /\ r.sent + 0 <= m /\ ~(0 > 0)
    BY <1>4, <2>1
  <2>3. m <= Len(Stream)
    BY <2>1 DEF m
  <2>4. t = PeerPut(r, m, 0)
    OBVIOUS
  <2>5. Good(c, r) /\ r.live
    BY <1>3
  <2>6. 0 > 0 => r.n >= Needs(c, r.sent + 0)
    BY <2>2
  <2> HIDE DEF r, t
  <2> QED BY <2>1, <2>2, <2>3, <2>4, <2>5, <2>6, PeerPutIs
<1> HIDE DEF t
<1> QED BY <1>1, <1>6, <1>7, Meanwhile

LEMMA PeerAckKeeps ==
  ASSUME BearInv, NEW c \in Conn, PeerAck(c)
  PROVE  BearInv'
<1>1. run' = run
  BY DEF PeerAck
<1>2. PICK n \in 1 .. Len(s[c].wire) :
       LET r == [s[c] EXCEPT !.wire = SubSeq(@, n + 1, Len(@))]
       IN \/ s[c].tcp = "open" /\ Put(c, [r EXCEPT !.acks = @ + n])
          \/ s[c].tcp = "open" /\ r.lost + n <= Losses /\ Put(c, [r EXCEPT !.lost = @ + n])
          \/ s[c].tcp # "open" /\ Put(c, [r EXCEPT !.wire = << >>, !.tcp = "gone"])
  BY Zenon DEF PeerAck
<1> DEFINE r == s[c]
           w == SubSeq(r.wire, n + 1, Len(r.wire))
           u == [r EXCEPT !.wire = SubSeq(@, n + 1, Len(@))]
<1>3. IsRecord(r) /\ r.acks \in Nat /\ r.lost \in Nat /\ n \in Nat
  <2>1. Session(r)
    BY InvGood
  <2>2. Len(r.wire) \in Nat
    BY <2>1, LenProperties DEF Session, NetType
  <2> HIDE DEF r
  <2> QED BY <2>1, <2>2 DEF Session, NetType
<1>4. ASSUME NEW t, r.tcp = "open", Put(c, t), Keeps(r, t, {"wire", "acks", "lost"}), t.wire = w,
             t.acks \in Nat, t.lost \in Nat, t.acks + t.lost = r.acks + r.lost + n
      PROVE  BearInv'
  <2>1. Good(c, t) /\ (Armed(r) => Armed(t))
    BY <1>4, OpenIsLive, PeerAckIs
  <2> QED BY <1>1, <1>4, <2>1, Meanwhile
<1>5. CASE r.tcp = "open" /\ Put(c, [u EXCEPT !.acks = @ + n])
  <2> DEFINE t == [u EXCEPT !.acks = @ + n]
  <2> HIDE DEF r
  <2>1. IsRecord(t)
    BY <1>3 DEF IsRecord
  <2>2. Keeps(r, t, {"wire", "acks", "lost"})
    BY <1>3, <2>1 DEF IsRecord, Field, Keeps
  <2>3. t.wire = w /\ t.acks = r.acks + n /\ t.lost = r.lost
    BY <1>3 DEF IsRecord, Field
  <2> HIDE DEF t, u, w
  <2>4. t.acks \in Nat /\ t.lost \in Nat /\ t.acks + t.lost = r.acks + r.lost + n
    BY <1>3, <2>3
  <2> QED BY <1>4, <1>5, <2>2, <2>3, <2>4 DEF t
<1>6. CASE r.tcp = "open" /\ Put(c, [u EXCEPT !.lost = @ + n])
  <2> DEFINE t == [u EXCEPT !.lost = @ + n]
  <2> HIDE DEF r
  <2>1. IsRecord(t)
    BY <1>3 DEF IsRecord
  <2>2. Keeps(r, t, {"wire", "acks", "lost"})
    BY <1>3, <2>1 DEF IsRecord, Field, Keeps
  <2>3. t.wire = w /\ t.acks = r.acks /\ t.lost = r.lost + n
    BY <1>3 DEF IsRecord, Field
  <2> HIDE DEF t, u, w
  <2>4. t.acks \in Nat /\ t.lost \in Nat /\ t.acks + t.lost = r.acks + r.lost + n
    BY <1>3, <2>3
  <2> QED BY <1>4, <1>6, <2>2, <2>3, <2>4 DEF t
<1>7. CASE r.tcp # "open" /\ Put(c, [u EXCEPT !.wire = << >>, !.tcp = "gone"])
  <2> DEFINE t == Gone(r, "gone", << >>)
  <2>1. [u EXCEPT !.wire = << >>, !.tcp = "gone"] = t
    <3> HIDE DEF r
    <3> QED BY <1>3 DEF Gone, IsRecord, Field
  <2>2. Good(c, t) /\ Armed(t)
    <3>1. << >> \in Seq(Unit) /\ Len(<< >>) <= SndBuf
      BY Constants
    <3>2. "gone" \in {"closing", "gone"}
      OBVIOUS
    <3> QED BY <1>7, <3>1, <3>2, InvGood, GoneIs
  <2>3. Put(c, t)
    BY <1>7, <2>1
  <2> HIDE DEF t, u
  <2> QED BY <1>1, <2>2, <2>3, Meanwhile
<1> QED BY <1>2, <1>5, <1>6, <1>7

LEMMA PeerResetKeeps ==
  ASSUME BearInv, NEW c \in Conn, PeerReset(c)
  PROVE  BearInv'
<1> DEFINE x == TlsClose(s[c], 0)
           t == Freed(x, "gone", << >>)
<1>1. Put(c, t) /\ run' = run
  BY DEF PeerReset, CloseSession, Freed, Free, Fresh
<1>2. x.sched = s[c].sched /\ s[c].sched \in BOOLEAN
  <2>1. Session(s[c]) /\ 0 \in Nat
    BY InvGood
  <2>2. x.sched = s[c].sched
    BY <2>1, TlsCloseIs
  <2> QED BY <2>1, <2>2 DEF Session, OutType
<1> HIDE DEF x
<1>3. Session(t) /\ t.live = FALSE /\ t.tcp = "gone" /\ t.got = 0
  <2>1. << >> \in Seq(Unit) /\ Len(<< >>) <= SndBuf /\ "gone" \in {"open", "closing", "gone"}
    BY Constants
  <2>2. x.sched \in BOOLEAN
    BY <1>2
  <2>3. \A wire \in Seq(Unit) : Len(wire) <= SndBuf =>
          Session(Freed(x, "gone", wire)) /\ Freed(x, "gone", wire).live = FALSE
          /\ Freed(x, "gone", wire).tcp = "gone" /\ Freed(x, "gone", wire).got = 0
    BY <2>1, <2>2, FreeIs
  <2> QED BY <2>1, <2>3
<1> HIDE DEF t
<1>4. Good(c, t) /\ Armed(t)
  BY <1>3, DeadIsGood
<1> QED BY <1>1, <1>4, Meanwhile

-----------------------------------------------------------------------------
(* Events and the application.                                             *)

LEMMA RecvEventKeeps ==
  ASSUME BearInv, NEW c \in Conn, RecvEvent(c)
  PROVE  BearInv'
<1>1. s[c].tcp = "open" /\ s[c].rxq # << >> /\ run' = run
  BY DEF RecvEvent
<1> DEFINE r == s[c]
           u == [r EXCEPT !.rxq = Tail(@)]
<1>2. PICK ok \in BOOLEAN, k \in 0 .. 2 :
        IF Head(r.rxq) = 0 \/ Len(u.pend) >= PendMax THEN Put(c, Close(u, k))
        ELSE Put(c, [FedRx(u, Head(r.rxq), ok) EXCEPT !.quiet = 0])
  BY DEF RecvEvent
<1>3. Good(c, r) /\ r.live /\ Session(r) /\ LiveOK(c, r)
  BY <1>1, OpenIsLive
<1>4. IsRecord(u) /\ u.pend = r.pend /\ u.rxq = Tail(r.rxq) /\ Keeps(r, u, {"rxq"})
  <2>1. IsRecord(u)
    BY <1>3 DEF Session, IsRecord
  <2>2. Keeps(r, u, {"rxq"})
    BY <1>3, <2>1 DEF Session, IsRecord, Field, Keeps
  <2> QED BY <1>3, <2>1, <2>2 DEF Session, IsRecord, Field
<1>5. CASE Head(r.rxq) = 0 \/ Len(u.pend) >= PendMax
  <2> DEFINE t == Close(u, k)
  <2>1. Put(c, t)
    BY <1>2, <1>5
  <2>2. Session(u)
    <3>1. InType(u) /\ RingType(u) /\ OutType(u) /\ AppType(u)
      BY <1>3, <1>4, TypeKept DEF FeedFields, SlotFields, OutFields, AppFields
    <3>2. NetType(u)
      <4>1. u.tcp = r.tcp /\ u.sent = r.sent /\ u.win = r.win /\ u.wire = r.wire /\ u.acks = r.acks
            /\ u.lost = r.lost
        BY <1>4 DEF Keeps, Field
      <4>2. u.rxq \in Seq(0 .. 2)
        BY <1>1, <1>3, <1>4, HeadTailProperties DEF Session, NetType
      <4> QED BY <1>3, <4>1, <4>2 DEF Session, NetType
    <3> QED BY <1>4, <3>1, <3>2 DEF Session
  <2>3. u.live = r.live /\ u.tcp = r.tcp
    BY <1>4 DEF Keeps, Field
  <2>4. Good(c, t) /\ Armed(t)
    <3>1. u.live /\ (u.live <=> u.tcp = "open") /\ u.tcp # "none" /\ k \in Nat
      BY <1>1, <1>3, <2>3
    <3> HIDE DEF u
    <3> QED BY <2>2, <3>1, CloseIs
  <2> HIDE DEF t
  <2> QED BY <1>1, <2>1, <2>4, Meanwhile
<1>6. CASE ~(Head(r.rxq) = 0 \/ Len(u.pend) >= PendMax)
  <2> DEFINE t == RecvOf(r, ok)
  <2>1. Put(c, t)
    BY <1>2, <1>6 DEF RecvOf
  <2>2. Head(r.rxq) # 0 /\ Len(r.pend) < PendMax
    <3>1. Len(r.pend) \in Nat
      BY <1>3, LenProperties DEF Session, InType
    <3> QED BY <1>4, <1>6, <3>1, Constants
  <2> HIDE DEF u
  <2>3. Good(c, t) /\ Armed(t)
    BY <1>1, <1>3, <2>2, RecvOfIs
  <2> HIDE DEF t
  <2> QED BY <1>1, <2>1, <2>3, Meanwhile
<1> QED BY <1>5, <1>6

LEMMA SentEventKeeps ==
  ASSUME BearInv, NEW c \in Conn, SentEvent(c)
  PROVE  BearInv'
<1>1. s[c].tcp = "open" /\ run' = run
  BY DEF SentEvent
<1>2. PICK n \in 1 .. s[c].acks, ok \in BOOLEAN :
       Put(c, [(IF s[c].live THEN SentAck(s[c], n, ok) ELSE s[c])
                 EXCEPT !.acks = @ - n, !.quiet = 0])
  BY DEF SentEvent
<1> DEFINE t == SentOf(s[c], n, 0, ok)
<1>3. Good(c, s[c]) /\ s[c].live /\ Session(s[c])
  BY <1>1, OpenIsLive
<1>4. Put(c, t)
  BY <1>2, <1>3 DEF SentOf
<1>5. n \in 0 .. s[c].acks /\ 0 \in Nat
  BY <1>3 DEF Session, NetType
<1>6. Good(c, t) /\ Armed(t)
  BY <1>3, <1>5, SentOfIs
<1> HIDE DEF t
<1> QED BY <1>1, <1>4, <1>6, Meanwhile

LEMMA PollKeeps ==
  ASSUME BearInv, NEW c \in Conn, Poll(c)
  PROVE  BearInv'
<1> DEFINE r == Ticked(s[c])
<1>1. run = NoRun /\ s[c].live
  BY DEF Poll, LoopIdle
<1>2. PICK k \in 0 .. 2, ok \in BOOLEAN :
       IF ~r.done /\ r.quiet >= HsPolls THEN Put(c, Close(r, k)) /\ UNCHANGED run
       ELSE Enter(c, SentAck(r, 0, ok), "poll")
  BY DEF Poll, Ticked
<1>3. Good(c, r) /\ r.live = TRUE
  BY <1>1, InvGood, TickedIs
<1> HIDE DEF r
<1>4. CASE ~r.done /\ r.quiet >= HsPolls
  <2> DEFINE t == Close(r, k)
  <2>1. Put(c, t) /\ run' = run
    BY <1>2, <1>4
  <2>2. Good(c, t) /\ Armed(t)
    <3>1. /\ k \in Nat /\ Session(r) /\ (r.live <=> r.tcp = "open")
          /\ (r.tcp = "none" => r = Fresh) /\ (~r.live => r.got = 0)
      BY <1>3 DEF Good
    <3> QED BY <3>1, CloseIs
  <2> HIDE DEF t
  <2> QED BY <2>1, <2>2, Meanwhile
<1>5. CASE ~(~r.done /\ r.quiet >= HsPolls)
  <2> DEFINE t == SentAck(r, 0, ok)
  <2>1. Enter(c, t, "poll")
    BY <1>2, <1>5
  <2>2. Good(c, t) /\ t.live = TRUE
    BY <1>3, SentNothing
  <2> HIDE DEF t
  <2> QED BY <1>1, <2>1, <2>2, EnterIs
<1> QED BY <1>4, <1>5

LEMMA AppWriteKeeps ==
  ASSUME BearInv, NEW c \in Conn, AppWrite(c)
  PROVE  BearInv'
<1>1. s[c].live /\ s[c].told /\ run' = run
  BY DEF AppWrite
<1>2. PICK n \in 1 .. 2, ok \in BOOLEAN : Put(c, Write(s[c], n, ok))
  BY DEF AppWrite
<1> DEFINE t == Write(s[c], n, ok)
<1>3. Good(c, s[c]) /\ Session(s[c]) /\ LiveOK(c, s[c])
  BY <1>1, InvGood DEF Good
<1>4. s[c].hs
  BY <1>1, <1>3 DEF LiveOK, TalkOK
<1>5. Session(t) /\ LiveOK(c, t) /\ Armed(t) /\ Keeps(s[c], t, WriteFields)
  BY <1>3, <1>4, WriteIs
<1> HIDE DEF t
<1>6. Good(c, t)
  BY <1>1, <1>3, <1>5, KeepsGood DEF WriteFields
<1>7. Put(c, t)
  BY <1>2 DEF t
<1> QED BY <1>1, <1>5, <1>6, <1>7, Meanwhile

LEMMA AppCloseKeeps ==
  ASSUME BearInv, NEW c \in Conn, AppClose(c)
  PROVE  BearInv'
<1>1. run' = run
  BY DEF AppClose
<1>2. PICK k \in 0 .. 2 : Put(c, Close(s[c], k))
  BY DEF AppClose
<1> DEFINE t == Close(s[c], k)
<1>3. Good(c, t) /\ Armed(t)
  <2>1. k \in Nat
    OBVIOUS
  <2> QED BY <2>1, InvGood, CloseIs
<1>4. Put(c, t)
  BY <1>2
<1> HIDE DEF t
<1> QED BY <1>1, <1>3, <1>4, Meanwhile

-----------------------------------------------------------------------------
(* The invariant of the specification.                                     *)

LEMMA InitInv ==
  ASSUME Init
  PROVE  BearInv
<1>1. s = [d \in Conn |-> Fresh] /\ run = NoRun
  BY DEF Init
<1>2. s = [d \in Conn |-> s[d]] /\ \A c \in Conn : s[c] = Fresh
  BY <1>1
<1>3. RunType
  BY <1>1, Constants DEF RunType, NoRun
<1>4. ASSUME NEW c \in Conn PROVE Good(c, s[c]) /\ Armed(s[c])
  <2>1. Good(c, Fresh) /\ Armed(Fresh)
    BY FreshIs, DeadIsGood
  <2> QED BY <1>2, <2>1
<1> QED BY <1>2, <1>3, <1>4 DEF BearInv

LEMMA NextInv ==
  ASSUME BearInv, [Next]_vars
  PROVE  BearInv'
<1>1. CASE UNCHANGED vars
  BY <1>1 DEF vars, BearInv, RunType
<1>2. ASSUME NEW c \in Conn, AcceptTls(c) \/ ClientConnected(c) PROVE BearInv'
  BY <1>2, AcceptTlsKeeps, ClientConnectedKeeps
<1>3. ASSUME NEW c \in Conn, Pass(c) PROVE BearInv'
  BY <1>3, PassFreedKeeps, PassClosedKeeps, PassDataKeeps, PassSendKeeps, PollRestKeeps DEF Pass
<1>4. ASSUME NEW c \in Conn, RunScheduled(c) PROVE BearInv'
  BY <1>4, RunScheduledKeeps
<1>5. ASSUME NEW c \in Conn, Network(c) PROVE BearInv'
  BY <1>5, PeerSendKeeps, PeerFinKeeps, PeerAckKeeps, PeerResetKeeps DEF Network
<1>6. ASSUME NEW c \in Conn, Event(c) PROVE BearInv'
  BY <1>6, RecvEventKeeps, SentEventKeeps, PollKeeps DEF Event
<1>7. ASSUME NEW c \in Conn, Application(c) PROVE BearInv'
  BY <1>7, AppWriteKeeps, AppCloseKeeps DEF Application
<1>8. CASE Next
  BY <1>2, <1>3, <1>4, <1>5, <1>6, <1>7, <1>8 DEF Next
<1> QED BY <1>1, <1>8

\* Every session record is well formed in the sense of Good, and armed unless
\* the loop is at work on it.
THEOREM InvariantHolds == Spec => []BearInv
<1>1. Init => BearInv
  BY InitInv
<1>2. BearInv /\ [Next]_vars => BearInv'
  BY NextInv
<1> QED BY <1>1, <1>2, PTL DEF Spec

-----------------------------------------------------------------------------
(* What follows from it.                                                   *)

LEMMA InvTypes ==
  ASSUME BearInv
  PROVE  TypeOK
<1>1. ASSUME NEW c \in Conn, NEW r, r = s[c]
      PROVE  /\ r.tcp \in {"none", "open", "closing", "gone"}
             /\ r.st \in {"hs", "open", "shut"} /\ r.pump \in {"idle", "dropped", "queued"}
             /\ {r.live, r.app, r.defer, r.sched, r.hs, r.done, r.told} \subseteq BOOLEAN
             /\ r.next \in Slot /\ r.pinned \in 0 .. Slots /\ r.acked \in 0 .. SndBuf
             /\ Range(r.pend) \subseteq 1 .. 2 /\ Len(r.pend) <= PendMax
             /\ Range(r.out) \subseteq 1 .. 2 /\ Room(r) >= 0
             /\ r.off < IF r.pend = << >> THEN 1 ELSE Head(r.pend)
             /\ r.live => r.tcp = "open"
  <2>1. NetType(r) /\ InType(r) /\ RingType(r) /\ OutType(r) /\ AppType(r)
        /\ (r.live => r.tcp = "open")
    BY <1>1, InvGood DEF Session
  <2>2. r.tcp \in {"none", "open", "closing", "gone"} /\ r.st \in {"hs", "open", "shut"}
        /\ r.pump \in {"idle", "dropped", "queued"}
    BY <2>1 DEF NetType, InType, OutType
  <2>3. {r.live, r.app, r.defer, r.sched, r.hs, r.done, r.told} \subseteq BOOLEAN
    BY <2>1 DEF InType, OutType, AppType
  <2>4. r.next \in Slot /\ r.pinned \in 0 .. Slots /\ r.acked \in 0 .. SndBuf
    BY <2>1, Constants DEF RingType
  <2>5. \A q \in Seq(1 .. 2) : Range(q) \subseteq 1 .. 2
    BY DEF Range
  <2>6. Range(r.pend) \subseteq 1 .. 2 /\ Len(r.pend) <= PendMax /\ Range(r.out) \subseteq 1 .. 2
    BY <2>1, <2>5 DEF InType, OutType
  <2>7. Room(r) >= 0
    <3>1. Len(r.wire) \in Nat /\ Len(r.wire) <= SndBuf
      BY <2>1, LenProperties DEF NetType
    <3> QED BY <3>1, Constants DEF Room
  <2>8. r.off < IF r.pend = << >> THEN 1 ELSE Head(r.pend)
    BY <2>1 DEF InType
  <2> QED BY <2>1, <2>2, <2>3, <2>4, <2>6, <2>7, <2>8
<1>2. run # NoRun => run.conn \in Conn /\ run.pass \in 0 .. FeedLoops
  BY DEF BearInv, RunType
<1> QED BY <1>1, <1>2 DEF TypeOK

LEMMA InvLive ==
  ASSUME BearInv, NEW c \in Conn, s[c].live
  PROVE  Session(s[c]) /\ LiveOK(c, s[c])
BY InvGood DEF Good

LEMMA InvRing ==
  ASSUME BearInv
  PROVE  RingMatchesWire
<1>1. ASSUME NEW c \in Conn, s[c].live, NEW r, r = s[c]
      PROVE  Total(Pinned(r)) = r.acked + r.acks + r.lost
               + Cardinality({i \in 1 .. Len(r.wire) : r.wire[i].slot # NoSlot})
  <2>1. RingOK(r) /\ r.wire \in Seq(Unit)
    BY <1>1, InvLive DEF LiveOK, Session, NetType
  <2> DEFINE l == Len(r.wire)
  <2>2. {i \in 1 .. l : r.wire[i].slot # NoSlot} = 1 .. l
    BY <2>1 DEF RingOK
  <2>3. Cardinality(1 .. l) = l
    <3>1. l \in Nat
      BY <2>1, LenProperties
    <3> HIDE DEF l
    <3>2. Cardinality(1 .. l) = IF 1 > l THEN 0 ELSE l - 1 + 1
      BY <3>1, FS_Interval
    <3> QED BY <3>1, <3>2
  <2> QED BY <2>1, <2>2, <2>3, TotalIsSum DEF RingOK
<1> QED BY <1>1 DEF RingMatchesWire

LEMMA InvWindow ==
  ASSUME BearInv
  PROVE  WindowConserved
<1>1. ASSUME NEW c \in Conn, s[c].live
      PROVE  s[c].win + Total(s[c].rxq) + Total(s[c].pend) = Window
  BY <1>1, InvLive, TotalIsSum DEF LiveOK, InOK
<1> QED BY <1>1 DEF WindowConserved

LEMMA InvConnect ==
  ASSUME BearInv
  PROVE  ConnectBeforeData
<1>1. ASSUME NEW c \in Conn, s[c].got > 0 PROVE s[c].told
  <2>1. s[c].live
    BY <1>1, InvGood
  <2> QED BY <1>1, <2>1, InvLive DEF LiveOK, TalkOK
<1> QED BY <1>1 DEF ConnectBeforeData

LEMMA InvArmed ==
  ASSUME BearInv
  PROVE  PumpArmed
<1>1. ASSUME NEW c \in Conn, run.conn # c PROVE Armed(s[c])
  BY <1>1, InvGood
<1> QED BY <1>1 DEF PumpArmed, Armed

\* While a session is registered: what lwIP may still read of it lies in a slot
\* that is pinned, and holds the record that was copied there, but in slot 0,
\* which shares its memory with the buffer in which the engine builds its next
\* record (run bear_outbuf).  Nothing is said of a closed session: tcp_ssl_free
\* deletes the slab whatever lwIP still reads of it.
RegisteredSlotsIntact ==
  \A c \in Conn : s[c].live =>
    \A i \in 1 .. Len(s[c].wire) :
      LET unit == s[c].wire[i]
      IN /\ \E j \in 1 .. s[c].pinned : unit.slot = Nth(s[c], j)
         /\ unit.slot # 0 => s[c].rec[unit.slot] = unit.rec

LEMMA InvSlots ==
  ASSUME BearInv
  PROVE  RegisteredSlotsIntact
<1>1. ASSUME NEW c \in Conn, s[c].live, NEW r, r = s[c], NEW i \in 1 .. Len(r.wire)
      PROVE  /\ \E j \in 1 .. r.pinned : r.wire[i].slot = Nth(r, j)
             /\ r.wire[i].slot # 0 => r.rec[r.wire[i].slot] = r.wire[i].rec
  <2>1. Session(r) /\ RingOK(r) /\ HoldOK(r)
    BY <1>1, InvLive DEF LiveOK
  <2> DEFINE q == Pinned(r)
             p == r.acked + r.acks + r.lost + i
             e == p - 1
  <2>2. q \in Seq(Nat) /\ Len(q) = r.pinned /\ r.pinned \in Nat
    BY <2>1, PinnedIs DEF Session, RingType
  <2>3. p \in Nat /\ e \in Nat /\ p = e + 1 /\ p <= SumOf(q)
    <3>1. r.acked \in Nat /\ r.acks \in Nat /\ r.lost \in Nat /\ Len(r.wire) \in Nat
      BY <2>1, LenProperties DEF Session, NetType, RingType
    <3>2. SumOf(q) = r.acked + r.acks + r.lost + Len(r.wire)
      BY <2>1 DEF RingOK
    <3> HIDE DEF q
    <3> QED BY <3>1, <3>2
  <2> HIDE DEF q, e
  <2>4. PICK m \in 0 .. Len(q) : Prefix(q, m) <= e /\ (m < Len(q) => e < Prefix(q, m + 1))
    BY <2>2, <2>3, LongestPrefix
  <2>5. m < Len(q)
    <3>1. CASE m = Len(q)
      <4>1. Prefix(q, m) = SumOf(q)
        BY <2>2, <3>1, PrefixEnds
      <4> HIDE DEF p
      <4> QED BY <2>2, <2>3, <2>4, <4>1, SumType
    <3> QED BY <2>2, <2>4, <3>1
  <2> DEFINE j == m + 1
  <2>6. j \in 1 .. r.pinned /\ j - 1 = m
    BY <2>2, <2>4, <2>5
  <2>7. InNth(r, j, p)
    <3>1. Prefix(q, m) \in Nat /\ Prefix(q, j) \in Nat
      <4>1. m \in 0 .. Len(q) /\ j \in 0 .. Len(q)
        BY <2>2, <2>4, <2>6
      <4> QED BY <2>2, <4>1, PrefixType
    <3>2. Prefix(q, j - 1) <= e /\ e < Prefix(q, j) /\ Prefix(q, j - 1) \in Nat
      BY <2>4, <2>5, <2>6, <3>1
    <3>3. p = e + 1 /\ e \in Nat
      BY <2>3
    <3> HIDE DEF p, j
    <3>4. Prefix(q, j - 1) < p /\ p <= Prefix(q, j)
      BY <3>1, <3>2, <3>3
    <3> QED BY <3>4 DEF InNth, q
  <2> HIDE DEF j
  <2>8. r.wire[i].slot = Nth(r, j) /\ (Nth(r, j) # 0 => r.rec[Nth(r, j)] = r.wire[i].rec)
    BY <2>1, <2>6, <2>7 DEF HoldOK
  <2> QED BY <2>6, <2>8
<1> QED BY <1>1 DEF RegisteredSlotsIntact

\* Every field of a session has its type, and the counters of the ring, of
\* rx_pend and of the send buffer stay within their bounds.
THEOREM TypeCorrect == Spec => []TypeOK
BY InvariantHolds, InvTypes, PTL

\* tcp_ssl_sent frees a slot for the ACKs that a SENT told of, never sooner and
\* never twice, and a slot that it keeps has units that are on the wire, that a
\* queued SENT will tell of, or whose SENT tcp_sent could not allocate: the
\* last are lost for good, and what they pin is not released.
THEOREM RingIsExact == Spec => []RingMatchesWire
BY InvariantHolds, InvRing, PTL

\* tcp_recved is called once for every unit that arrived: the window is whole
\* whatever of a pbuf the engine took.
THEOREM WindowIsConserved == Spec => []WindowConserved
BY InvariantHolds, InvWindow, PTL

\* on_data never runs before on_handshake has told the application.
THEOREM ConnectComesFirst == Spec => []ConnectBeforeData
BY InvariantHolds, InvConnect, PTL

\* When process_ssl_engine is left, what can be sent has a run to send it.
THEOREM PumpStaysArmed == Spec => []PumpArmed
BY InvariantHolds, InvArmed, PTL

\* Until its session is closed, no run of process_ssl_engine releases a slot
\* that lwIP may still retransmit from or copies a record into it: what it may
\* spoil is slot 0 alone.
THEOREM RegisteredSlotsStayIntact == Spec => []RegisteredSlotsIntact
BY InvariantHolds, InvSlots, PTL

=============================================================================
