-------------------------- MODULE RecvCreditProofs --------------------------
(***************************************************************************)
(* Why no unit of the receive window is lost or given back twice.          *)
(***************************************************************************)
EXTENDS RecvCredit, SequenceLemmas

-----------------------------------------------------------------------------
(* Units is a sum.                                                         *)

LEMMA UnitsIsSum == \A s : Units(s) = SumOf(s)
BY DEF Units, SumOf

LEMMA UnitsType == \A s \in Seq(Nat) : Units(s) \in Nat
BY UnitsIsSum, SumType

LEMMA UnitsEmpty == Units(<< >>) = 0
BY UnitsIsSum, SumEmpty

LEMMA UnitsAppend ==
  ASSUME NEW s \in Seq(Nat), NEW b \in Nat
  PROVE  Units(Append(s, b)) = Units(s) + b
BY UnitsIsSum, SumAppend

LEMMA UnitsConcat ==
  ASSUME NEW s \in Seq(Nat)
  PROVE  \A t \in Seq(Nat) : Units(s \o t) = Units(s) + Units(t)
BY UnitsIsSum, SumConcat

LEMMA UnitsOne == \A a \in Nat : Units(<<a>>) = a
BY UnitsIsSum, SumOne

LEMMA UnitsHeadTail ==
  ASSUME NEW s \in Seq(Nat), s # << >>
  PROVE  Units(s) = Head(s) + Units(Tail(s))
BY UnitsIsSum, SumHeadTail

LEMMA UnitsRemoveAt ==
  ASSUME NEW s \in Seq(Nat), NEW i \in 1 .. Len(s)
  PROVE  RemoveAt(s, i) \in Seq(Nat) /\ Units(s) = Units(RemoveAt(s, i)) + s[i]
BY UnitsIsSum, SumRemoveAt

-----------------------------------------------------------------------------
(* The queue of chains.                                                    *)

LEMMA SizesAreNat == Sizes \subseteq Nat /\ Window \in Nat /\ Seq(Sizes) \subseteq Seq(Nat)
<1>1. Window \in Nat /\ Sizes \subseteq 1 .. Window
  BY ConstantsAssumption
<1>2. Sizes \subseteq Nat
  BY <1>1
<1>3. \A s \in Seq(Sizes) : s \in Seq(Nat)
  BY <1>2, SeqMonotonic
<1> QED BY <1>1, <1>2, <1>3

LEMMA QueuedEmpty == Queued(<< >>) = 0
BY UnitsEmpty DEF Queued, FlattenSeq

LEMMA QueuedAppend ==
  ASSUME NEW q \in Seq(Seq(Sizes)), NEW c \in Seq(Sizes)
  PROVE  Queued(Append(q, c)) = Queued(q) + Units(c)
<1>1. FlattenSeq(q) \in Seq(Nat) /\ c \in Seq(Nat)
  BY FlattenType, SizesAreNat
<1>2. FlattenSeq(Append(q, c)) = FlattenSeq(q) \o c
  BY FlattenAppend
<1>3. Units(FlattenSeq(q) \o c) = Units(FlattenSeq(q)) + Units(c)
  BY <1>1, UnitsConcat
<1> QED BY <1>2, <1>3 DEF Queued

LEMMA QueuedHeadTail ==
  ASSUME NEW q \in Seq(Seq(Sizes)), q # << >>
  PROVE  Queued(q) = Units(Head(q)) + Queued(Tail(q))
<1>1. Head(q) \in Seq(Sizes) /\ Tail(q) \in Seq(Seq(Sizes))
  BY HeadTailProperties
<1>2. Head(q) \in Seq(Nat) /\ FlattenSeq(Tail(q)) \in Seq(Nat)
  BY <1>1, FlattenType, SizesAreNat
<1> QED BY <1>2, FlattenHeadTail, UnitsConcat DEF Queued

LEMMA QueuedType == \A q \in Seq(Seq(Sizes)) : Queued(q) \in Nat
BY FlattenType, SizesAreNat, UnitsType DEF Queued

LEMMA ChainUnits ==
  ASSUME NEW c \in Chains
  PROVE  c \in Seq(Sizes) /\ Units(c) \in Nat
<1>1. c \in Seq(Sizes)
  <2>1. ASSUME NEW a \in Sizes, NEW b \in Sizes
        PROVE  <<a>> \in Seq(Sizes) /\ <<a, b>> \in Seq(Sizes)
    OBVIOUS
  <2>2. (\E a \in Sizes : c = <<a>>) \/ (\E a \in Sizes : \E b \in Sizes : c = <<a, b>>)
    BY DEF Chains
  <2> QED BY <2>1, <2>2
<1> QED BY <1>1, SizesAreNat, UnitsType

-----------------------------------------------------------------------------
(* The inductive invariant.                                                *)

RecordTypes ==
  /\ net \in [pcb : {"open", "closed"}, win : 0 .. Window, q : Seq(Seq(Sizes))]
  /\ rcv \in [at : {"idle", "loop", "call"}, rest : Seq(Sizes), cur : Sizes \cup {0},
              later : BOOLEAN, ackLen : Nat]
  /\ ackLen \in Nat
  /\ held \in Seq(Sizes)
  /\ hist \in [mode : Modes, dials : 1 .. Dials, close : {"none", "fin", "cut", "rst"},
               stale : BOOLEAN]

\* _recv has nothing in its hands between two events, and no count between two
\* pbufs; without a pcb there are no events.
DeliveryInv ==
  /\ rcv.at = "idle" => rcv.rest = << >>
  /\ rcv.at # "call" => rcv.ackLen = 0
  /\ rcv.ackLen \in {0, rcv.cur}
  /\ net.pcb # "open" => net.q = << >>

\* What was taken out of the queue and not given back.
Owed == Units(rcv.rest) + rcv.ackLen + ackLen + Units(held)
Total == net.win + Queued(net.q) + Owed

\* Each connection can leave one window of counted or held bytes behind.
Cap == hist.dials * Window

\* What earlier connections left is on top of the window.
CreditInv ==
  /\ Owed <= Cap
  /\ net.pcb = "open" =>
       Window <= Total /\ Total <= Cap /\ (~hist.stale => Total = Window)

RecvInv == RecordTypes /\ DeliveryInv /\ CreditInv /\ CloseIsGraceful

LEMMA NatFacts ==
  ASSUME RecordTypes
  PROVE  /\ Units(rcv.rest) \in Nat /\ rcv.ackLen \in Nat /\ ackLen \in Nat /\ Units(held) \in Nat
         /\ net.win \in Nat /\ Queued(net.q) \in Nat /\ Window \in Nat \ {0}
         /\ Cap \in Nat /\ Window <= Cap /\ hist.dials \in Nat
<1>1. rcv.rest \in Seq(Nat) /\ held \in Seq(Nat) /\ net.q \in Seq(Seq(Sizes))
  BY SizesAreNat DEF RecordTypes
<1>2. Units(rcv.rest) \in Nat /\ Units(held) \in Nat /\ Queued(net.q) \in Nat
  BY <1>1, UnitsType, QueuedType
<1>3. hist.dials \in 1 .. Dials /\ Dials \in Nat /\ Window \in Nat \ {0}
  BY ConstantsAssumption DEF RecordTypes
<1>4. net.win \in 0 .. Window /\ rcv.ackLen \in Nat /\ ackLen \in Nat
  BY DEF RecordTypes
<1>5. \A d \in Nat \ {0}, w \in Nat : d * w \in Nat /\ w <= d * w
  OBVIOUS
<1>6. hist.dials \in Nat \ {0}
  BY <1>3
<1>7. Cap \in Nat /\ Window <= Cap
  BY <1>3, <1>5, <1>6 DEF Cap
<1> QED BY <1>2, <1>3, <1>4, <1>6, <1>7

LEMMA RecvedIs ==
  ASSUME NEW n \in [pcb : {"open", "closed"}, win : 0 .. Window, q : Seq(Seq(Sizes))],
         NEW len \in Nat
  PROVE  /\ Recved(n, len) \in [pcb : {"open", "closed"}, win : 0 .. Window, q : Seq(Seq(Sizes))]
         /\ Recved(n, len).pcb = n.pcb /\ Recved(n, len).q = n.q
         /\ Recved(n, len).win = IF n.pcb # "open" THEN n.win
                                 ELSE IF n.win + len > Window THEN Window ELSE n.win + len
<1>1. Window \in Nat
  BY ConstantsAssumption
<1>2. CASE n.pcb # "open"
  BY <1>2 DEF Recved
<1>3. CASE n.pcb = "open"
  <2> DEFINE w == IF n.win + len > Window THEN Window ELSE n.win + len
  <2>1. Recved(n, len) = [n EXCEPT !.win = w]
    BY <1>3 DEF Recved
  <2>2. w \in 0 .. Window
    BY <1>1
  <2> HIDE DEF w
  <2>3. /\ [n EXCEPT !.win = w] \in [pcb : {"open", "closed"}, win : 0 .. Window, q : Seq(Seq(Sizes))]
        /\ [n EXCEPT !.win = w].pcb = n.pcb /\ [n EXCEPT !.win = w].q = n.q
        /\ [n EXCEPT !.win = w].win = w
    BY <2>2
  <2> QED BY <1>3, <2>1, <2>3 DEF w
<1> QED BY <1>2, <1>3

LEMMA InitRecv == Init => RecvInv
<1> SUFFICES ASSUME Init PROVE RecvInv
  OBVIOUS
<1>1. Window \in Nat \ {0} /\ Dials \in Nat \ {0} /\ 1 \in 1 .. Dials /\ Window \in 0 .. Window
  BY ConstantsAssumption
<1>2. RecordTypes
  BY <1>1 DEF Init, RecordTypes, Fresh, Idle
<1>3. DeliveryInv /\ CloseIsGraceful
  BY DEF Init, DeliveryInv, Idle, Fresh, CloseIsGraceful
<1>4. Units(rcv.rest) = 0 /\ rcv.ackLen = 0 /\ ackLen = 0 /\ Units(held) = 0 /\ Queued(net.q) = 0
      /\ net.win = Window /\ hist.dials = 1
  BY UnitsEmpty, QueuedEmpty DEF Init, Fresh, Idle
<1>5. Cap = Window /\ Owed = 0 /\ Total = Window
  BY <1>1, <1>4 DEF Cap, Owed, Total
<1> QED BY <1>1, <1>2, <1>3, <1>5 DEF RecvInv, CreditInv

-----------------------------------------------------------------------------
(* The steps.                                                              *)

LEMMA PeerSendStep ==
  ASSUME RecvInv, PeerSend
  PROVE  RecvInv'
<1>1. PICK c \in Chains :
        Units(c) <= net.win /\ net' = [net EXCEPT !.win = @ - Units(c), !.q = Append(@, c)]
  BY DEF PeerSend
<1>2. net.pcb = "open" /\ UNCHANGED <<rcv, ackLen, held, hist>>
  BY DEF PeerSend
<1>3. RecordTypes /\ net.q \in Seq(Seq(Sizes)) /\ net.win \in 0 .. Window
  BY DEF RecvInv, RecordTypes
<1>4. c \in Seq(Sizes) /\ Units(c) \in Nat
  BY ChainUnits
<1>5. net'.pcb = "open" /\ net'.win = net.win - Units(c) /\ net'.q = Append(net.q, c)
  BY <1>1, <1>2, <1>3 DEF RecordTypes
<1>6. Append(net.q, c) \in Seq(Seq(Sizes)) /\ net.win - Units(c) \in 0 .. Window
  BY <1>1, <1>3, <1>4, NatFacts
<1>7. RecordTypes'
  <2>1. net' \in [pcb : {"open", "closed"}, win : 0 .. Window, q : Seq(Seq(Sizes))]
    BY <1>1, <1>3, <1>6 DEF RecordTypes
  <2> QED BY <1>2, <1>3, <2>1 DEF RecordTypes
<1>8. DeliveryInv' /\ CloseIsGraceful'
  BY <1>2, <1>5 DEF RecvInv, DeliveryInv, CloseIsGraceful
<1>9. Queued(net'.q) = Queued(net.q) + Units(c)
  BY <1>3, <1>4, <1>5, QueuedAppend
<1>10. Owed' = Owed /\ Cap' = Cap /\ hist'.stale = hist.stale
  BY <1>2 DEF Owed, Cap
<1>11. Owed \in Nat
  BY <1>3, NatFacts DEF Owed
<1>12. Total' = Total
  <2>1. (net.win - Units(c)) + (Queued(net.q) + Units(c)) + Owed = net.win + Queued(net.q) + Owed
    BY <1>3, <1>4, <1>11, NatFacts
  <2> QED BY <1>5, <1>9, <1>10, <2>1 DEF Total
<1>13. CreditInv'
  BY <1>2, <1>10, <1>12 DEF RecvInv, CreditInv
<1> QED BY <1>7, <1>8, <1>13 DEF RecvInv

LEMMA PeerFinStep ==
  ASSUME RecvInv, PeerFin
  PROVE  RecvInv'
<1>1. /\ net.pcb = "open" /\ net' = [net EXCEPT !.q = Append(@, << >>)]
      /\ UNCHANGED <<rcv, ackLen, held, hist>>
  BY DEF PeerFin
<1>2. RecordTypes /\ net.q \in Seq(Seq(Sizes)) /\ << >> \in Seq(Sizes)
  BY DEF RecvInv, RecordTypes
<1>3. net'.pcb = net.pcb /\ net'.win = net.win /\ net'.q = Append(net.q, << >>)
  BY <1>1, <1>2 DEF RecordTypes
<1>9. Append(net.q, << >>) \in Seq(Seq(Sizes))
  BY <1>2, AppendProperties
<1>4. RecordTypes'
  <2>1. net' \in [pcb : {"open", "closed"}, win : 0 .. Window, q : Seq(Seq(Sizes))]
    BY <1>1, <1>2, <1>9 DEF RecordTypes
  <2> QED BY <1>1, <1>2, <2>1 DEF RecordTypes
<1>5. DeliveryInv' /\ CloseIsGraceful'
  BY <1>1, <1>3 DEF RecvInv, DeliveryInv, CloseIsGraceful
<1>6. Queued(net'.q) = Queued(net.q)
  <2>1. Queued(Append(net.q, << >>)) = Queued(net.q) + 0
    BY <1>2, QueuedAppend, UnitsEmpty
  <2> QED BY <1>2, <1>3, <2>1, NatFacts
<1>7. Owed' = Owed /\ Cap' = Cap /\ hist'.stale = hist.stale
  BY <1>1 DEF Owed, Cap
<1>8. Total' = Total
  BY <1>3, <1>6, <1>7 DEF Total
<1> QED BY <1>1, <1>3, <1>4, <1>5, <1>7, <1>8 DEF RecvInv, CreditInv

LEMMA PeerResetStep ==
  ASSUME RecvInv, PeerReset
  PROVE  RecvInv'
<1>1. /\ net' = [net EXCEPT !.pcb = "closed", !.q = << >>]
      /\ UNCHANGED <<rcv, ackLen, held, hist>>
  BY DEF PeerReset
<1>2. RecordTypes /\ << >> \in Seq(Seq(Sizes))
  BY DEF RecvInv
<1>3. net'.pcb = "closed" /\ net'.q = << >>
  BY <1>1, <1>2 DEF RecordTypes
<1>4. RecordTypes'
  <2>1. net' \in [pcb : {"open", "closed"}, win : 0 .. Window, q : Seq(Seq(Sizes))]
    BY <1>1, <1>2 DEF RecordTypes
  <2> QED BY <1>1, <1>2, <2>1 DEF RecordTypes
<1>5. DeliveryInv' /\ CloseIsGraceful'
  BY <1>1, <1>3 DEF RecvInv, DeliveryInv, CloseIsGraceful
<1>6. Owed' = Owed /\ Cap' = Cap
  BY <1>1 DEF Owed, Cap
<1> QED BY <1>3, <1>4, <1>5, <1>6 DEF RecvInv, CreditInv

LEMMA TakeRecvStep ==
  ASSUME RecvInv, TakeRecv
  PROVE  RecvInv'
<1>1. /\ rcv.at = "idle" /\ net.q # << >> /\ rcv' = [Idle EXCEPT !.at = "loop", !.rest = Head(net.q)]
      /\ net' = [net EXCEPT !.q = Tail(@)] /\ UNCHANGED <<ackLen, held, hist>>
  BY DEF TakeRecv
<1>2. RecordTypes /\ net.q \in Seq(Seq(Sizes)) /\ DeliveryInv
  BY DEF RecvInv, RecordTypes
<1>3. Head(net.q) \in Seq(Sizes) /\ Tail(net.q) \in Seq(Seq(Sizes))
  BY <1>1, <1>2, HeadTailProperties
<1>4. net'.pcb = net.pcb /\ net'.win = net.win /\ net'.q = Tail(net.q)
  BY <1>1, <1>2 DEF RecordTypes
<1>5. rcv' = [at |-> "loop", rest |-> Head(net.q), cur |-> 0, later |-> FALSE, ackLen |-> 0]
  BY <1>1 DEF Idle
<1>6. RecordTypes'
  <2>1. net' \in [pcb : {"open", "closed"}, win : 0 .. Window, q : Seq(Seq(Sizes))]
    BY <1>1, <1>2, <1>3 DEF RecordTypes
  <2>2. rcv' \in [at : {"idle", "loop", "call"}, rest : Seq(Sizes), cur : Sizes \cup {0},
                  later : BOOLEAN, ackLen : Nat]
    BY <1>3, <1>5
  <2> QED BY <1>1, <1>2, <2>1, <2>2 DEF RecordTypes
<1>7. DeliveryInv' /\ CloseIsGraceful'
  <2>1. rcv'.at = "loop" /\ rcv'.ackLen = 0 /\ rcv'.rest = Head(net.q)
    BY <1>5
  <2>2. net.pcb = "open" /\ hist' = hist
    BY <1>1, <1>2 DEF DeliveryInv
  <2> QED BY <1>4, <2>1, <2>2 DEF RecvInv, DeliveryInv, CloseIsGraceful
<1> DEFINE h == Units(Head(net.q))
           t == Queued(Tail(net.q))
           u == Units(held)
<1>8. Queued(net.q) = h + t /\ h \in Nat /\ t \in Nat
  BY <1>1, <1>2, <1>3, QueuedHeadTail, QueuedType, UnitsType, SizesAreNat
<1>9. Units(rcv.rest) = 0 /\ rcv.ackLen = 0
  BY <1>1, <1>2, UnitsEmpty DEF DeliveryInv
<1>10. Owed' = h + 0 + ackLen + u /\ Total' = net.win + t + Owed'
  <2>1. rcv'.rest = Head(net.q) /\ rcv'.ackLen = 0
    BY <1>5
  <2> QED BY <1>1, <1>4, <2>1 DEF Owed, Total
<1>11. Cap' = Cap /\ hist'.stale = hist.stale /\ net.pcb = "open"
  BY <1>1, <1>2 DEF Cap, DeliveryInv
<1>12. Owed = 0 + 0 + ackLen + u /\ Total = net.win + (h + t) + Owed
  BY <1>8, <1>9 DEF Owed, Total
<1>13. u \in Nat /\ ackLen \in Nat /\ net.win \in Nat /\ Cap \in Nat
  BY <1>2, NatFacts
<1> HIDE DEF h, t, u
<1>14. Total' = Total /\ Owed' <= Total
  BY <1>8, <1>10, <1>12, <1>13
<1>15. Total <= Cap /\ Total \in Nat /\ Owed' \in Nat
  BY <1>8, <1>10, <1>11, <1>12, <1>13 DEF RecvInv, CreditInv
<1>16. CreditInv'
  <2>1. Owed' <= Cap
    BY <1>13, <1>14, <1>15
  <2> QED BY <1>4, <1>11, <1>14, <2>1 DEF RecvInv, CreditInv
<1> QED BY <1>6, <1>7, <1>16 DEF RecvInv

(* close(), from the FIN of the peer or from the application. *)
LEMMA ClosedStep ==
  ASSUME RecvInv, Closed, net.pcb = "open", UNCHANGED <<rcv, held>>
  PROVE  RecvInv'
<1> DEFINE n == Recved(net, Pending)
           answer == IF n.win = Window THEN "fin"
                     ELSE IF Undelivered + Units(held) = 0 THEN "cut" ELSE "rst"
<1>1. RecordTypes /\ net \in [pcb : {"open", "closed"}, win : 0 .. Window, q : Seq(Seq(Sizes))]
  BY DEF RecvInv, RecordTypes
<1>2. Pending \in Nat /\ Pending = ackLen + rcv.ackLen
  BY <1>1, NatFacts DEF Pending
<1>3. /\ n \in [pcb : {"open", "closed"}, win : 0 .. Window, q : Seq(Seq(Sizes))]
      /\ n.win = IF net.win + Pending > Window THEN Window ELSE net.win + Pending
  BY <1>1, <1>2, RecvedIs
<1>4. /\ net' = [n EXCEPT !.pcb = "closed", !.q = << >>] /\ ackLen' = 0
      /\ hist' = [hist EXCEPT !.stale = FALSE, !.close = answer]
  BY DEF Closed
<1>5. answer \in {"fin", "cut", "rst"}
  OBVIOUS
<1>6. answer # "cut"
  <2>1. SUFFICES ASSUME Undelivered + Units(held) = 0 PROVE n.win = Window
    OBVIOUS
  <2> DEFINE a == Queued(net.q)
             b == Units(rcv.rest)
             c == Units(held)
             x == rcv.ackLen
  <2>2. a + b + c = 0 /\ a \in Nat /\ b \in Nat /\ c \in Nat /\ x \in Nat /\ ackLen \in Nat
        /\ net.win \in 0 .. Window /\ Window \in Nat
    BY <1>1, <2>1, NatFacts DEF Undelivered
  <2>3. Window <= net.win + a + (b + x + ackLen + c)
    BY DEF RecvInv, CreditInv, Total, Owed
  <2>4. Pending = ackLen + x
    BY <1>2
  <2> HIDE DEF a, b, c, x, n
  <2> QED BY <1>3, <2>2, <2>3, <2>4
<1> HIDE DEF n, answer
<1>7. net'.pcb = "closed" /\ net'.q = << >>
      /\ net' \in [pcb : {"open", "closed"}, win : 0 .. Window, q : Seq(Seq(Sizes))]
  <2>1. << >> \in Seq(Seq(Sizes))
    OBVIOUS
  <2> QED BY <1>3, <1>4, <2>1
<1>8. hist' \in [mode : Modes, dials : 1 .. Dials, close : {"none", "fin", "cut", "rst"},
                 stale : BOOLEAN]
      /\ hist'.close = answer /\ hist'.dials = hist.dials
  BY <1>1, <1>4, <1>5 DEF RecordTypes
<1>9. RecordTypes'
  BY <1>1, <1>4, <1>7, <1>8 DEF RecordTypes
<1>10. DeliveryInv' /\ CloseIsGraceful'
  BY <1>6, <1>7, <1>8 DEF RecvInv, DeliveryInv, CloseIsGraceful
<1>11. Owed' <= Owed /\ Cap' = Cap /\ Owed' \in Nat /\ Owed \in Nat
  <2> DEFINE b == Units(rcv.rest)
             c == Units(held)
             x == rcv.ackLen
  <2>1. Owed' = b + x + 0 + c /\ Owed = b + x + ackLen + c
    BY <1>4 DEF Owed
  <2>2. b \in Nat /\ c \in Nat /\ x \in Nat /\ ackLen \in Nat
    BY <1>1, NatFacts
  <2>3. Cap' = Cap
    BY <1>8 DEF Cap
  <2> HIDE DEF b, c, x
  <2> QED BY <2>1, <2>2, <2>3
<1>12. CreditInv'
  <2>1. Owed <= Cap /\ Cap \in Nat
    BY <1>1, NatFacts DEF RecvInv, CreditInv
  <2>2. Owed' <= Cap'
    BY <1>11, <2>1
  <2> QED BY <1>7, <2>2 DEF CreditInv
<1> QED BY <1>9, <1>10, <1>12 DEF RecvInv

LEMMA TakeFinStep ==
  ASSUME RecvInv, TakeFin
  PROVE  RecvInv'
<1>1. net.pcb = "open" /\ Closed /\ UNCHANGED <<rcv, held>>
  <2>1. net.q # << >> /\ Closed /\ UNCHANGED <<rcv, held>>
    BY DEF TakeFin
  <2>2. net.pcb = "open"
    BY <2>1 DEF RecvInv, DeliveryInv
  <2> QED BY <2>1, <2>2
<1> QED BY <1>1, ClosedStep

LEMMA CloseStep ==
  ASSUME RecvInv, Close
  PROVE  RecvInv'
<1>1. net.pcb = "open" /\ Closed /\ UNCHANGED <<rcv, held>>
  BY DEF Close
<1> QED BY <1>1, ClosedStep

LEMMA NextPbufStep ==
  ASSUME RecvInv, NextPbuf
  PROVE  RecvInv'
<1>1. rcv.at = "loop" /\ UNCHANGED <<net, ackLen, hist>>
  BY DEF NextPbuf
<1>2. RecordTypes /\ DeliveryInv /\ rcv.ackLen = 0 /\ rcv.rest \in Seq(Sizes) /\ held \in Seq(Sizes)
  BY <1>1 DEF RecvInv, RecordTypes, DeliveryInv
<1>3. SUFFICES /\ rcv' \in [at : {"idle", "loop", "call"}, rest : Seq(Sizes), cur : Sizes \cup {0},
                            later : BOOLEAN, ackLen : Nat]
               /\ held' \in Seq(Sizes) /\ DeliveryInv' /\ Owed' = Owed
  <2>1. ASSUME Owed' = Owed PROVE CreditInv'
    <3>1. Total' = Total /\ Cap' = Cap
      BY <1>1, <2>1 DEF Total, Cap
    <3> QED BY <1>1, <2>1, <3>1 DEF RecvInv, CreditInv
  <2> QED BY <1>1, <1>2, <2>1 DEF RecvInv, RecordTypes, CloseIsGraceful
<1>4. CASE rcv.rest = << >>
  <2>1. rcv' = [at |-> "idle", rest |-> << >>, cur |-> 0, later |-> FALSE, ackLen |-> 0]
        /\ held' = held
    BY <1>1, <1>4 DEF NextPbuf, Idle
  <2>2. << >> \in Seq(Sizes)
    OBVIOUS
  <2>3. rcv' \in [at : {"idle", "loop", "call"}, rest : Seq(Sizes), cur : Sizes \cup {0},
                  later : BOOLEAN, ackLen : Nat]
    BY <2>1, <2>2
  <2>4. DeliveryInv'
    BY <1>1, <1>2, <2>1 DEF DeliveryInv
  <2>5. rcv'.rest = rcv.rest /\ rcv'.ackLen = rcv.ackLen
    BY <1>2, <1>4, <2>1
  <2> QED BY <1>1, <1>2, <2>1, <2>3, <2>4, <2>5 DEF Owed
<1>5. CASE rcv.rest # << >>
  <2> DEFINE b == Head(rcv.rest)
             t == Tail(rcv.rest)
             x == IF hist.mode = "data" THEN b ELSE 0
             u == Units(t)
             v == Units(held)
  <2>1. rcv' = [at |-> "call", rest |-> t, cur |-> b, later |-> FALSE, ackLen |-> x]
        /\ held' = IF hist.mode = "packet" THEN Append(held, b) ELSE held
    BY <1>1, <1>5 DEF NextPbuf
  <2>2. b \in Sizes /\ t \in Seq(Sizes) /\ Append(held, b) \in Seq(Sizes) /\ b \in Nat
    <3>1. b \in Sizes /\ t \in Seq(Sizes)
      BY <1>2, <1>5, HeadTailProperties
    <3> QED BY <1>2, <3>1, SizesAreNat, AppendProperties
  <2>3. hist.mode \in {"data", "packet"}
    BY <1>2, ConstantsAssumption DEF RecordTypes
  <2>4. u \in Nat /\ v \in Nat /\ ackLen \in Nat /\ t \in Seq(Nat) /\ held \in Seq(Nat)
    BY <1>2, <2>2, UnitsType, SizesAreNat DEF RecordTypes
  <2>5. Units(rcv.rest) = b + u
    BY <1>2, <1>5, UnitsHeadTail, SizesAreNat
  <2>6. Units(Append(held, b)) = v + b
    BY <2>2, <2>4, UnitsAppend
  <2>7. Owed = (b + u) + 0 + ackLen + v
    BY <1>2, <2>5 DEF Owed
  <2>8. Owed' = u + x + ackLen + Units(held')
    BY <1>1, <2>1 DEF Owed
  <2>9. Owed' = Owed
    <3>1. CASE hist.mode = "data"
      <4>1. x = b /\ held' = held
        BY <2>1, <3>1
      <4> HIDE DEF b, u, x, t
      <4>2. Units(held') = v
        BY <4>1
      <4> HIDE DEF v
      <4> QED BY <2>2, <2>4, <2>7, <2>8, <4>1, <4>2
    <3>2. CASE hist.mode = "packet"
      <4>1. x = 0 /\ held' = Append(held, b)
        BY <2>1, <3>2
      <4> HIDE DEF b, u, x, t
      <4>2. Units(held') = v + b
        BY <2>6, <4>1
      <4> HIDE DEF v
      <4> QED BY <2>2, <2>4, <2>7, <2>8, <4>1, <4>2
    <3> QED BY <2>3, <3>1, <3>2
  <2>10. x \in {0, b} /\ x \in Nat
    BY <2>2
  <2> HIDE DEF b, t, x, u, v
  <2>11. rcv' \in [at : {"idle", "loop", "call"}, rest : Seq(Sizes), cur : Sizes \cup {0},
                   later : BOOLEAN, ackLen : Nat]
    BY <2>1, <2>2, <2>10
  <2>12. DeliveryInv'
    BY <1>1, <1>2, <2>1, <2>10 DEF DeliveryInv
  <2>13. held' \in Seq(Sizes)
    BY <1>2, <2>1, <2>2
  <2> QED BY <2>9, <2>11, <2>12, <2>13
<1> QED BY <1>4, <1>5

(* What was owed goes to Recved, whoever gives it back. *)
LEMMA RecvedStep ==
  ASSUME RecvInv, NEW len \in Nat, net' = Recved(net, len), Owed = Owed' + len, Owed' \in Nat,
         UNCHANGED hist
  PROVE  /\ net' \in [pcb : {"open", "closed"}, win : 0 .. Window, q : Seq(Seq(Sizes))]
         /\ net'.pcb = net.pcb /\ net'.q = net.q
         /\ CreditInv' /\ CloseIsGraceful'
<1>1. RecordTypes /\ net \in [pcb : {"open", "closed"}, win : 0 .. Window, q : Seq(Seq(Sizes))]
  BY DEF RecvInv, RecordTypes
<1>2. /\ net' \in [pcb : {"open", "closed"}, win : 0 .. Window, q : Seq(Seq(Sizes))]
      /\ net'.pcb = net.pcb /\ net'.q = net.q
      /\ net'.win = IF net.pcb # "open" THEN net.win
                    ELSE IF net.win + len > Window THEN Window ELSE net.win + len
  BY <1>1, RecvedIs
<1>3. Cap' = Cap /\ hist'.stale = hist.stale /\ CloseIsGraceful'
  BY DEF Cap, RecvInv, CloseIsGraceful
<1> DEFINE a == Queued(net.q)
           w == Window
           x == net.win
           o == Owed'
<1>4. a \in Nat /\ w \in Nat /\ Cap \in Nat /\ x \in 0 .. w /\ o \in Nat /\ hist.stale \in BOOLEAN
  BY <1>1, NatFacts DEF RecordTypes
<1>5. Owed' <= Cap'
  <2>1. o + len <= Cap
    BY DEF RecvInv, CreditInv
  <2> HIDE DEF o
  <2>2. o <= Cap
    BY <1>4, <2>1
  <2> QED BY <1>3, <2>2 DEF o
<1>6. ASSUME net.pcb = "open"
      PROVE  Window <= Total' /\ Total' <= Cap' /\ (~hist'.stale => Total' = Window)
  <2>1. w <= x + a + (o + len) /\ x + a + (o + len) <= Cap
        /\ (~hist.stale => x + a + (o + len) = w)
    BY <1>6 DEF RecvInv, CreditInv, Total
  <2>2. Total' = (IF x + len > w THEN w ELSE x + len) + a + o
    BY <1>2, <1>6 DEF Total
  <2> HIDE DEF a, w, x, o
  <2>3. w <= Total' /\ Total' <= Cap /\ (~hist.stale => Total' = w)
    <3>1. w <= Total'
      BY <1>4, <2>1, <2>2
    <3>2. Total' <= Cap
      BY <1>4, <2>1, <2>2
    <3>3. ASSUME ~hist.stale PROVE Total' = w
      BY <1>4, <2>1, <2>2, <3>3
    <3> QED BY <3>1, <3>2, <3>3
  <2> QED BY <1>3, <2>3 DEF w
<1>7. CreditInv'
  BY <1>2, <1>5, <1>6 DEF CreditInv
<1> QED BY <1>2, <1>3, <1>7

LEMMA ReturnStep ==
  ASSUME RecvInv, Return
  PROVE  RecvInv'
<1>1. rcv.at = "call" /\ UNCHANGED <<held, hist>>
  BY DEF Return
<1>2. RecordTypes /\ DeliveryInv
  BY DEF RecvInv
<1> DEFINE a == Units(rcv.rest)
           x == rcv.ackLen
           v == Units(held)
<1>3. a \in Nat /\ x \in Nat /\ v \in Nat /\ ackLen \in Nat /\ Cap \in Nat /\ Window \in Nat
  BY <1>2, NatFacts
<1>4. Owed = a + x + ackLen + v /\ Cap' = Cap
  BY <1>1 DEF Owed, Cap
<1>5. CASE net.pcb # "open"
  <2>1. rcv' = [at |-> "idle", rest |-> << >>, cur |-> 0, later |-> FALSE, ackLen |-> 0]
        /\ UNCHANGED <<net, ackLen>>
    BY <1>5 DEF Return, Idle
  <2>2. << >> \in Seq(Sizes)
    OBVIOUS
  <2>3. rcv' \in [at : {"idle", "loop", "call"}, rest : Seq(Sizes), cur : Sizes \cup {0},
                  later : BOOLEAN, ackLen : Nat]
    BY <2>1, <2>2
  <2>4. RecordTypes'
    BY <1>1, <1>2, <2>1, <2>3 DEF RecordTypes
  <2>5. DeliveryInv' /\ CloseIsGraceful'
    BY <1>1, <1>2, <2>1 DEF RecvInv, DeliveryInv, CloseIsGraceful
  <2>6. Owed' = 0 + 0 + ackLen + v
    BY <1>1, <2>1, UnitsEmpty DEF Owed
  <2>7. Owed' <= Cap'
    <3>1. a + x + ackLen + v <= Cap
      BY <1>4 DEF RecvInv, CreditInv
    <3> HIDE DEF a, x, v
    <3> QED BY <1>3, <1>4, <2>6, <3>1
  <2>8. net'.pcb # "open"
    BY <1>5, <2>1
  <2> QED BY <2>4, <2>5, <2>7, <2>8 DEF RecvInv, CreditInv
<1>6. CASE net.pcb = "open"
  <2>1. /\ rcv' = [rcv EXCEPT !.at = "loop", !.cur = 0, !.ackLen = 0]
        /\ IF rcv.later THEN ackLen' = ackLen + rcv.ackLen /\ UNCHANGED net
           ELSE net' = Recved(net, rcv.ackLen) /\ UNCHANGED ackLen
    BY <1>6 DEF Return
  <2>2. /\ rcv' \in [at : {"idle", "loop", "call"}, rest : Seq(Sizes), cur : Sizes \cup {0},
                     later : BOOLEAN, ackLen : Nat]
        /\ rcv'.rest = rcv.rest /\ rcv'.ackLen = 0 /\ rcv'.at = "loop" /\ rcv'.cur = 0
    BY <1>2, <2>1 DEF RecordTypes
  <2>3. Owed' = a + 0 + ackLen' + v
    BY <1>1, <2>2 DEF Owed
  <2>4. CASE rcv.later
    <3>1. ackLen' = ackLen + x /\ net' = net
      BY <2>1, <2>4
    <3> HIDE DEF a, x, v
    <3>2. Owed' = Owed /\ ackLen' \in Nat
      BY <1>3, <1>4, <2>3, <3>1
    <3>3. Total' = Total
      BY <3>1, <3>2 DEF Total
    <3>4. CreditInv' /\ CloseIsGraceful'
      BY <1>1, <1>4, <3>1, <3>2, <3>3 DEF RecvInv, CreditInv, CloseIsGraceful
    <3>5. RecordTypes'
      BY <1>1, <1>2, <2>2, <3>1, <3>2 DEF RecordTypes
    <3>6. DeliveryInv'
      BY <1>2, <2>2, <3>1 DEF DeliveryInv
    <3> QED BY <3>4, <3>5, <3>6 DEF RecvInv
  <2>5. CASE ~rcv.later
    <3>1. ackLen' = ackLen /\ net' = Recved(net, x)
      BY <2>1, <2>5
    <3>2. Owed = Owed' + x /\ Owed' \in Nat
      <4> HIDE DEF a, x, v
      <4> QED BY <1>3, <1>4, <2>3, <3>1
    <3>3. /\ net' \in [pcb : {"open", "closed"}, win : 0 .. Window, q : Seq(Seq(Sizes))]
          /\ net'.pcb = net.pcb /\ net'.q = net.q /\ CreditInv' /\ CloseIsGraceful'
      <4> HIDE DEF x
      <4> QED BY <1>1, <1>3, <3>1, <3>2, RecvedStep
    <3>4. RecordTypes'
      BY <1>1, <1>2, <2>2, <3>1, <3>3 DEF RecordTypes
    <3>5. DeliveryInv'
      BY <1>2, <2>2, <3>3 DEF DeliveryInv
    <3> QED BY <3>3, <3>4, <3>5 DEF RecvInv
  <2> QED BY <2>4, <2>5
<1> QED BY <1>5, <1>6

LEMMA AckStep ==
  ASSUME RecvInv, NEW n \in 1 .. Window, Ack(n)
  PROVE  RecvInv'
<1> DEFINE len == IF n > ackLen THEN ackLen ELSE n
           a == Units(rcv.rest)
           x == rcv.ackLen
           v == Units(held)
<1>1. net' = Recved(net, len) /\ ackLen' = ackLen - len /\ UNCHANGED <<rcv, held, hist>>
  BY DEF Ack
<1>2. RecordTypes /\ DeliveryInv
  BY DEF RecvInv
<1>3. a \in Nat /\ x \in Nat /\ v \in Nat /\ ackLen \in Nat /\ Window \in Nat
  BY <1>2, NatFacts
<1>4. Owed = a + x + ackLen + v /\ Owed' = a + x + ackLen' + v
  BY <1>1 DEF Owed
<1> HIDE DEF a, x, v
<1>5. len \in Nat /\ ackLen - len \in Nat
  BY <1>3
<1> HIDE DEF len
<1>6. Owed = Owed' + len /\ Owed' \in Nat
  BY <1>1, <1>3, <1>4, <1>5
<1>7. /\ net' \in [pcb : {"open", "closed"}, win : 0 .. Window, q : Seq(Seq(Sizes))]
      /\ net'.pcb = net.pcb /\ net'.q = net.q /\ CreditInv' /\ CloseIsGraceful'
  BY <1>1, <1>5, <1>6, RecvedStep
<1>8. RecordTypes'
  BY <1>1, <1>2, <1>5, <1>7 DEF RecordTypes
<1>9. DeliveryInv'
  BY <1>1, <1>2, <1>7 DEF DeliveryInv
<1> QED BY <1>7, <1>8, <1>9 DEF RecvInv

LEMMA AckLaterStep ==
  ASSUME RecvInv, AckLater
  PROVE  RecvInv'
<1>1. rcv.at = "call" /\ rcv' = [rcv EXCEPT !.later = TRUE] /\ UNCHANGED <<net, ackLen, held, hist>>
  BY DEF AckLater
<1>2. RecordTypes /\ DeliveryInv
  BY DEF RecvInv
<1>3. /\ rcv' \in [at : {"idle", "loop", "call"}, rest : Seq(Sizes), cur : Sizes \cup {0},
                   later : BOOLEAN, ackLen : Nat]
      /\ rcv'.rest = rcv.rest /\ rcv'.ackLen = rcv.ackLen /\ rcv'.at = rcv.at /\ rcv'.cur = rcv.cur
  BY <1>1, <1>2 DEF RecordTypes
<1>4. RecordTypes'
  BY <1>1, <1>2, <1>3 DEF RecordTypes
<1>5. DeliveryInv' /\ CloseIsGraceful'
  BY <1>1, <1>2, <1>3 DEF RecvInv, DeliveryInv, CloseIsGraceful
<1>6. Owed' = Owed /\ Cap' = Cap
  BY <1>1, <1>3 DEF Owed, Cap
<1>7. Total' = Total
  BY <1>1, <1>6 DEF Total
<1>8. CreditInv'
  BY <1>1, <1>6, <1>7 DEF RecvInv, CreditInv
<1> QED BY <1>4, <1>5, <1>8 DEF RecvInv

LEMMA AckPacketStep ==
  ASSUME RecvInv, AckPacket
  PROVE  RecvInv'
<1>1. PICK i \in 1 .. Len(held) : net' = Recved(net, held[i]) /\ held' = RemoveAt(held, i)
  BY DEF AckPacket
<1>2. UNCHANGED <<rcv, ackLen, hist>>
  BY DEF AckPacket
<1>3. RecordTypes /\ DeliveryInv /\ held \in Seq(Sizes) /\ held \in Seq(Nat)
  BY SizesAreNat DEF RecvInv, RecordTypes
<1> DEFINE a == Units(rcv.rest)
           x == rcv.ackLen
           len == held[i]
           r == RemoveAt(held, i)
<1>4. len \in Nat /\ Units(held) = Units(r) + len /\ r \in Seq(Nat) /\ Units(r) \in Nat
  <2>1. r \in Seq(Nat) /\ Units(held) = Units(r) + len
    BY <1>3, UnitsRemoveAt
  <2> QED BY <1>3, <2>1, UnitsType
<1>5. r \in Seq(Sizes)
  BY <1>3 DEF RemoveAt
<1>6. a \in Nat /\ x \in Nat /\ ackLen \in Nat
  BY <1>3, NatFacts
<1>7. Owed = a + x + ackLen + Units(held) /\ Owed' = a + x + ackLen + Units(r)
  BY <1>1, <1>2 DEF Owed
<1>8. Owed = Owed' + len /\ Owed' \in Nat
  <2> HIDE DEF a, x, len, r
  <2> QED BY <1>4, <1>6, <1>7
<1> HIDE DEF a, x, len, r
<1>9. net' = Recved(net, len) /\ held' = r
  BY <1>1 DEF len, r
<1>10. /\ net' \in [pcb : {"open", "closed"}, win : 0 .. Window, q : Seq(Seq(Sizes))]
       /\ net'.pcb = net.pcb /\ net'.q = net.q /\ CreditInv' /\ CloseIsGraceful'
  BY <1>2, <1>4, <1>8, <1>9, RecvedStep
<1>11. RecordTypes'
  BY <1>2, <1>3, <1>5, <1>9, <1>10 DEF RecordTypes
<1>12. DeliveryInv'
  BY <1>2, <1>3, <1>10 DEF DeliveryInv
<1> QED BY <1>10, <1>11, <1>12 DEF RecvInv

(* What the connection that ended left is on top of the new window. *)
LEMMA ReconnectStep ==
  ASSUME RecvInv, Reconnect
  PROVE  RecvInv'
<1> DEFINE b == ackLen > 0 \/ held # << >>
           v == Units(held)
           o == ackLen + v
<1>1. /\ rcv.at = "idle" /\ hist.dials < Dials
      /\ net' = [pcb |-> "open", win |-> Window, q |-> << >>]
      /\ hist' = [hist EXCEPT !.dials = @ + 1, !.close = "none", !.stale = b]
      /\ UNCHANGED <<rcv, ackLen, held>>
  BY DEF Reconnect, Fresh
<1>2. RecordTypes /\ DeliveryInv
  BY DEF RecvInv
<1>3. Window \in Nat \ {0} /\ Dials \in Nat /\ hist.dials \in 1 .. Dials /\ ackLen \in Nat
      /\ v \in Nat /\ Cap \in Nat
  BY <1>2, ConstantsAssumption, NatFacts DEF RecordTypes
<1>4. /\ hist' \in [mode : Modes, dials : 1 .. Dials, close : {"none", "fin", "cut", "rst"},
                    stale : BOOLEAN]
      /\ hist'.dials = hist.dials + 1 /\ hist'.close = "none" /\ hist'.stale = b
  <2> DEFINE d == hist.dials + 1
  <2>1. d \in 1 .. Dials /\ b \in BOOLEAN
    BY <1>1, <1>3
  <2>2. hist' = [hist EXCEPT !.dials = d, !.close = "none", !.stale = b]
    BY <1>1
  <2> HIDE DEF d, b
  <2>3. /\ hist' \in [mode : Modes, dials : 1 .. Dials, close : {"none", "fin", "cut", "rst"},
                       stale : BOOLEAN]
        /\ hist'.dials = d /\ hist'.close = "none" /\ hist'.stale = b
    BY <1>2, <2>1, <2>2 DEF RecordTypes
  <2> QED BY <2>3 DEF d, b
<1>5. RecordTypes'
  <2>1. << >> \in Seq(Seq(Sizes)) /\ Window \in 0 .. Window
    BY <1>3
  <2>2. net' \in [pcb : {"open", "closed"}, win : 0 .. Window, q : Seq(Seq(Sizes))]
    BY <1>1, <2>1
  <2> QED BY <1>1, <1>2, <1>4, <2>2 DEF RecordTypes
<1>6. DeliveryInv' /\ CloseIsGraceful'
  <2>1. net'.pcb = "open"
    BY <1>1
  <2> QED BY <1>1, <1>2, <1>4, <2>1 DEF DeliveryInv, CloseIsGraceful
<1>7. Owed = o /\ Owed' = o
  <2>1. Units(rcv.rest) = 0 /\ rcv.ackLen = 0
    BY <1>1, <1>2, UnitsEmpty DEF DeliveryInv
  <2>2. Owed = 0 + 0 + ackLen + v /\ Owed' = 0 + 0 + ackLen + v
    BY <1>1, <2>1 DEF Owed
  <2> HIDE DEF v
  <2> QED BY <1>3, <2>2
<1>8. Cap' = Cap + Window
  <2>1. Cap' = (hist.dials + 1) * Window /\ Cap = hist.dials * Window
    BY <1>4 DEF Cap
  <2>2. hist.dials \in Nat
    BY <1>3
  <2>3. \A d, w \in Nat : (d + 1) * w = d * w + w
    OBVIOUS
  <2> QED BY <1>3, <2>1, <2>2, <2>3
<1>9. Total' = Window + o /\ o \in Nat
  <2>1. net'.win = Window /\ net'.q = << >>
    BY <1>1
  <2> QED BY <1>3, <1>7, <2>1, QueuedEmpty DEF Total
<1>10. o <= Cap
  BY <1>7 DEF RecvInv, CreditInv
<1>12. ~b => o = 0
  BY <1>3, UnitsEmpty
<1>11. CreditInv'
  <2>1. Owed' <= Cap' /\ Window <= Total' /\ Total' <= Cap'
    <3> HIDE DEF o
    <3> QED BY <1>3, <1>7, <1>8, <1>9, <1>10
  <2>2. ~hist'.stale => Total' = Window
    <3> HIDE DEF o, b
    <3> QED BY <1>3, <1>4, <1>9, <1>12
  <2> QED BY <2>1, <2>2 DEF CreditInv
<1> QED BY <1>5, <1>6, <1>11 DEF RecvInv

LEMMA RecvInvariant == Spec => []RecvInv
<1>1. RecvInv /\ [Next]_vars => RecvInv'
  <2> SUFFICES ASSUME RecvInv, [Next]_vars PROVE RecvInv'
    OBVIOUS
  <2>1. CASE UNCHANGED vars
    BY <2>1 DEF vars, RecvInv, RecordTypes, DeliveryInv, CreditInv, CloseIsGraceful, Owed, Total, Cap
  <2>2. CASE Service
    BY <2>2, TakeRecvStep, TakeFinStep, NextPbufStep, ReturnStep DEF Service
  <2>3. CASE Application
    BY <2>3, AckLaterStep, AckPacketStep, CloseStep, ReconnectStep, AckStep DEF Application
  <2> QED BY <2>1, <2>2, <2>3, PeerSendStep, PeerFinStep, PeerResetStep DEF Next
<1> QED BY <1>1, InitRecv, PTL DEF Spec

-----------------------------------------------------------------------------

(* The counters stay in range: _rx_ack_len does not wrap below zero, and does *)
(* not grow past one window for each connection that was made.              *)
THEOREM TypeCorrect == Spec => []TypeOK
<1>1. RecvInv => TypeOK
  <2> SUFFICES ASSUME RecvInv PROVE TypeOK
    OBVIOUS
  <2>1. RecordTypes
    BY DEF RecvInv
  <2>2. ackLen \in 0 .. Dials * Window
    <3>1. ackLen <= Owed /\ Owed \in Nat
      <4> DEFINE a == Units(rcv.rest)
                 x == rcv.ackLen
                 v == Units(held)
      <4>1. Owed = a + x + ackLen + v /\ a \in Nat /\ x \in Nat /\ v \in Nat /\ ackLen \in Nat
        BY <2>1, NatFacts DEF Owed
      <4> HIDE DEF a, x, v
      <4> QED BY <4>1
    <3>2. \A d, e, w \in Nat : d <= e => d * w <= e * w /\ e * w \in Nat
      OBVIOUS
    <3>3. hist.dials \in 1 .. Dials /\ Dials \in Nat /\ Window \in Nat /\ ackLen \in Nat
      BY <2>1, ConstantsAssumption DEF RecordTypes
    <3>4. Cap <= Dials * Window /\ Dials * Window \in Nat /\ Cap \in Nat
      <4>1. hist.dials \in Nat /\ hist.dials <= Dials
        BY <3>3
      <4> QED BY <2>1, <3>2, <3>3, <4>1, NatFacts DEF Cap
    <3>5. Owed <= Cap
      BY DEF RecvInv, CreditInv
    <3> QED BY <3>1, <3>3, <3>4, <3>5
  <2> QED BY <2>1, <2>2 DEF RecvInv, TypeOK, RecordTypes, DeliveryInv
<1> QED BY <1>1, RecvInvariant, PTL

(* Each unit that the peer sent is queued, in delivery, counted for later,  *)
(* held by the application or back in the window, exactly once.             *)
THEOREM CreditIsConserved == Spec => []CreditConserved
<1>1. RecvInv => CreditConserved
  <2> SUFFICES ASSUME RecvInv, net.pcb = "open", ~hist.stale
               PROVE  net.win + Queued(net.q) + Units(rcv.rest) + rcv.ackLen + ackLen + Units(held)
                        = Window
    BY DEF CreditConserved
  <2> DEFINE a == Units(rcv.rest)
             b == Queued(net.q)
             x == rcv.ackLen
             v == Units(held)
             w == net.win
  <2>1. w + b + (a + x + ackLen + v) = Window
    BY DEF RecvInv, CreditInv, Total, Owed
  <2>2. a \in Nat /\ b \in Nat /\ x \in Nat /\ v \in Nat /\ w \in Nat /\ ackLen \in Nat
    BY NatFacts DEF RecvInv
  <2> HIDE DEF a, b, x, v, w
  <2>3. w + b + a + x + ackLen + v = Window
    BY <2>1, <2>2
  <2> QED BY <2>3 DEF a, b, x, v, w
<1> QED BY <1>1, RecvInvariant, PTL

(* close() finds the window whole when all that arrived was delivered and    *)
(* given back or put off: what the connection sent last is not cut by a reset. *)
THEOREM ClosesGracefully == Spec => []CloseIsGraceful
<1>1. RecvInv => CloseIsGraceful
  BY DEF RecvInv
<1> QED BY <1>1, RecvInvariant, PTL
=============================================================================
