-------------------------- MODULE PollTimersProofs --------------------------
(***************************************************************************)
(* The timeouts of PollTimers are right for every width of the clock, every *)
(* timeout and every interval of the polls.                                 *)
(*                                                                         *)
(* The invariant says what the unsigned differences mean: as long as less   *)
(* than the clock's range has gone by, the difference of two stamps is the  *)
(* true time between them.                                                  *)
(***************************************************************************)
EXTENDS PollTimers, TLAPS

\* The stamp of the last send that stands: one that fails takes its own back.
Tx == IF out = Wrap THEN stamp.tx ELSE out

\* The stamps tell the true times, unless the clock went round since.
StampsTell ==
  /\ past.idle < Wrap => Minus(now, stamp.rx) = past.idle
  /\ past.since < Wrap => Minus(now, Tx) = past.since
  /\ past.answer < Wrap => Minus(now, stamp.ack) = past.answer

\* So do those of the last send and the last answer.
OrderTold ==
  past.dist < Wrap =>
    IF past.owed THEN Minus(Tx, stamp.ack) = past.dist ELSE Minus(stamp.ack, Tx) = past.dist

\* While POLL is handled, its time is that of its beginning; what the handler
\* finds younger was stamped since, which only happens with threads.
PollTold ==
  poll.at # "idle" =>
    /\ Minus(now, poll.n) = past.polled
    /\ ~past.raced => /\ Minus(poll.n, stamp.rx) <= past.idle
                      /\ Minus(poll.n, Tx) <= past.since
    /\ net.plat = "coop" => ~past.raced /\ out = Wrap

\* At most two intervals of the polls pass before silence is noticed.
SilenceBounded ==
  net.open /\ NoTimeoutDue =>
    past.idle < RxTimeout + past.polled + (IF poll.at = "idle" THEN 0 ELSE PollEvery)

TimerInv == TypeOK /\ StampsTell /\ OrderTold /\ PollTold /\ SilenceBounded

-----------------------------------------------------------------------------
(* Unsigned arithmetic.                                                    *)

\* A remainder is taken once.
LEMMA ModOnce ==
  ASSUME NEW x \in Nat, x < 2 * Wrap
  PROVE  x % Wrap = IF x < Wrap THEN x ELSE x - Wrap
<1>1. Wrap \in Nat \ {0}
  BY ConstantsAssumption
<1>2. CASE x < Wrap
  <2>1. x \in 0 .. Wrap - 1
    BY <1>1, <1>2
  <2> QED
    BY <1>1, <1>2, <2>1
<1>3. CASE x >= Wrap
  <2>1. x \in Wrap .. 2 * Wrap - 1
    BY <1>1, <1>3
  <2> QED
    BY <1>1, <1>3, <2>1
<1> QED
  BY <1>1, <1>2, <1>3

\* Minus is the difference, with one turn of the clock added if it is negative.
LEMMA MinusIs ==
  ASSUME NEW a \in Bits, NEW b \in Bits
  PROVE  /\ Minus(a, b) = IF a >= b THEN a - b ELSE a - b + Wrap
         /\ Minus(a, b) \in Bits
<1> DEFINE x == a - b + Wrap
<1>1. Wrap \in Nat /\ a \in Nat /\ b \in Nat /\ a < Wrap /\ b < Wrap
  BY ConstantsAssumption DEF Bits
<1>2. x \in Nat /\ x < 2 * Wrap
  BY <1>1
<1>3. Minus(a, b) = x % Wrap
  BY DEF Minus
<1> HIDE DEF x
<1>4. x % Wrap = IF x < Wrap THEN x ELSE x - Wrap
  BY <1>2, ModOnce
<1> QED
  BY <1>1, <1>3, <1>4 DEF Bits, x

\* The clock goes on by one, or to zero.
LEMMA NextIs ==
  ASSUME NEW a \in Bits
  PROVE  /\ (a + 1) % Wrap = IF a + 1 < Wrap THEN a + 1 ELSE 0
         /\ (a + 1) % Wrap \in Bits
<1> DEFINE x == a + 1
<1>1. Wrap \in Nat /\ 0 < Wrap /\ a \in Nat /\ a < Wrap
  BY ConstantsAssumption DEF Bits
<1>2. x \in Nat /\ x < 2 * Wrap
  BY <1>1
<1> SUFFICES x % Wrap = (IF x < Wrap THEN x ELSE 0) /\ x % Wrap \in Bits
  OBVIOUS
<1> HIDE DEF x
<1>3. x % Wrap = IF x < Wrap THEN x ELSE x - Wrap
  BY <1>2, ModOnce
<1> QED
  BY <1>1, <1>3 DEF Bits, x

\* The clock's next reading is one further from every stamp, but one.
LEMMA OneLater ==
  ASSUME NEW a \in Bits, NEW b \in Bits, Minus(a, b) + 1 < Wrap
  PROVE  Minus((a + 1) % Wrap, b) = Minus(a, b) + 1
<1> DEFINE next == (a + 1) % Wrap
<1>1. Wrap \in Nat /\ a \in Nat /\ b \in Nat /\ a < Wrap /\ b < Wrap
  BY ConstantsAssumption DEF Bits
<1>2. next = (IF a + 1 < Wrap THEN a + 1 ELSE 0) /\ next \in Bits
  BY NextIs
<1> HIDE DEF next
<1>3. Minus(next, b) = IF next >= b THEN next - b ELSE next - b + Wrap
  BY <1>2, MinusIs
<1>4. Minus(a, b) = IF a >= b THEN a - b ELSE a - b + Wrap
  BY MinusIs
<1>5. Minus(next, b) = Minus(a, b) + 1
  BY <1>1, <1>2, <1>3, <1>4
<1> QED
  BY <1>5 DEF next

\* What the window of a day tells: the last send came within a day of the last
\* answer, and not with it.
LEMMA AfterIs ==
  ASSUME NEW s, s.tx \in Bits, s.ack \in Bits
  PROVE  LastTxIsAfterLastAck(s) <=> Minus(s.tx, s.ack) \in 1 .. Day
<1> DEFINE x == s.ack + Day - s.tx + Wrap
<1>1. /\ Wrap \in Nat /\ Day \in Nat /\ 0 < Day /\ Day < Wrap
      /\ s.tx \in Nat /\ s.ack \in Nat /\ s.tx < Wrap /\ s.ack < Wrap
  BY ConstantsAssumption DEF Bits
<1>2. x \in Nat /\ x < 3 * Wrap
  BY <1>1
<1>3. Minus(s.tx, s.ack) = IF s.tx >= s.ack THEN s.tx - s.ack ELSE s.tx - s.ack + Wrap
  BY MinusIs
<1>4. CASE x < 2 * Wrap
  <2>1. x % Wrap = IF x < Wrap THEN x ELSE x - Wrap
    BY <1>2, <1>4, ModOnce
  <2> QED
    BY <1>1, <1>3, <1>4, <2>1 DEF LastTxIsAfterLastAck
<1>5. CASE x >= 2 * Wrap
  <2>1. x \in 2 * Wrap .. 3 * Wrap - 1 /\ Wrap \in Nat \ {0}
    BY <1>1, <1>2, <1>5
  <2>2. x % Wrap = x - 2 * Wrap
    BY ONLY <2>1
  <2> QED
    BY <1>1, <1>3, <1>5, <2>2 DEF LastTxIsAfterLastAck
<1> QED
  BY <1>1, <1>2, <1>4, <1>5

-----------------------------------------------------------------------------
(* The stamps are what their types say.                                    *)

LEMMA Constants ==
  /\ Wrap \in Nat /\ Day \in Nat /\ AckTimeout \in Nat /\ RxTimeout \in Nat /\ PollEvery \in Nat
  /\ 0 < Wrap /\ 0 < Day /\ 0 < AckTimeout /\ 0 < RxTimeout /\ 0 < PollEvery
  /\ Day < Wrap /\ AckTimeout < Wrap /\ RxTimeout + 2 * PollEvery <= Wrap
BY ConstantsAssumption

LEMMA TypeStep == TypeOK /\ [Next]_vars => TypeOK'
<1> SUFFICES ASSUME TypeOK, [Next]_vars
             PROVE  TypeOK'
  OBVIOUS
<1> USE DEF TypeOK
<1>0. 0 \in 0 .. Wrap /\ 0 \in 0 .. PollEvery /\ Wrap \in 0 .. Wrap /\ Bits \subseteq 0 .. Wrap
  BY Constants DEF Bits
<1>1. CASE Tick
  <2>1. now' \in Bits
    BY <1>1, NextIs DEF Tick
  <2>2. past' = [past EXCEPT !.idle = UpTo(@), !.polled = @ + 1, !.since = UpTo(@),
                             !.answer = UpTo(@)]
    BY <1>1 DEF Tick, Older
  <2>3. /\ \A n \in 0 .. Wrap : UpTo(n) \in 0 .. Wrap
        /\ \A n \in 0 .. PollEvery : n < PollEvery => n + 1 \in 0 .. PollEvery
    BY Constants DEF UpTo
  <2>4. past.polled \in 0 .. PollEvery /\ past.polled < PollEvery
    BY <1>1 DEF Tick
  <2>5. /\ UpTo(past.idle) \in 0 .. Wrap /\ UpTo(past.since) \in 0 .. Wrap
        /\ UpTo(past.answer) \in 0 .. Wrap
    BY <2>3
  <2>6. past.polled + 1 \in 0 .. PollEvery
    BY <2>3, <2>4
  <2>7. past' \in [idle : 0 .. Wrap, polled : 0 .. PollEvery, since : 0 .. Wrap,
                   answer : 0 .. Wrap, owed : BOOLEAN, dist : 0 .. Wrap, raced : BOOLEAN]
    BY <2>2, <2>5, <2>6
  <2> QED
    BY <1>1, <2>1, <2>7 DEF Tick
<1>2. CASE Arrive
  BY <1>0, <1>2 DEF Arrive, Race
<1>3. CASE Answer
  BY <1>0, <1>3 DEF Answer
<1>4. CASE Recv
  BY <1>0, <1>4 DEF Recv
<1>5. CASE Sent
  BY <1>0, <1>5 DEF Sent
<1>6. CASE Send
  BY <1>0, <1>6 DEF Send, Race
<1>7. CASE SendTry
  <2>1. stamp.tx \in 0 .. Wrap
    BY <1>0
  <2> QED
    BY <1>0, <1>7, <2>1 DEF SendTry, Race
<1>8. CASE SendFailed
  <2>1. out \in Bits
    BY <1>8, Constants DEF SendFailed, Bits
  <2> QED
    BY <1>0, <1>8, <2>1 DEF SendFailed, Race
<1>9. CASE PollBegin
  BY <1>0, <1>9 DEF PollBegin
<1>10. CASE PollAck
  BY <1>0, <1>10 DEF PollAck
<1>11. CASE PollRx
  BY <1>0, <1>11 DEF PollRx
<1>12. CASE UNCHANGED vars
  BY <1>12 DEF vars
<1> QED
  BY <1>1, <1>2, <1>3, <1>4, <1>5, <1>6, <1>7, <1>8, <1>9, <1>10, <1>11, <1>12 DEF Next

\* The clock and the stamps are 32 bit numbers, whatever is subtracted.
THEOREM TypeCorrect == Spec => []TypeOK
<1>1. Init => TypeOK
  BY Constants DEF Init, TypeOK, Bits
<1> QED
  BY <1>1, TypeStep, PTL DEF Spec

-----------------------------------------------------------------------------
(* What the stamps tell, action by action.                                 *)

LEMMA Fields ==
  ASSUME TypeOK
  PROVE  /\ now \in Bits /\ stamp.rx \in Bits /\ stamp.tx \in Bits /\ stamp.ack \in Bits
         /\ poll.n \in Bits /\ out \in 0 .. Wrap /\ Tx \in Bits
         /\ past.idle \in 0 .. Wrap /\ past.polled \in 0 .. PollEvery /\ past.since \in 0 .. Wrap
         /\ past.answer \in 0 .. Wrap /\ past.dist \in 0 .. Wrap
<1>1. \A n \in 0 .. Wrap : n # Wrap => n \in Bits
  BY Constants DEF Bits
<1> QED
  BY <1>1 DEF TypeOK, Tx

LEMMA Same == ASSUME NEW a \in Bits PROVE Minus(a, a) = 0
BY MinusIs, Constants DEF Bits

LEMMA TickKeeps ==
  ASSUME TimerInv, Tick
  PROVE  StampsTell' /\ OrderTold' /\ PollTold' /\ SilenceBounded'
<1> USE DEF TimerInv
<1>1. /\ now \in Bits /\ stamp.rx \in Bits /\ stamp.ack \in Bits /\ poll.n \in Bits /\ Tx \in Bits
      /\ past.idle \in 0 .. Wrap /\ past.polled \in 0 .. PollEvery /\ past.since \in 0 .. Wrap
      /\ past.answer \in 0 .. Wrap
  BY Fields
<1>2. /\ now' = (now + 1) % Wrap /\ past.polled < PollEvery
      /\ UNCHANGED <<stamp, net, poll, out, Tx>>
  BY DEF Tick, Tx
<1>3. /\ past'.idle = UpTo(past.idle) /\ past'.since = UpTo(past.since)
      /\ past'.answer = UpTo(past.answer) /\ past'.polled = past.polled + 1
      /\ past'.owed = past.owed /\ past'.dist = past.dist /\ past'.raced = past.raced
  BY DEF Tick, Older, TypeOK
<1>4. \A n \in 0 .. Wrap : /\ UpTo(n) < Wrap => n + 1 < Wrap /\ UpTo(n) = n + 1
                           /\ n <= UpTo(n) /\ UpTo(n) <= n + 1 /\ n \in Nat /\ UpTo(n) \in Nat
  BY Constants DEF UpTo
<1>5. \A b \in Bits, n \in 0 .. Wrap :
        (n < Wrap => Minus(now, b) = n) => (UpTo(n) < Wrap => Minus(now', b) = UpTo(n))
  <2> SUFFICES ASSUME NEW b \in Bits, NEW n \in 0 .. Wrap, n < Wrap => Minus(now, b) = n,
                      UpTo(n) < Wrap
               PROVE  Minus(now', b) = UpTo(n)
    OBVIOUS
  <2>1. n + 1 < Wrap /\ UpTo(n) = n + 1 /\ n < Wrap
    BY <1>4, Constants
  <2>2. Minus(now, b) = n
    BY <2>1
  <2> QED
    BY <1>1, <1>2, <2>1, <2>2, OneLater
<1>6. StampsTell'
  BY <1>1, <1>2, <1>3, <1>5 DEF StampsTell
<1>7. OrderTold'
  BY <1>2, <1>3 DEF OrderTold
<1>8. PollTold'
  <2> SUFFICES ASSUME poll.at # "idle"
               PROVE  /\ Minus(now', poll.n) = past'.polled
                      /\ ~past.raced => /\ Minus(poll.n, stamp.rx) <= past'.idle
                                        /\ Minus(poll.n, Tx) <= past'.since
                      /\ net.plat = "coop" => ~past.raced /\ out = Wrap
    BY <1>2, <1>3 DEF PollTold
  <2>1. Minus(now, poll.n) + 1 < Wrap /\ Minus(now, poll.n) = past.polled
    BY <1>1, <1>2, Constants DEF PollTold
  <2>2. Minus(now', poll.n) = past'.polled
    BY <1>1, <1>2, <1>3, <2>1, OneLater
  <2>3. past.idle <= past'.idle /\ past.since <= past'.since
    BY <1>1, <1>3, <1>4
  <2>4. Minus(poll.n, stamp.rx) \in Nat /\ Minus(poll.n, Tx) \in Nat
    <3>1. Minus(poll.n, stamp.rx) \in Bits /\ Minus(poll.n, Tx) \in Bits
      BY <1>1, MinusIs
    <3> QED
      BY ONLY <3>1, Constants DEF Bits
  <2>5. past'.idle \in Nat /\ past'.since \in Nat
    BY <1>1, <1>3, <1>4
  <2> QED
    BY <1>1, <2>2, <2>3, <2>4, <2>5 DEF PollTold
<1>9. SilenceBounded'
  <2>1. (NoTimeoutDue' <=> NoTimeoutDue) /\ net' = net /\ poll' = poll
    BY <1>2, <1>3 DEF NoTimeoutDue
  <2>2. past'.idle <= past.idle + 1 /\ past'.idle \in Nat
    BY <1>1, <1>3, <1>4
  <2> QED
    BY <1>1, <1>3, <2>1, <2>2, Constants DEF SilenceBounded
<1> QED
  BY <1>6, <1>7, <1>8, <1>9

LEMMA ArriveKeeps ==
  ASSUME TimerInv, Arrive
  PROVE  StampsTell' /\ OrderTold' /\ PollTold' /\ SilenceBounded'
<1> USE DEF TimerInv
<1>1. /\ now \in Bits /\ UNCHANGED <<now, poll, out, Tx>>
      /\ stamp'.rx = now /\ stamp'.ack = stamp.ack
      /\ net'.plat = net.plat /\ net'.cb = net.cb /\ net'.open = net.open
  BY DEF Arrive, TypeOK, Tx
<1>2. /\ past'.idle = 0 /\ past'.raced = (past.raced \/ poll.at # "idle")
      /\ past'.polled = past.polled /\ past'.since = past.since /\ past'.answer = past.answer
      /\ past'.owed = past.owed /\ past'.dist = past.dist
      /\ past.polled \in 0 .. PollEvery
  BY DEF Arrive, Race, TypeOK
<1>3. net.plat = "coop" => poll.at = "idle"
  BY DEF Arrive, Together
<1>4. StampsTell'
  BY <1>1, <1>2, Same DEF StampsTell
<1>5. OrderTold'
  BY <1>1, <1>2 DEF OrderTold
<1>6. PollTold'
  BY <1>1, <1>2, <1>3 DEF PollTold
<1>7. SilenceBounded'
  BY <1>1, <1>2, Constants DEF SilenceBounded
<1> QED
  BY <1>4, <1>5, <1>6, <1>7

LEMMA AnswerKeeps ==
  ASSUME TimerInv, Answer
  PROVE  StampsTell' /\ OrderTold' /\ PollTold' /\ SilenceBounded'
<1> USE DEF TimerInv
<1>1. /\ UNCHANGED <<now, stamp, poll, out, Tx, past>>
      /\ net'.plat = net.plat /\ net'.cb = net.cb /\ net'.open = net.open
  BY DEF Answer, TypeOK, Tx
<1> QED
  BY <1>1 DEF StampsTell, OrderTold, PollTold, SilenceBounded, NoTimeoutDue

LEMMA RecvKeeps ==
  ASSUME TimerInv, Recv
  PROVE  StampsTell' /\ OrderTold' /\ PollTold' /\ SilenceBounded'
<1> USE DEF TimerInv
<1>1. /\ now \in Bits /\ UNCHANGED <<now, poll, out, Tx>> /\ poll.at = "idle"
      /\ stamp'.rx = now /\ stamp'.ack = stamp.ack
      /\ past'.idle = 0 /\ past'.polled = past.polled /\ past'.since = past.since
      /\ past'.answer = past.answer /\ past'.owed = past.owed /\ past'.dist = past.dist
      /\ past.polled \in 0 .. PollEvery
  BY DEF Recv, TypeOK, Tx
<1>2. StampsTell'
  BY <1>1, Same DEF StampsTell
<1>3. OrderTold'
  BY <1>1 DEF OrderTold
<1>4. SilenceBounded'
  BY <1>1, Constants DEF SilenceBounded
<1> QED
  BY <1>1, <1>2, <1>3, <1>4 DEF PollTold

LEMMA SentKeeps ==
  ASSUME TimerInv, Sent
  PROVE  StampsTell' /\ OrderTold' /\ PollTold' /\ SilenceBounded'
<1> USE DEF TimerInv
<1>1. /\ now \in Bits /\ UNCHANGED <<now, poll, out, Tx>> /\ poll.at = "idle"
      /\ stamp'.rx = now /\ stamp'.ack = now
      /\ past'.idle = 0 /\ past'.polled = past.polled /\ past'.since = past.since
      /\ past'.answer = 0 /\ past'.owed = FALSE /\ past'.dist = past.since
      /\ past.polled \in 0 .. PollEvery
  BY DEF Sent, TypeOK, Tx
<1>2. StampsTell'
  BY <1>1, Same DEF StampsTell
<1>3. OrderTold'
  BY <1>1 DEF OrderTold, StampsTell
<1>4. SilenceBounded'
  BY <1>1, Constants DEF SilenceBounded
<1> QED
  BY <1>1, <1>2, <1>3, <1>4 DEF PollTold

LEMMA SendKeeps ==
  ASSUME TimerInv, Send
  PROVE  StampsTell' /\ OrderTold' /\ PollTold' /\ SilenceBounded'
<1> USE DEF TimerInv
<1>1. /\ now \in Bits /\ UNCHANGED <<now, net, poll, out>> /\ Tx' = now
      /\ stamp'.rx = stamp.rx /\ stamp'.ack = stamp.ack
  BY DEF Send, TypeOK, Tx
<1>2. /\ past'.since = 0 /\ past'.owed = TRUE /\ past'.dist = past.answer
      /\ past'.raced = (past.raced \/ poll.at # "idle")
      /\ past'.idle = past.idle /\ past'.polled = past.polled /\ past'.answer = past.answer
  BY DEF Send, Race, TypeOK
<1>3. net.plat = "coop" => poll.at = "idle"
  BY DEF Send, Together
<1>4. StampsTell'
  BY <1>1, <1>2, Same DEF StampsTell
<1>5. OrderTold'
  BY <1>1, <1>2 DEF OrderTold, StampsTell
<1>6. PollTold'
  BY <1>1, <1>2, <1>3 DEF PollTold
<1>7. SilenceBounded'
  BY <1>1, <1>2 DEF SilenceBounded, NoTimeoutDue
<1> QED
  BY <1>4, <1>5, <1>6, <1>7

\* A send that fails leaves the stamp that stands alone, in both its steps.
LEMMA FailedSendKeeps ==
  ASSUME TimerInv, SendTry \/ SendFailed
  PROVE  StampsTell' /\ OrderTold' /\ PollTold' /\ SilenceBounded'
<1> USE DEF TimerInv
<1>1. /\ UNCHANGED <<now, net, poll, Tx>>
      /\ stamp'.rx = stamp.rx /\ stamp'.ack = stamp.ack
  <2>1. stamp.tx # Wrap
    BY Fields, Constants DEF Bits
  <2> QED
    BY <2>1 DEF SendTry, SendFailed, TypeOK, Tx
<1>2. /\ past'.raced = (past.raced \/ poll.at # "idle")
      /\ past'.idle = past.idle /\ past'.polled = past.polled /\ past'.answer = past.answer
      /\ past'.since = past.since /\ past'.owed = past.owed /\ past'.dist = past.dist
  BY DEF SendTry, SendFailed, Race, TypeOK
<1>3. net.plat = "coop" => poll.at = "idle"
  BY DEF SendTry, SendFailed, Together, PollTold
<1>4. StampsTell' /\ OrderTold'
  BY <1>1, <1>2 DEF StampsTell, OrderTold
<1>5. PollTold'
  BY <1>1, <1>2, <1>3 DEF PollTold
<1>6. SilenceBounded'
  BY <1>1, <1>2 DEF SilenceBounded, NoTimeoutDue
<1> QED
  BY <1>4, <1>5, <1>6

LEMMA PollBeginKeeps ==
  ASSUME TimerInv, PollBegin
  PROVE  StampsTell' /\ OrderTold' /\ PollTold' /\ SilenceBounded'
<1> USE DEF TimerInv
<1>1. /\ UNCHANGED <<now, stamp, net, out, Tx>> /\ poll.at = "idle"
      /\ poll'.at = "ack" /\ poll'.n = now
      /\ past'.polled = 0 /\ past'.raced = FALSE
      /\ past'.idle = past.idle /\ past'.answer = past.answer
      /\ past'.since = past.since /\ past'.owed = past.owed /\ past'.dist = past.dist
  BY DEF PollBegin, TypeOK, Tx
<1>2. StampsTell' /\ OrderTold'
  BY <1>1 DEF StampsTell, OrderTold
<1>3. PollTold'
  <2>1. Minus(now, now) = 0
    BY Fields, Same
  <2>2. /\ Minus(now, stamp.rx) <= past.idle
        /\ Minus(now, Tx) <= past.since
    <3>1. Minus(now, stamp.rx) \in Bits /\ Minus(now, Tx) \in Bits
      BY Fields, MinusIs
    <3>2. past.idle \in 0 .. Wrap /\ past.since \in 0 .. Wrap
      BY Fields
    <3> QED
      BY <3>1, <3>2, Constants DEF StampsTell, Bits
  <2>3. net.plat = "coop" => out = Wrap
    BY DEF PollBegin, Together
  <2> QED
    BY <1>1, <2>1, <2>2, <2>3 DEF PollTold
<1>4. SilenceBounded'
  <2>1. NoTimeoutDue' <=> NoTimeoutDue
    BY <1>1 DEF NoTimeoutDue
  <2>2. past.polled \in 0 .. PollEvery /\ past.idle \in 0 .. Wrap
    BY Fields
  <2> QED
    BY <1>1, <2>1, <2>2, Constants DEF SilenceBounded
<1> QED
  BY <1>2, <1>3, <1>4

\* What the ack timeout's test says of the true times, if no send is under way.
LEMMA AckTest ==
  ASSUME TimerInv, out = Wrap
  PROVE  /\ LastTxIsAfterLastAck(stamp) <=> Minus(stamp.tx, stamp.ack) \in 1 .. Day
         /\ past.owed /\ past.dist \in 1 .. Day => LastTxIsAfterLastAck(stamp)
         /\ ~past.owed /\ past.dist < Wrap - Day => ~LastTxIsAfterLastAck(stamp)
<1> USE DEF TimerInv
<1>1. /\ stamp.tx \in Bits /\ stamp.ack \in Bits /\ Tx = stamp.tx /\ past.dist \in 0 .. Wrap
  BY Fields DEF Tx
<1>2. LastTxIsAfterLastAck(stamp) <=> Minus(stamp.tx, stamp.ack) \in 1 .. Day
  BY <1>1, AfterIs
<1>3. ASSUME past.owed, past.dist \in 1 .. Day
      PROVE  LastTxIsAfterLastAck(stamp)
  BY <1>1, <1>2, <1>3, Constants DEF OrderTold
<1>4. ASSUME ~past.owed, past.dist < Wrap - Day
      PROVE  ~LastTxIsAfterLastAck(stamp)
  <2>1. Minus(stamp.ack, stamp.tx) = past.dist
    BY <1>1, <1>4, Constants DEF OrderTold
  <2>2. stamp.tx \in Nat /\ stamp.ack \in Nat /\ stamp.tx < Wrap /\ stamp.ack < Wrap
    BY <1>1, Constants DEF Bits
  <2>3. /\ Minus(stamp.ack, stamp.tx) = IF stamp.ack >= stamp.tx THEN stamp.ack - stamp.tx
                                        ELSE stamp.ack - stamp.tx + Wrap
        /\ Minus(stamp.tx, stamp.ack) = IF stamp.tx >= stamp.ack THEN stamp.tx - stamp.ack
                                        ELSE stamp.tx - stamp.ack + Wrap
    BY <1>1, MinusIs
  <2> QED
    BY <1>1, <1>2, <1>4, <2>1, <2>2, <2>3, Constants
<1> QED
  BY <1>2, <1>3, <1>4

LEMMA PollAckKeeps ==
  ASSUME TimerInv, PollAck
  PROVE  StampsTell' /\ OrderTold' /\ PollTold' /\ SilenceBounded'
<1> USE DEF TimerInv
<1>1. /\ UNCHANGED <<now, stamp, net, out, past, Tx>> /\ poll'.n = poll.n
      /\ poll.at = "ack" /\ poll'.at \in {"idle", "rx"}
      /\ poll'.at = "idle" => net.cb /\ LastTxIsAfterLastAck(stamp)
  BY DEF PollAck, TypeOK, Tx
<1>2. StampsTell' /\ OrderTold'
  BY <1>1 DEF StampsTell, OrderTold
<1>3. PollTold'
  BY <1>1 DEF PollTold
<1>4. SilenceBounded'
  <2>1. (NoTimeoutDue' <=> NoTimeoutDue) /\ (NoTimeoutDue => poll'.at # "idle")
    BY <1>1, AckTest DEF NoTimeoutDue, PollTold
  <2> QED
    BY <1>1, <2>1 DEF SilenceBounded
<1> QED
  BY <1>2, <1>3, <1>4

LEMMA PollRxKeeps ==
  ASSUME TimerInv, PollRx
  PROVE  StampsTell' /\ OrderTold' /\ PollTold' /\ SilenceBounded'
<1> USE DEF TimerInv
<1>1. /\ UNCHANGED <<now, stamp, out, past, Tx>>
      /\ poll.at = "rx" /\ poll'.at = "idle"
      /\ net'.plat = net.plat /\ net'.cb = net.cb /\ (net'.open => net.open /\ ~Silent)
  BY DEF PollRx, TypeOK, Tx
<1>2. StampsTell' /\ OrderTold'
  BY <1>1 DEF StampsTell, OrderTold
<1>3. PollTold'
  BY <1>1 DEF PollTold
<1>4. ASSUME net.open, NoTimeoutDue, ~Silent
      PROVE  past.idle < RxTimeout + past.polled
  <2>1. /\ now \in Nat /\ poll.n \in Nat /\ stamp.rx \in Nat
        /\ now < Wrap /\ poll.n < Wrap /\ stamp.rx < Wrap
        /\ past.idle \in 0 .. Wrap /\ past.polled \in 0 .. PollEvery
    BY Fields, Constants DEF Bits
  <2>2. past.idle < Wrap
    BY <1>1, <1>4, <2>1, Constants DEF SilenceBounded
  <2>3. /\ Minus(now, stamp.rx) = past.idle /\ Minus(now, poll.n) = past.polled
        /\ Minus(poll.n, stamp.rx) < RxTimeout
    <3>1. Minus(poll.n, stamp.rx) \in Bits
      BY Fields, MinusIs
    <3>2. Minus(poll.n, stamp.rx) \in Nat
      BY ONLY <3>1, Constants DEF Bits
    <3> QED
      BY <1>1, <1>4, <2>2, <3>2, Constants DEF StampsTell, PollTold, Silent
  <2>4. /\ Minus(now, stamp.rx) = IF now >= stamp.rx THEN now - stamp.rx
                                  ELSE now - stamp.rx + Wrap
        /\ Minus(now, poll.n) = IF now >= poll.n THEN now - poll.n ELSE now - poll.n + Wrap
        /\ Minus(poll.n, stamp.rx) = IF poll.n >= stamp.rx THEN poll.n - stamp.rx
                                     ELSE poll.n - stamp.rx + Wrap
    BY Fields, MinusIs
  <2> QED
    BY <2>1, <2>3, <2>4, Constants
<1>5. SilenceBounded'
  <2>1. (NoTimeoutDue' <=> NoTimeoutDue)
    BY <1>1 DEF NoTimeoutDue
  <2>2. past.polled \in Nat
    BY Fields, Constants
  <2>3. RxTimeout + past.polled + 0 = RxTimeout + past.polled
    BY <2>2, Constants
  <2> QED
    BY <1>1, <1>4, <2>1, <2>3 DEF SilenceBounded
<1> QED
  BY <1>2, <1>3, <1>5

-----------------------------------------------------------------------------
(* The theorems.                                                           *)

LEMMA InvInit == Init => TimerInv
<1> SUFFICES ASSUME Init
             PROVE  TimerInv
  OBVIOUS
<1>1. now \in Bits /\ 0 \in Bits /\ Wrap \in 0 .. Wrap
  BY Constants DEF Init, Bits
<1>2. TypeOK
  BY Constants DEF Init, TypeOK, Bits
<1>3. /\ stamp.rx = now /\ stamp.tx = 0 /\ stamp.ack = 0 /\ out = Wrap /\ poll.at = "idle"
      /\ past.idle = 0 /\ past.polled = 0 /\ past.since = now /\ past.answer = now
      /\ past.owed = FALSE /\ past.dist = 0 /\ Tx = 0
  BY DEF Init, Tx
<1>4. Minus(now, 0) = now
  <2>1. now \in Nat
    BY <1>1, Constants DEF Bits
  <2> QED
    BY <1>1, <2>1, MinusIs
<1>5. StampsTell /\ OrderTold
  BY <1>1, <1>3, <1>4, Same DEF StampsTell, OrderTold
<1>6. PollTold /\ SilenceBounded
  BY <1>3, Constants DEF PollTold, SilenceBounded
<1> QED
  BY <1>2, <1>5, <1>6 DEF TimerInv

LEMMA InvStep == TimerInv /\ [Next]_vars => TimerInv'
<1> SUFFICES ASSUME TimerInv, [Next]_vars
             PROVE  TimerInv'
  OBVIOUS
<1>1. TypeOK'
  BY TypeStep DEF TimerInv
<1>2. ASSUME UNCHANGED vars
      PROVE  StampsTell' /\ OrderTold' /\ PollTold' /\ SilenceBounded'
  BY <1>2 DEF vars, TimerInv, StampsTell, OrderTold, PollTold, SilenceBounded, NoTimeoutDue, Tx
<1>3. StampsTell' /\ OrderTold' /\ PollTold' /\ SilenceBounded'
  BY <1>2, TickKeeps, ArriveKeeps, AnswerKeeps, RecvKeeps, SentKeeps, SendKeeps,
     FailedSendKeeps, PollBeginKeeps, PollAckKeeps, PollRxKeeps DEF Next
<1> QED
  BY <1>1, <1>3 DEF TimerInv

LEMMA InvAlways == Spec => []TimerInv
BY InvInit, InvStep, PTL DEF Spec

\* A silent peer's connection is closed within two intervals of the polls,
\* though the clock may wrap while it is silent.
THEOREM SilenceCloses == Spec => []SilenceIsClosed
<1>1. TimerInv => SilenceIsClosed
  <2> SUFFICES ASSUME TimerInv, net.open, NoTimeoutDue
               PROVE  past.idle < RxTimeout + 2 * PollEvery
    BY DEF SilenceIsClosed
  <2>1. past.idle \in 0 .. Wrap /\ past.polled \in 0 .. PollEvery
    BY Fields DEF TimerInv
  <2>2. past.idle < RxTimeout + past.polled + (IF poll.at = "idle" THEN 0 ELSE PollEvery)
    BY DEF TimerInv, SilenceBounded
  <2> QED
    BY <2>1, <2>2, Constants
<1> QED
  BY <1>1, InvAlways, PTL

\* The receive timeout closes no connection whose peer was heard in time, but
\* for the race with lwIP's thread.
THEOREM ClosedForSilence == Spec => OnlySilenceCloses
<1> DEFINE Silence == net.open /\ ~net'.open =>
                        past.idle >= RxTimeout \/ (net.plat = "task" /\ past.raced)
<1>1. TimerInv /\ [Next]_vars => [Silence]_vars
  <2> SUFFICES ASSUME TimerInv, Next, net.open, ~net'.open
               PROVE  past.idle >= RxTimeout \/ (net.plat = "task" /\ past.raced)
    OBVIOUS
  <2>1. PollRx
    BY DEF Next, Tick, Arrive, Answer, Recv, Sent, Send, SendTry, SendFailed, PollBegin,
           PollAck, TimerInv, TypeOK
  <2>2. Silent /\ poll.at = "rx"
    BY <2>1 DEF PollRx, TimerInv, TypeOK
  <2>3. net.plat \in {"task", "coop"}
    BY ConstantsAssumption DEF TimerInv, TypeOK
  <2>4. CASE past.raced
    BY <2>2, <2>3, <2>4 DEF TimerInv, PollTold
  <2>5. CASE ~past.raced
    <3>1. Minus(poll.n, stamp.rx) \in Bits /\ past.idle \in 0 .. Wrap
      BY Fields, MinusIs DEF TimerInv
    <3> QED
      BY <2>2, <2>5, <3>1, Constants DEF TimerInv, PollTold, Silent, Bits
  <2> QED
    BY <2>4, <2>5
<1> QED
  BY <1>1, InvAlways, PTL DEF Spec, OnlySilenceCloses

\* onTimeout is called for the sends that are due, and for no other.
THEOREM TimeoutsAreRight == Spec => TimeoutIsRight
<1> DEFINE Right == poll.at = "ack" /\ poll'.at # "ack" /\ net.cb /\ out = Wrap /\ ~past.raced =>
                      IF poll'.at = "idle" THEN DueTimeout ELSE ~MissedTimeout
<1>1. TimerInv /\ [Next]_vars => [Right]_vars
  <2> SUFFICES ASSUME TimerInv, Next, poll.at = "ack", poll'.at # "ack", net.cb, out = Wrap,
                      ~past.raced
               PROVE  IF poll'.at = "idle" THEN DueTimeout ELSE ~MissedTimeout
    OBVIOUS
  <2>1. PollAck
    BY DEF Next, Tick, Arrive, Answer, Recv, Sent, Send, SendTry, SendFailed, PollBegin, PollRx
  <2> DEFINE Due == LastTxIsAfterLastAck(stamp) /\ Minus(poll.n, stamp.tx) >= AckTimeout
  <2>2. /\ now \in Bits /\ poll.n \in Bits /\ stamp.tx \in Bits /\ Tx = stamp.tx
        /\ past.since \in 0 .. Wrap /\ past.dist \in 0 .. Wrap
    BY Fields DEF Tx, TimerInv
  <2>3. Minus(poll.n, stamp.tx) <= past.since /\ Minus(poll.n, stamp.tx) \in Nat
    <3>1. Minus(poll.n, stamp.tx) \in Bits
      BY <2>2, MinusIs
    <3> QED
      BY <2>2, <3>1, Constants DEF TimerInv, PollTold, Bits
  <2>4. ASSUME Due
        PROVE  DueTimeout
    BY <2>2, <2>3, <2>4, AckTest, Constants DEF DueTimeout
  <2>5. ASSUME MissedTimeout
        PROVE  Due
    <3>1. LastTxIsAfterLastAck(stamp)
      BY <2>5, AckTest DEF MissedTimeout
    <3>2. Minus(now, stamp.tx) = past.since /\ Minus(now, poll.n) \in Nat
      <4>1. Minus(now, poll.n) \in Bits
        BY <2>2, MinusIs
      <4>2. Minus(now, poll.n) \in Nat
        BY ONLY <4>1, Constants DEF Bits
      <4> QED
        BY <2>2, <2>5, <4>2, Constants DEF MissedTimeout, TimerInv, StampsTell
    <3>3. /\ Minus(now, stamp.tx) = IF now >= stamp.tx THEN now - stamp.tx
                                    ELSE now - stamp.tx + Wrap
          /\ Minus(now, poll.n) = IF now >= poll.n THEN now - poll.n ELSE now - poll.n + Wrap
          /\ Minus(poll.n, stamp.tx) = IF poll.n >= stamp.tx THEN poll.n - stamp.tx
                                       ELSE poll.n - stamp.tx + Wrap
      BY <2>2, MinusIs
    <3>4. past.since >= AckTimeout + Minus(now, poll.n)
      BY <2>5, <3>2, Constants DEF MissedTimeout
    <3>5. /\ now \in Nat /\ poll.n \in Nat /\ stamp.tx \in Nat
          /\ now < Wrap /\ poll.n < Wrap /\ stamp.tx < Wrap
      BY <2>2, Constants DEF Bits
    <3> QED
      BY <3>1, <3>2, <3>3, <3>4, <3>5, Constants
  <2> HIDE DEF Due
  <2>6. CASE Due
    <3>1. poll'.at = "idle"
      BY <2>1, <2>6 DEF PollAck, TimerInv, TypeOK, Due
    <3> QED
      BY <2>4, <2>6, <3>1
  <2>7. CASE ~Due
    <3>1. poll'.at = "rx"
      BY <2>1, <2>7 DEF PollAck, TimerInv, TypeOK, Due
    <3> QED
      BY <2>5, <2>7, <3>1
  <2> QED
    BY <2>6, <2>7
<1> QED
  BY <1>1, InvAlways, PTL DEF Spec, TimeoutIsRight

=============================================================================
