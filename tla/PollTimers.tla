----------------------------- MODULE PollTimers -----------------------------
(***************************************************************************)
(* The two timeouts that a client looks at when a POLL event is handled.   *)
(*                                                                         *)
(* millis() and the stamps are unsigned and wrap; only differences are     *)
(* used.  The receive timeout closes a connection that was silent.  The    *)
(* ack timeout calls onTimeout while the last send is unanswered; which of *)
(* the two stamps is later is told within a window of one day.             *)
(*                                                                         *)
(* On FreeRTOS ("task") lwIP's thread stamps arrivals, and another task    *)
(* may send, between two steps of the handler; on the ESP8266 ("coop")     *)
(* they cannot.                                                            *)
(***************************************************************************)
EXTENDS Integers

CONSTANTS
  Platforms,   \* those explored
  Wrap,        \* millis() counts modulo Wrap
  Day,         \* the window of one day
  AckTimeout, RxTimeout,
  PollEvery    \* a POLL event is handled at least this often

ASSUME ConstantsAssumption ==
  /\ Platforms \subseteq {"task", "coop"}
  /\ {Wrap, Day, AckTimeout, RxTimeout, PollEvery} \subseteq Nat \ {0}
  /\ Day < Wrap /\ AckTimeout < Wrap /\ RxTimeout + 2 * PollEvery <= Wrap

VARIABLES
  now,    \* millis()
  stamp,  \* rx, tx, ack: _rx_last_packet, _tx_last_packet, _rx_last_ack
  net,    \* RECV and SENT events that wait, whether the connection is open
  poll,   \* where the handler is, the time it read
  out,    \* a send() under way: the stamp to restore, or Wrap
  past    \* history: true times, counted up to Wrap

vars == <<now, stamp, net, poll, out, past>>

Init ==
  /\ now \in 0 .. Wrap - 1
  /\ stamp = [rx |-> now, tx |-> 0, ack |-> 0]       \* _connected
  /\ \E plat \in Platforms, cb \in BOOLEAN :
       net = [plat |-> plat, cb |-> cb,              \* onTimeout is set
              open |-> TRUE, recv |-> FALSE, sent |-> FALSE]
  /\ poll = [at |-> "idle", n |-> 0]
  /\ out = Wrap
  /\ past = [idle |-> 0,         \* since rx was stamped, or a packet came
             polled |-> 0,       \* since the last POLL
             since |-> now,      \* since the last send (tx is 0 before the first)
             answer |-> now,     \* since the last answer
             owed |-> FALSE,     \* the last send is unanswered
             dist |-> 0,         \* from the last answer to the last send, or back
             raced |-> FALSE]    \* a stamp was written while POLL is handled

\* Time from b to a, in unsigned arithmetic.
Minus(a, b) == (a - b + Wrap) % Wrap
UpTo(n) == IF n < Wrap THEN n + 1 ELSE Wrap

\* In one thread nothing comes between the steps of the handler or of send().
Together == net.plat = "coop" => poll.at = "idle" /\ out = Wrap
Race(p) == [p EXCEPT !.raced = @ \/ poll.at # "idle"]
Older(p) == [p EXCEPT !.idle = UpTo(@), !.polled = @ + 1, !.since = UpTo(@),
                      !.answer = UpTo(@)]

-----------------------------------------------------------------------------
(* Time, and lwIP's callbacks.                                             *)

\* Mutant of Tick: millis() does not wrap.
TickOn ==
  /\ net.open /\ past.polled < PollEvery /\ Together
  /\ now' = now + 1
  /\ past' = Older(past)
  /\ UNCHANGED <<stamp, net, poll, out>>

Tick ==
  /\ net.open /\ past.polled < PollEvery /\ Together
  /\ now' = (now + 1) % Wrap
  /\ past' = Older(past)
  /\ UNCHANGED <<stamp, net, poll, out>>

\* Mutant of Arrive: the packet is stamped when it is handled.
ArriveUnstamped ==
  /\ net.open /\ ~net.recv /\ Together
  /\ net' = [net EXCEPT !.recv = TRUE]
  /\ past' = Race([past EXCEPT !.idle = 0])
  /\ UNCHANGED <<now, stamp, poll, out>>

\* tcp_recv, in lwIP's thread.
Arrive ==
  /\ net.open /\ ~net.recv /\ Together
  /\ net' = [net EXCEPT !.recv = TRUE]
  /\ stamp' = [stamp EXCEPT !.rx = now]
  /\ past' = Race([past EXCEPT !.idle = 0])
  /\ UNCHANGED <<now, poll, out>>

\* tcp_sent, in lwIP's thread.
Answer ==
  /\ net.open /\ ~net.sent /\ past.owed /\ Together
  /\ net' = [net EXCEPT !.sent = TRUE]
  /\ UNCHANGED <<now, stamp, poll, out, past>>

-----------------------------------------------------------------------------
(* The service task, and sends.                                            *)

\* _recv.
Recv ==
  /\ poll.at = "idle" /\ net.open /\ net.recv /\ Together
  /\ net' = [net EXCEPT !.recv = FALSE]
  /\ stamp' = [stamp EXCEPT !.rx = now]
  /\ past' = [past EXCEPT !.idle = 0]
  /\ UNCHANGED <<now, poll, out>>

\* _sent.
Sent ==
  /\ poll.at = "idle" /\ net.open /\ net.sent /\ Together
  /\ net' = [net EXCEPT !.sent = FALSE]
  /\ stamp' = [stamp EXCEPT !.rx = now, !.ack = now]
  /\ past' = [past EXCEPT !.idle = 0, !.owed = FALSE, !.answer = 0, !.dist = past.since]
  /\ UNCHANGED <<now, poll, out>>

\* send(), when tcp_output takes it ...
Send ==
  /\ net.open /\ out = Wrap /\ Together
  /\ stamp' = [stamp EXCEPT !.tx = now]
  /\ past' = Race([past EXCEPT !.since = 0, !.owed = TRUE, !.dist = past.answer])
  /\ UNCHANGED <<now, net, poll, out>>

\* ... and when it fails: the stamp is written first and taken back then.
SendTry ==
  /\ net.open /\ out = Wrap /\ Together
  /\ out' = stamp.tx
  /\ stamp' = [stamp EXCEPT !.tx = now]
  /\ past' = Race(past)
  /\ UNCHANGED <<now, net, poll>>
SendFailed ==
  /\ out # Wrap
  /\ out' = Wrap
  /\ stamp' = [stamp EXCEPT !.tx = out]
  /\ past' = Race(past)
  /\ UNCHANGED <<now, net, poll>>

-----------------------------------------------------------------------------
(* _poll.                                                                  *)

PollBegin ==
  /\ poll.at = "idle" /\ net.open /\ Together
  /\ poll' = [at |-> "ack", n |-> now]
  /\ past' = [past EXCEPT !.polled = 0, !.raced = FALSE]
  /\ UNCHANGED <<now, stamp, net, out>>

\* Mutant of LastTxIsAfterLastAck: the stamps are compared as they are.
LastTxIsGreater(s) == s.tx > s.ack

LastTxIsAfterLastAck(s) == (s.ack + Day - s.tx + Wrap) % Wrap < Day

\* The ack timeout: onTimeout is called, and nothing else is looked at.
PollAck ==
  /\ poll.at = "ack"
  /\ IF net.cb /\ LastTxIsAfterLastAck(stamp) /\ Minus(poll.n, stamp.tx) >= AckTimeout
     THEN poll' = [poll EXCEPT !.at = "idle"]
     ELSE poll' = [poll EXCEPT !.at = "rx"]
  /\ UNCHANGED <<now, stamp, net, out, past>>

\* Mutant of Silent: the difference is signed.
SilentSigned == poll.n - stamp.rx >= RxTimeout

Silent == Minus(poll.n, stamp.rx) >= RxTimeout

\* The receive timeout: _close(); else onPoll is called.
PollRx ==
  /\ poll.at = "rx"
  /\ poll' = [poll EXCEPT !.at = "idle"]
  /\ net' = [net EXCEPT !.open = @ /\ ~Silent]
  /\ UNCHANGED <<now, stamp, out, past>>

-----------------------------------------------------------------------------

Next == Tick \/ Arrive \/ Answer \/ Recv \/ Sent \/ Send \/ SendTry \/ SendFailed
        \/ PollBegin \/ PollAck \/ PollRx

Spec == Init /\ [][Next]_vars

-----------------------------------------------------------------------------
(* Properties.                                                             *)

\* The clock and the stamps are 32 bit numbers; true times are counted up to Wrap.
Bits == 0 .. Wrap - 1
TypeOK ==
  /\ now \in Bits /\ out \in 0 .. Wrap
  /\ stamp \in [rx : Bits, tx : Bits, ack : Bits]
  /\ net \in [plat : Platforms, cb : BOOLEAN, open : BOOLEAN, recv : BOOLEAN, sent : BOOLEAN]
  /\ poll \in [at : {"idle", "ack", "rx"}, n : Bits]
  /\ past \in [idle : 0 .. Wrap, polled : 0 .. PollEvery, since : 0 .. Wrap,
               answer : 0 .. Wrap, owed : BOOLEAN, dist : 0 .. Wrap, raced : BOOLEAN]

\* tcp_recv: a packet that has just arrived keeps the connection open, however long
\* its event waits: only silence closes it.  Except, with threads, a packet that
\* is stamped after the handler read the time.
OnlySilenceCloses ==
  [][net.open /\ ~net'.open =>
       past.idle >= RxTimeout \/ (net.plat = "task" /\ past.raced)]_vars

\* The connection of a silent peer is closed with the next POLL, however the
\* clock wraps; unless onTimeout is called instead, which a race may cause, too.
\* (The handler itself may take until the next POLL is due.)
NoTimeoutDue == net.cb => net.plat = "coop" /\ ~past.owed /\ past.dist < Wrap - Day
SilenceIsClosed == net.open /\ NoTimeoutDue => past.idle < RxTimeout + 2 * PollEvery

\* _poll: onTimeout is called only for a send that is unanswered for so long,
\* unless its answer took all of the clock's range but a day.
DueTimeout == \/ past.owed /\ past.since >= AckTimeout
              \/ ~past.owed /\ past.dist >= Wrap - Day

\* It is called for each such send, if that came within a day of the last
\* answer, or of the clock's zero for the first, and not in the same millisecond.
MissedTimeout == past.owed /\ past.dist \in 1 .. Day
                 /\ past.since \in AckTimeout + Minus(now, poll.n) .. Wrap - 1

\* Both, unless with threads a send comes between two steps of the handler.
TimeoutIsRight ==
  [][poll.at = "ack" /\ poll'.at # "ack" /\ net.cb /\ out = Wrap /\ ~past.raced =>
       IF poll'.at = "idle" THEN DueTimeout ELSE ~MissedTimeout]_vars
=============================================================================
