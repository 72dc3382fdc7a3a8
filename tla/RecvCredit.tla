----------------------------- MODULE RecvCredit -----------------------------
(***************************************************************************)
(* How a plain connection gives the receive window back to its peer.       *)
(*                                                                         *)
(* The service task hands the pbufs of a RECV event to onData one by one   *)
(* and acknowledges each when onData returns, unless it called ackLater(): *)
(* then the bytes count in _rx_ack_len until ack().  With onPacket the     *)
(* application keeps the pbuf and gives it back through ackPacket().       *)
(* close() acknowledges what it still owes, because lwIP answers a close   *)
(* with a reset unless its window is whole.  The client may be connected   *)
(* again after its end.                                                    *)
(*                                                                         *)
(* All calls come from the service task: inside onData, or in another      *)
(* callback.  Bytes are counted in units.                                  *)
(***************************************************************************)
EXTENDS Integers, Sequences, FiniteSets, SequencesExt

CONSTANTS
  Modes,      \* "data" and "packet": the callbacks explored
  Window,     \* TCP_WND in units
  Sizes,      \* of a pbuf
  Dials       \* bound: connections of one client

ASSUME ConstantsAssumption ==
  /\ Modes \subseteq {"data", "packet"} /\ Sizes \subseteq 1 .. Window
  /\ Window \in Nat \ {0} /\ Dials \in Nat \ {0}

VARIABLES
  net,    \* lwIP: pcb, the window the peer has left, RECV events; << >> is FIN
  rcv,    \* where the service task is in _recv
  ackLen, \* _rx_ack_len
  held,   \* the pbufs that the application took in onPacket, by their size
  hist    \* history: connections made; how the last close was answered;
          \* whether ackLen counts bytes of an earlier connection, or held has some

vars == <<net, rcv, ackLen, held, hist>>

Idle == [at |-> "idle", rest |-> << >>, cur |-> 0, later |-> FALSE, ackLen |-> 0]
Fresh == [pcb |-> "open", win |-> Window, q |-> << >>]

Init ==
  /\ net = Fresh
  /\ \E mode \in Modes : hist = [mode |-> mode, dials |-> 1, close |-> "none", stale |-> FALSE]
  /\ rcv = Idle
  /\ ackLen = 0
  /\ held = << >>

Units(chain) == FoldLeft(LAMBDA n, b : n + b, 0, chain)
Queued(q) == Units(FlattenSeq(q))

\* tcp_recved through _tcp_recved: nothing without a pcb; lwIP clips.
Recved(n, len) ==
  IF n.pcb # "open" THEN n
  ELSE [n EXCEPT !.win = IF @ + len > Window THEN Window ELSE @ + len]

-----------------------------------------------------------------------------
(* close(), which ends in tcp_close and the purge of the client's events.  *)

\* The bytes that nobody was handed: queued, or behind the current pbuf.
Undelivered == Queued(net.q) + Units(rcv.rest)

\* Mutant of Pending: the packet being delivered is not counted.
PendingLater == ackLen

Pending == ackLen + rcv.ackLen

Closed ==
  IF net.pcb # "open" THEN UNCHANGED <<net, ackLen, hist>>
  ELSE LET n == Recved(net, Pending)
       IN /\ net' = [n EXCEPT !.pcb = "closed", !.q = << >>]
          /\ ackLen' = 0
          /\ hist' = [hist EXCEPT !.stale = FALSE,
                        !.close = IF n.win = Window THEN "fin"
                                  ELSE IF Undelivered + Units(held) = 0 THEN "cut" ELSE "rst"]

-----------------------------------------------------------------------------
(* lwIP.                                                                   *)

Chains == {<<a>> : a \in Sizes} \cup {<<a, b>> : a, b \in Sizes}
PeerSend ==
  /\ net.pcb = "open" /\ << >> \notin Range(net.q)
  /\ \E c \in Chains :
       /\ Units(c) <= net.win
       /\ net' = [net EXCEPT !.win = @ - Units(c), !.q = Append(@, c)]
  /\ UNCHANGED <<rcv, ackLen, held, hist>>

PeerFin ==
  /\ net.pcb = "open" /\ << >> \notin Range(net.q)
  /\ net' = [net EXCEPT !.q = Append(@, << >>)]
  /\ UNCHANGED <<rcv, ackLen, held, hist>>

\* tcp_error: the pcb is gone and the events are purged; the count stays.
PeerReset ==
  /\ net.pcb = "open"
  /\ net' = [net EXCEPT !.pcb = "closed", !.q = << >>]
  /\ UNCHANGED <<rcv, ackLen, held, hist>>

-----------------------------------------------------------------------------
(* The service task.                                                       *)

TakeRecv ==
  /\ rcv.at = "idle" /\ net.q # << >> /\ Head(net.q) # << >>
  /\ rcv' = [Idle EXCEPT !.at = "loop", !.rest = Head(net.q)]
  /\ net' = [net EXCEPT !.q = Tail(@)]
  /\ UNCHANGED <<ackLen, held, hist>>

TakeFin ==
  /\ rcv.at = "idle" /\ net.q # << >> /\ Head(net.q) = << >>
  /\ Closed
  /\ UNCHANGED <<rcv, held>>

\* The next pbuf of the chain goes to the callback, or _recv returns.
NextPbuf ==
  /\ rcv.at = "loop"
  /\ IF rcv.rest = << >> THEN rcv' = Idle /\ UNCHANGED held
     ELSE LET b == Head(rcv.rest)
          IN /\ rcv' = [at |-> "call", rest |-> Tail(rcv.rest), cur |-> b, later |-> FALSE,
                        ackLen |-> IF hist.mode = "data" THEN b ELSE 0]
             /\ held' = IF hist.mode = "packet" THEN Append(held, b) ELSE held
  /\ UNCHANGED <<net, ackLen, hist>>

\* Mutant of Return: what is put off is not counted.
ReturnForgets ==
  /\ rcv.at = "call"
  /\ IF net.pcb # "open" THEN rcv' = Idle /\ UNCHANGED <<net, ackLen>>
     ELSE /\ rcv' = [rcv EXCEPT !.at = "loop", !.cur = 0, !.ackLen = 0]
          /\ IF rcv.later THEN UNCHANGED <<net, ackLen>>
             ELSE net' = Recved(net, rcv.ackLen) /\ UNCHANGED ackLen
  /\ UNCHANGED <<held, hist>>

\* The callback returns: the bytes are acknowledged, or counted for later;
\* without a pcb the loop ends and the rest of the chain is freed.
Return ==
  /\ rcv.at = "call"
  /\ IF net.pcb # "open" THEN rcv' = Idle /\ UNCHANGED <<net, ackLen>>
     ELSE /\ rcv' = [rcv EXCEPT !.at = "loop", !.cur = 0, !.ackLen = 0]
          /\ IF rcv.later THEN ackLen' = ackLen + rcv.ackLen /\ UNCHANGED net
             ELSE net' = Recved(net, rcv.ackLen) /\ UNCHANGED ackLen
  /\ UNCHANGED <<held, hist>>

-----------------------------------------------------------------------------
(* The application, in onData, onPacket or another callback.               *)

InCallback == rcv.at \in {"idle", "call"}

\* Mutant of Ack: the argument is not limited to what is owed.
AckUncapped(n) ==
  /\ InCallback /\ ackLen > 0
  /\ net' = Recved(net, n) /\ ackLen' = ackLen - n
  /\ UNCHANGED <<rcv, held, hist>>

Ack(n) ==
  /\ InCallback /\ ackLen > 0
  /\ LET len == IF n > ackLen THEN ackLen ELSE n
     IN net' = Recved(net, len) /\ ackLen' = ackLen - len
  /\ UNCHANGED <<rcv, held, hist>>

AckLater ==
  /\ rcv.at = "call" /\ ~rcv.later
  /\ rcv' = [rcv EXCEPT !.later = TRUE]
  /\ UNCHANGED <<net, ackLen, held, hist>>

\* Mutant of AckPacket: the pbuf is freed, its bytes are not acknowledged.
AckPacketFrees ==
  /\ InCallback
  /\ \E i \in 1 .. Len(held) : held' = RemoveAt(held, i)
  /\ UNCHANGED <<net, rcv, ackLen, hist>>

AckPacket ==
  /\ InCallback
  /\ \E i \in 1 .. Len(held) : net' = Recved(net, held[i]) /\ held' = RemoveAt(held, i)
  /\ UNCHANGED <<rcv, ackLen, hist>>

Close ==
  /\ InCallback /\ net.pcb = "open"
  /\ Closed
  /\ UNCHANGED <<rcv, held>>

\* connect() of the same client, and CONNECTED: what was put off or kept of the
\* earlier connection is acknowledged to this one.
Reconnect ==
  /\ rcv.at = "idle" /\ net.pcb = "closed" /\ hist.dials < Dials
  /\ net' = Fresh
  /\ hist' = [hist EXCEPT !.dials = @ + 1, !.close = "none",
                       !.stale = ackLen > 0 \/ held # << >>]
  /\ UNCHANGED <<rcv, ackLen, held>>

Application == AckLater \/ AckPacket \/ Close \/ Reconnect \/ \E n \in 1 .. Window : Ack(n)
Service == TakeRecv \/ TakeFin \/ NextPbuf \/ Return
Next == PeerSend \/ PeerFin \/ PeerReset \/ Service \/ Application

\* The service task goes on; the application acknowledges what it put off.
Spec == Init /\ [][Next]_vars /\ WF_vars(Service) /\ SF_vars(AckPacket)
             /\ SF_vars(\E n \in 1 .. Window : Ack(n))

-----------------------------------------------------------------------------
(* Properties.                                                             *)

\* The counters stay in range: _rx_ack_len does not wrap below zero.
TypeOK ==
  /\ net.pcb \in {"open", "closed"} /\ net.win \in 0 .. Window
  /\ net.q \in Seq(Seq(Sizes)) /\ held \in Seq(Sizes) /\ rcv.rest \in Seq(Sizes)
  /\ rcv.at \in {"idle", "loop", "call"} /\ rcv.cur \in Sizes \cup {0}
  /\ rcv.later \in BOOLEAN /\ rcv.ackLen \in {0, rcv.cur}
  /\ ackLen \in 0 .. Dials * Window
  /\ hist.mode \in Modes /\ hist.dials \in 1 .. Dials /\ hist.stale \in BOOLEAN

\* _recv, ack, ackPacket: each unit the peer sent is queued, in delivery, counted
\* for later, held by the application, or back in the window, exactly once.
\* (What an earlier connection left behind, counted or held, is the exception.)
CreditConserved ==
  net.pcb = "open" /\ ~hist.stale =>
    net.win + Queued(net.q) + Units(rcv.rest) + rcv.ackLen + ackLen + Units(held) = Window

\* close(): when all that arrived was delivered and given back or put
\* off, the window is whole when tcp_close looks at it: the peer gets a FIN, and
\* not a reset that cuts what the connection sent last.
CloseIsGraceful == hist.close # "cut"

\* A peer with no window left gets some: neither ackLater, ackPacket nor the
\* end of a callback forgets a byte for ever.
WindowReopens == net.pcb = "open" /\ net.win = 0 ~> net.win > 0 \/ net.pcb # "open"
=============================================================================
