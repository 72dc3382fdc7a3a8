------------------------------ MODULE BearTls ------------------------------
(***************************************************************************)
(* TLS on the ESP8266: admission of accepted connections, the BearSSL      *)
(* session of a connection, its engine pump, the ring of outbound records  *)
(* and the client hooks that drive them.                                   *)
(*                                                                         *)
(* There is one thread.  What AsyncTCP dispatches, the scheduled functions *)
(* and the application run in loop context, one after the other; lwIP      *)
(* runs in between and inside yield(), which process_ssl_engine calls once *)
(* per pass.  A run of the engine is therefore one step per pass.          *)
(*                                                                         *)
(* Bytes are counted in units: a segment of TCP_MSS outbound, a part of a  *)
(* record inbound.  What the peer says is a fixed stream of units:         *)
(*   "h" a handshake message, "p" the first and "d" the last part of a     *)
(*   record of application data, "x" a close_notify or fatal alert.        *)
(* Cryptography, certificates and the contents of records are left out.    *)
(***************************************************************************)
EXTENDS Integers, Sequences, FiniteSets, SequencesExt

CONSTANTS
  Conn,        \* the connections
  Server,      \* those that the listener accepts; the others are outgoing
  Slots,       \* SSL_RECORD_RING_SLOTS
  FeedLoops,   \* SSL_MAX_FEED_LOOPS
  PendMax,     \* SSL_RX_PEND_MAX
  Window,      \* TCP_WND in units
  SndBuf,      \* TCP_SND_BUF in units
  HsPolls, StallPolls, IdlePolls,  \* the three timeouts in polls
  Apps,        \* records of application data the peer sends
  Writes,      \* records the application writes
  Losses       \* bound: units of a connection whose SENT finds no memory

ASSUME ConstantsAssumption ==
  /\ Conn \subseteq Nat \ {0} /\ Server \subseteq Conn
  /\ {Slots, FeedLoops, PendMax, Window, SndBuf, Apps, Writes, Losses} \subseteq Nat
  /\ Slots > 0 /\ FeedLoops > 0 /\ Window > 0 /\ SndBuf >= 2
  /\ {HsPolls, StallPolls, IdlePolls} \subseteq Nat \ {0}

VARIABLES
  s,    \* a record per connection, see Session
  run   \* the engine run in progress: [conn, pass, from], or NoRun

vars == <<s, run>>

NoRun == [conn |-> 0, pass |-> 0, from |-> "none"]

Slot == 0 .. Slots - 1
NoSlot == Slots          \* a unit that tcp_write copied

Total(q) == FoldLeft(LAMBDA n, b : n + b, 0, q)

-----------------------------------------------------------------------------
(* The peer and the engine (BearSSL, external).                            *)

HsUnits == 2

\* What the peer sends, unit by unit.
Stream == <<"h", "h">> \o [i \in 1 .. 2 * Apps |-> IF i % 2 = 1 THEN "p" ELSE "d"]
                       \o <<"x">>

\* The records the engine emits once it has read i handshake messages.
Flight(c, i) ==
  IF c \in Server THEN <<<< >>, <<2>>, <<1>>>>[i + 1] ELSE <<<<2>>, <<1>>, << >>>>[i + 1]

\* A peer sends unit k when it has seen this many of our records; it has
\* acknowledged them then.
Needs(c, k) ==
  CASE k = 1 -> IF c \in Server THEN 0 ELSE 1
    [] k = 2 -> IF c \in Server THEN 1 ELSE 2
    [] OTHER -> 2

\* How many of n units the engine takes: it stops behind a record of
\* application data until that is read, and for good when it is closed.
Takes(r, n) ==
  IF r.app \/ r.st = "shut" THEN 0
  ELSE LET stops == {j \in 1 .. n : Stream[r.fed + j] \in {"d", "x"}}
       IN IF stops = {} THEN n ELSE CHOOSE j \in stops : \A k \in stops : j <= k

SendRec(r) == r.out # << >>                       \* BR_SSL_SENDREC
SendApp(r) == r.st = "open" /\ r.out = << >>      \* BR_SSL_SENDAPP
RecvApp(r) == r.app                               \* BR_SSL_RECVAPP

\* The engine builds its next record in the buffer it was given, outbuf; slot
\* 0 of the ring begins at the same address.
Built(r) == IF SendRec(r) THEN [r EXCEPT !.rec[0] = r.n + 1] ELSE r

\* The engine after br_ssl_engine_recvrec_ack of n units.
Advance(c, r, n) ==
  LET to == r.fed + n
      h(k) == IF k < HsUnits THEN k ELSE HsUnits
  IN Built([r EXCEPT !.fed = to,
                     !.app = @ \/ (n > 0 /\ Stream[to] = "d"),
                     !.out = r.out \o FlattenSeq([i \in 1 .. h(to) - h(r.fed) |->
                                                    Flight(c, h(r.fed) + i)]),
                     !.st = IF n > 0 /\ Stream[to] = "x" THEN "shut"
                            ELSE IF @ = "hs" /\ to >= HsUnits THEN "open" ELSE @])

-----------------------------------------------------------------------------
(* tcp_ssl_pcb and its session.                                            *)

Fresh ==
  [tcp |-> "none",        \* none, open, closing (tcp_close was called), gone
   sent |-> 0,            \* units the peer has sent
   rxq |-> << >>,         \* queued RECV events, the units of each; 0 is the FIN
   win |-> Window,        \* the receive window the peer has left
   wire |-> << >>,        \* our units that the peer has not acknowledged
   acks |-> 0,            \* units acknowledged by the queued SENT events
   lost |-> 0,            \* history: units acknowledged that no SENT tells of
   live |-> FALSE,        \* registered in tcp_ssl_pcbs
   pend |-> << >>, off |-> 0,                 \* rx_pend, rx_pend_head_off
   fed |-> 0, app |-> FALSE, st |-> "hs", out |-> << >>,      \* the engine
   next |-> 0, pinned |-> 0, acked |-> 0,     \* out_ring_next, _pinned, _acked
   len |-> [i \in Slot |-> 0],                \* out_ring_len
   rec |-> [i \in Slot |-> 0],                \* the record whose bytes a slot holds
   n |-> 0,                                   \* records emitted so far
   defer |-> FALSE, stall |-> 0,              \* sendrec_deferred, hard_defer_start
   pump |-> "idle", sched |-> FALSE,          \* engine_pump_state; one-shot in the pool
   hs |-> FALSE, done |-> FALSE,              \* handshake_done of pcb and of session
   told |-> FALSE, got |-> 0,                 \* history: onConnect, onData calls
   quiet |-> 0, wrote |-> 0]                  \* polls since lastRx; writes made

LiveServers == {c \in Server : s[c].live}

\* tcp_ssl_free and the session's close(): the slab and what waits in rx_pend
\* go; what lwIP has on the wire stays, and so does a scheduled one-shot.
Free(r) == [Fresh EXCEPT !.tcp = r.tcp, !.wire = r.wire, !.sched = r.sched]

\* schedule_ssl_engine, ok when the pool has room.
Schedule(r, ok) ==
  IF r.pump = "queued" THEN r
  ELSE [r EXCEPT !.pump = IF ok THEN "queued" ELSE "dropped", !.sched = @ \/ ok]

\* A record of n units put on the wire from slot i, or copied.
OnWire(r, n, i) == [r EXCEPT !.wire = @ \o [k \in 1 .. n |-> [slot |-> i, rec |-> r.n + 1]],
                             !.n = @ + 1]

Room(r) == SndBuf - Len(r.wire)

\* tcp_ssl_close: of the pending record and the close_notify, the first k
\* that lwIP took, as copies.
LastRecords(r) == (IF SendRec(r) THEN <<Head(r.out)>> ELSE << >>) \o <<1>>
TlsClose(r, k) ==
  IF ~r.live \/ r.st = "shut" THEN r
  ELSE LET sent == SubSeq(LastRecords(r), 1, k)
       IN IF k > Len(LastRecords(r)) \/ Total(sent) > Room(r) THEN r
          ELSE [r EXCEPT !.wire = @ \o [i \in 1 .. Total(sent) |->
                                          [slot |-> NoSlot, rec |-> r.n + 1]]]

\* close() of the session: flush, then free.
CloseSession(r, k) == Free(TlsClose(r, k))

\* AsyncClientImpl::close on a connected client: onClosing closes the session,
\* then tcp_close; the events of the client are purged.
Close(r, k) ==
  IF r.tcp # "open" THEN r ELSE [CloseSession(r, k) EXCEPT !.tcp = "closing"]

\* tcp_ssl_write of n units.
Write(r, n, ok) ==
  IF SendApp(r) THEN Schedule(Built([r EXCEPT !.out = <<n>>, !.wrote = @ + 1]), ok)
  ELSE Schedule(r, ok)

\* What the application does in a callback: nothing, write n units, or close.
Nothing == [do |-> "nothing", n |-> 0]
Reaction == {Nothing} \cup [do : {"write"}, n : 1 .. 2] \cup [do : {"close"}, n : 0 .. 2]
React(r, a, ok) ==
  CASE a.do = "write" /\ r.live /\ r.wrote < Writes -> Write(r, a.n, ok)
    [] a.do = "close" -> Close(r, a.n)
    [] OTHER -> r

-----------------------------------------------------------------------------
(* process_ssl_engine.                                                     *)

\* The loop that streams rx_pend into the engine; a pbuf that was fed to its
\* end is credited to the peer's window as a whole.
Fed(c, r, n) ==
  LET end == r.off + n
      full == {m \in 0 .. Len(r.pend) : Total(SubSeq(r.pend, 1, m)) <= end}
      m == CHOOSE x \in full : \A y \in full : y <= x
      gone == Total(SubSeq(r.pend, 1, m))
  IN [Advance(c, r, n) EXCEPT !.pend = SubSeq(@, m + 1, Len(@)),
                              !.off = end - gone, !.win = @ + gone]
Taken(r) == Takes(r, Total(r.pend) - r.off)

\* Mutants: the head offset is kept, the units are credited as they are fed,
\* a pbuf is fed only when the engine takes it whole.
FeedKeepsOffset(c, r) == [Fed(c, r, Taken(r)) EXCEPT !.off = r.off + Taken(r)]
FeedCreditsUnits(c, r) == [Fed(c, r, Taken(r)) EXCEPT !.win = r.win + Taken(r)]
FeedWholePbufs(c, r) ==
  IF r.pend # << >> /\ Taken(r) < Head(r.pend) THEN r ELSE Fed(c, r, Taken(r))

Feed(c, r) == Fed(c, r, Taken(r))

HandshakeOver(c, r) == ~r.hs /\ (IF c \in Server THEN RecvApp(r) ELSE SendApp(r))

\* on_handshake: the application learns of the connection.
Told(r) == [r EXCEPT !.hs = TRUE, !.done = TRUE, !.told = TRUE]

\* A record leaves the engine: it is copied into the next slot, pinned until its
\* ACK, and the engine goes on to the next one.
Emit(r) ==
  LET n == Head(r.out)
  IN Built([OnWire(r, n, r.next) EXCEPT
              !.len[r.next] = n, !.rec[r.next] = r.n + 1,
              !.next = (r.next + 1) % Slots, !.pinned = @ + 1,
              !.out = Tail(@), !.defer = FALSE, !.stall = 0])

\* Mutant: the clock of a stall never starts.
DeferUnclocked(r) == [r EXCEPT !.defer = TRUE]

\* tcp_write refused the record: with nothing on the wire no ACK can help.
Defer(r) == [r EXCEPT !.defer = TRUE,
                      !.stall = IF r.wire # << >> THEN 0 ELSE IF @ = 0 THEN 1 ELSE @]

\* What follows the loop of passes.
Rest(c, r, a, ok) ==
  IF ~r.live THEN r
  ELSE IF ~r.defer /\ r.pinned < Slots /\ SendRec(r) THEN Schedule(r, ok)
  ELSE IF HandshakeOver(c, r) THEN React(Told(r), a, ok)
  ELSE r

Put(c, r) == s' = [s EXCEPT ![c] = r]

\* onPoll goes on after pump(); every other run just ends.
EndRun == run' = IF run.from = "poll" THEN [run EXCEPT !.pass = FeedLoops] ELSE NoRun
Leave(c, r, a, ok) == Put(c, Rest(c, r, a, ok)) /\ EndRun

\* The run enters its next pass, or leaves the loop.
GoOn(c, r, a, ok) ==
  IF run.pass + 1 < FeedLoops
  THEN Put(c, r) /\ run' = [run EXCEPT !.pass = @ + 1]
  ELSE Leave(c, r, a, ok)

Running(c) == run.conn = c /\ run.pass < FeedLoops

\* After yield() the connection may be gone.
PassFreed(c) ==
  /\ Running(c) /\ ~s[c].live
  /\ EndRun /\ UNCHANGED s

\* The engine is closed: on_error tells the application and closes.
PassClosed(c) ==
  /\ Running(c) /\ s[c].live /\ s[c].st = "shut"
  /\ \E k \in 0 .. 2 : Put(c, Close(s[c], k))
  /\ EndRun

\* Mutant: data is delivered before the application learns of the connection.
GreetedLater(c, r, a, ok) == r

\* on_handshake, when the handshake is over, and what the application does.
Greeted(c, r, a, ok) == IF HandshakeOver(c, r) THEN React(Told(r), a, ok) ELSE r
Greeting(c) == IF HandshakeOver(c, s[c]) THEN Reaction ELSE {Nothing}

\* on_data: the application gets the record, and the engine goes on behind it.
Delivered(r) == [r EXCEPT !.app = FALSE, !.done = TRUE, !.got = @ + 1]

\* A pass that finds application data: on_handshake comes first, then on_data.
PassData(c) ==
  /\ Running(c) /\ s[c].live /\ s[c].st # "shut" /\ RecvApp(s[c])
  /\ \E a \in Greeting(c), b \in Reaction, ok \in BOOLEAN :
       LET r == Greeted(c, s[c], a, ok)
       IN IF r.live THEN GoOn(c, React(Delivered(r), b, ok), Nothing, ok)
          ELSE Leave(c, r, Nothing, ok)

\* A pass that finds nothing to read: the next record is sent if a slot is
\* free and the window has room for it.  (A full pbuf queue of lwIP, which the
\* code checks with the window, ends the pass in the same way: no second guard.)
PassSend(c) ==
  /\ Running(c) /\ s[c].live /\ s[c].st # "shut" /\ ~RecvApp(s[c])
  /\ \E a \in Reaction, ok, written \in BOOLEAN :
       LET r == Greeted(c, s[c], a, ok)
           blocked == ~r.live \/ r.pinned >= Slots \/ ~SendRec(r) \/ Room(r) < Head(r.out)
       IN IF blocked THEN Leave(c, r, a, ok)
          ELSE IF written THEN GoOn(c, Emit(r), a, ok)
          ELSE Leave(c, Defer(r), a, ok)

\* The run enters process_ssl_engine: it feeds what waits, then passes.
Enter(c, r, from) == Put(c, Feed(c, r)) /\ run' = [conn |-> c, pass |-> 0, from |-> from]

LoopIdle == run = NoRun

\* The one-shot runs; it does nothing when the session was freed meanwhile.
RunScheduled(c) ==
  /\ LoopIdle /\ s[c].sched
  /\ IF s[c].live
     THEN Enter(c, [s[c] EXCEPT !.sched = FALSE, !.pump = "idle"], "schedule")
     ELSE Put(c, [s[c] EXCEPT !.sched = FALSE]) /\ UNCHANGED run

-----------------------------------------------------------------------------
(* Admission and start.                                                    *)

\* SSL_MAX_CONNECTIONS is 1 on this platform.
Busy == Cardinality(LiveServers) >= 1

\* tcp_ssl_register_pcb: the connection is on the list, find_ssl_pcb sees it.
Registered(r) == [r EXCEPT !.tcp = "open", !.live = TRUE]

\* tcp_ssl_new_client: an engine of its own, which starts with its hello.
NewClient(c) == Built([Registered(s[c]) EXCEPT !.out = Flight(c, 0)])

\* tcp_ssl_new_server: the engine of the server, shared and reset for each.
NewServer(c) == Registered(s[c])

\* Bound: an outgoing session shares nothing with the accepted ones and is
\* explored apart; connections come in order, when the closed ones have drained.
Apart(c) == \A d \in Conn : /\ s[d].tcp = "none" \/ {c, d} \subseteq Server
                            /\ s[d].live \/ s[d].wire = << >>
                            /\ d < c /\ {c, d} \subseteq Server => s[d].tcp # "none"

\* _acceptTls and _serveTls, in lwIP's context: a connection is refused while
\* one is live or when memory is short, also half way.
AcceptTls(c) ==
  /\ c \in Server /\ s[c].tcp = "none" /\ Apart(c)
  /\ \/ Put(c, [s[c] EXCEPT !.tcp = "gone"])
     \/ ~Busy /\ Put(c, NewServer(c))
  /\ UNCHANGED run

\* onConnected of an outgoing client: the first flight is sent at once; when
\* the session cannot be built the client closes.
ClientConnected(c) ==
  /\ LoopIdle /\ c \notin Server /\ s[c].tcp = "none" /\ Apart(c)
  /\ \/ Put(c, [s[c] EXCEPT !.tcp = "closing"]) /\ UNCHANGED run
     \/ Enter(c, NewClient(c), "start")

-----------------------------------------------------------------------------
(* lwIP and the peer, also while a run yields.                             *)

PeerSend(c) ==
  /\ s[c].tcp = "open"
  /\ \E n \in 1 .. 2 :
       /\ s[c].sent + n <= Len(Stream) /\ n <= s[c].win
       /\ s[c].n >= Needs(c, s[c].sent + n)
       /\ \A i \in 1 .. Len(s[c].wire) : s[c].wire[i].rec > Needs(c, s[c].sent + n)
       /\ Put(c, [s[c] EXCEPT !.sent = @ + n, !.win = @ - n, !.rxq = Append(@, n)])
  /\ UNCHANGED run

PeerFin(c) ==
  /\ s[c].tcp = "open" /\ 0 \notin Range(s[c].rxq)
  /\ Put(c, [s[c] EXCEPT !.sent = Len(Stream), !.rxq = Append(@, 0)])
  /\ UNCHANGED run

\* An ACK for n units; a SENT event is queued for an open connection, or finds
\* no memory, and lwIP does not repeat it.  What a closed one has left is
\* acknowledged at once.
PeerAck(c) ==
  /\ \E n \in 1 .. Len(s[c].wire) :
       LET r == [s[c] EXCEPT !.wire = SubSeq(@, n + 1, Len(@))]
       IN \/ s[c].tcp = "open" /\ Put(c, [r EXCEPT !.acks = @ + n])
          \/ s[c].tcp = "open" /\ r.lost + n <= Losses /\ Put(c, [r EXCEPT !.lost = @ + n])
          \/ s[c].tcp # "open" /\ Put(c, [r EXCEPT !.wire = << >>, !.tcp = "gone"])
  /\ UNCHANGED run

\* An RST or a timeout of TCP: lwIP frees the pcb, and tcp_error closes the
\* session from within.  What tcp_ssl_close still hands to tcp_write goes to
\* the freed pcb, and nowhere.
PeerReset(c) ==
  /\ s[c].tcp \in {"open", "closing"}
  /\ Put(c, [CloseSession(s[c], 0) EXCEPT !.tcp = "gone", !.wire = << >>])
  /\ UNCHANGED run

-----------------------------------------------------------------------------
(* Events that AsyncTCP dispatches to the hooks.                           *)

\* tcp_ssl_read: the pbuf joins rx_pend, to be fed by a run of the engine.
Queued(r, n, ok) == Schedule([r EXCEPT !.pend = Append(@, n)], ok)

\* feedRx: whatever was queued, the session takes the handshake for done.
FedRx(r, n, ok) == [Queued(r, n, ok) EXCEPT !.done = TRUE]

\* onRecv of a pbuf, which is progress, or of the FIN, which closes.
RecvEvent(c) ==
  /\ LoopIdle /\ s[c].tcp = "open" /\ s[c].rxq # << >>
  /\ \E ok \in BOOLEAN, k \in 0 .. 2 :
       LET r == [s[c] EXCEPT !.rxq = Tail(@)]
       IN IF Head(s[c].rxq) = 0 \/ Len(r.pend) >= PendMax THEN Put(c, Close(r, k))
          ELSE Put(c, [FedRx(r, Head(s[c].rxq), ok) EXCEPT !.quiet = 0])
  /\ UNCHANGED run

\* tcp_ssl_sent: ACKs add up, because a record is longer than a segment; the
\* slots they cover are released, oldest first, and a waiting record is pumped.
Nth(r, j) == (r.next - r.pinned + j - 1 + Slots) % Slots
Pinned(r) == [j \in 1 .. r.pinned |-> r.len[Nth(r, j)]]

\* Mutant: a partial ACK is forgotten.
ReleaseForgets(r) ==
  LET done == {m \in 0 .. r.pinned : Total(SubSeq(Pinned(r), 1, m)) <= r.acked}
      m == CHOOSE x \in done : \A y \in done : y <= x
  IN [r EXCEPT !.acked = 0, !.pinned = @ - m]

Release(r) ==
  LET done == {m \in 0 .. r.pinned : Total(SubSeq(Pinned(r), 1, m)) <= r.acked}
      m == CHOOSE x \in done : \A y \in done : y <= x
  IN [r EXCEPT !.acked = IF m = r.pinned THEN 0 ELSE @ - Total(SubSeq(Pinned(r), 1, m)),
               !.pinned = @ - m,
               !.len = [i \in Slot |-> IF \E j \in 1 .. m : i = Nth(r, j) THEN 0 ELSE @[i]]]

\* Mutant: released slots do not wake the pump.
SentAckSilent(r, n, ok) == Release([r EXCEPT !.acked = @ + n])

SentAck(r, n, ok) ==
  LET x == Release([r EXCEPT !.acked = @ + n])
  IN IF SendRec(x) THEN Schedule(x, ok) ELSE x

\* onSent: n units of the acknowledged ones.
SentEvent(c) ==
  /\ LoopIdle /\ s[c].tcp = "open"
  /\ \E n \in 1 .. s[c].acks, ok \in BOOLEAN :
       Put(c, [(IF s[c].live THEN SentAck(s[c], n, ok) ELSE s[c])
                 EXCEPT !.acks = @ - n, !.quiet = 0])
  /\ UNCHANGED run

Sooner(a, b) == IF a <= b THEN a ELSE b
Stalled(r) == r.stall > StallPolls
TxBusy(r) == r.defer \/ r.pinned > 0 \/ SendRec(r)
Idle(r) == /\ r.done /\ r.quiet >= IdlePolls
           /\ ~TxBusy(r) /\ r.pump = "idle" /\ Room(r) > 0

\* onPoll: the handshake's timeout; then re-arm, and drive the engine by hand
\* in case the pool of scheduled functions was full.
Poll(c) ==
  /\ LoopIdle /\ s[c].tcp = "open" /\ s[c].live
  /\ \E k \in 0 .. 2, ok \in BOOLEAN :
       LET r == [s[c] EXCEPT !.quiet = Sooner(@ + 1, IdlePolls),
                             !.stall = IF @ = 0 THEN 0 ELSE Sooner(@ + 1, StallPolls + 1)]
       IN IF ~r.done /\ r.quiet >= HsPolls THEN Put(c, Close(r, k)) /\ UNCHANGED run
          ELSE Enter(c, SentAck(r, 0, ok), "poll")

\* The rest of onPoll: close a stalled connection, or one that fell silent.
PollRest(c) ==
  /\ run.conn = c /\ run.pass = FeedLoops
  /\ \E k \in 0 .. 2 :
       Put(c, IF s[c].live /\ (Stalled(s[c]) \/ Idle(s[c])) THEN Close(s[c], k) ELSE s[c])
  /\ run' = NoRun

-----------------------------------------------------------------------------
(* The application, outside its callbacks.                                 *)

\* onWrite: no more than the window has room for.
AppWrite(c) ==
  /\ LoopIdle /\ s[c].live /\ s[c].told /\ s[c].wrote < Writes
  /\ \E n \in 1 .. 2, ok \in BOOLEAN :
       n <= Room(s[c]) /\ Put(c, Write(s[c], n, ok))
  /\ UNCHANGED run

\* close(), also by a function that runs while the engine yields.
AppClose(c) ==
  /\ s[c].tcp = "open"
  /\ \E k \in 0 .. 2 : Put(c, Close(s[c], k))
  /\ UNCHANGED run

Init == s = [c \in Conn |-> Fresh] /\ run = NoRun

Pass(c) == PassFreed(c) \/ PassClosed(c) \/ PassData(c) \/ PassSend(c) \/ PollRest(c)
Network(c) == PeerSend(c) \/ PeerFin(c) \/ PeerAck(c) \/ PeerReset(c)
Event(c) == RecvEvent(c) \/ SentEvent(c) \/ Poll(c)
Application(c) == AppWrite(c) \/ AppClose(c)

Next == \E c \in Conn : \/ AcceptTls(c) \/ ClientConnected(c)
                        \/ Pass(c) \/ RunScheduled(c)
                        \/ Network(c) \/ Event(c) \/ Application(c)

Shorter(q, r) == Len(r) < Len(q)

\* The steps of Pass, RunScheduled, RecvEvent, SentEvent, Poll and PeerAck, by
\* the change that only they make.
PassStep == ~LoopIdle /\ run' # run
ScheduledStep(c) == s[c].sched /\ ~s'[c].sched
RecvStep(c) == Shorter(s[c].rxq, s'[c].rxq)
SentStep(c) == s'[c].acks < s[c].acks
PollStep(c) == LoopIdle /\ s[c].live /\ (run'.from = "poll" \/ ~s'[c].live)
AckStep(c) == Shorter(s[c].wire, s'[c].wire)

\* Weak fairness of each: the loop ends its runs and serves what waits, lwIP
\* polls every open connection, TCP gets an ACK or gives the peer up.  What
\* waits for the loop does not stop waiting while a run is on.
Fairness ==
  /\ <>[](~LoopIdle) => []<><<PassStep>>_vars
  /\ \A c \in Conn :
       /\ <>[](s[c].sched) => []<><<ScheduledStep(c)>>_vars
       /\ <>[](s[c].rxq # << >>) => []<><<RecvStep(c)>>_vars
       /\ <>[](s[c].acks > 0) => []<><<SentStep(c)>>_vars
       /\ <>[](s[c].live) => []<><<PollStep(c)>>_vars
       /\ <>[](s[c].wire # << >>) => []<><<AckStep(c)>>_vars

Spec == Init /\ [][Next]_vars /\ Fairness

-----------------------------------------------------------------------------
(* Properties.                                                             *)

\* Every field of a connection has its type; counters stay within bounds.
TypeOK ==
  /\ \A c \in Conn :
       LET r == s[c]
       IN /\ r.tcp \in {"none", "open", "closing", "gone"}
          /\ r.st \in {"hs", "open", "shut"} /\ r.pump \in {"idle", "dropped", "queued"}
          /\ {r.live, r.app, r.defer, r.sched, r.hs, r.done, r.told} \subseteq BOOLEAN
          /\ r.next \in Slot /\ r.pinned \in 0 .. Slots /\ r.acked \in 0 .. SndBuf
          /\ Range(r.pend) \subseteq 1 .. 2 /\ Len(r.pend) <= PendMax
          /\ Range(r.out) \subseteq 1 .. 2 /\ Room(r) >= 0
          /\ r.off < IF r.pend = << >> THEN 1 ELSE Head(r.pend)
          /\ r.live => r.tcp = "open"
  /\ run # NoRun => run.conn \in Conn /\ run.pass \in 0 .. FeedLoops

\* What the pinned slots hold is what is on the wire from the ring, plus what
\* was acknowledged and not yet told, never to be told, or not yet enough to
\* release a slot: a slot is released for the ACKs that are told, no sooner and
\* not twice, and stays pinned for a lost one only (out_ring_acked, tcp_ssl_sent).
RingMatchesWire ==
  \A c \in Conn : s[c].live =>
    Total(Pinned(s[c])) = s[c].acked + s[c].acks + s[c].lost
                          + Cardinality({i \in 1 .. Len(s[c].wire) : s[c].wire[i].slot # NoSlot})

\* lwIP retransmits from the slot itself: while it may, the slot still holds
\* the record that was copied into it (process_ssl_engine: "the engine buffer
\* is always free to reuse").  Until the session is closed: then the slab goes.
SlotIntact ==
  \A c \in Conn : s[c].live =>
    \A i \in 1 .. Len(s[c].wire) :
      s[c].wire[i].slot # NoSlot => s[c].rec[s[c].wire[i].slot] = s[c].wire[i].rec

\* The window the peer has left, what is queued and what waits for the engine
\* make up the whole window: nothing is credited twice or never (tcp_recved).
WindowConserved ==
  \A c \in Conn : s[c].live =>
    s[c].win + Total(s[c].rxq) + Total(s[c].pend) = Window

\* onData never comes before onConnect: a request would go to no handler.
ConnectBeforeData == \A c \in Conn : s[c].got > 0 => s[c].told

\* Unless a run is on, a record that could be sent has a run scheduled, or
\* remembered for the poll: no wake-up is lost.
PumpArmed ==
  \A c \in Conn :
    LET r == s[c]
    IN r.live /\ SendRec(r) /\ ~r.defer /\ r.pinned < Slots /\ run.conn # c => r.pump # "idle"

\* What arrived is fed to the engine in the end, although a run feeds only up
\* to the first record of application data; or the connection goes.
AllFed == \A c \in Conn : s[c].pend # << >> ~> s[c].pend = << >> \/ ~s[c].live

\* Every slot is pinned by units that were acknowledged in SENTs that are lost:
\* no ACK is to come, no clock runs, and the pinned slots count as a busy sender.
Wedged(r) == r.live /\ r.lost > 0 /\ r.pinned = Slots /\ r.wire = << >> /\ r.acks = 0

\* A record the engine holds is sent in the end, whatever tcp_write and the
\* pool of scheduled functions refuse, or the connection is reset as stalled:
\* but for a ring that lost SENTs have wedged as a whole.
RecordLeaves == \A c \in Conn : SendRec(s[c]) ~> ~SendRec(s[c]) \/ Wedged(s[c])
=============================================================================
