------------------------------ MODULE MbedTls ------------------------------
(***************************************************************************)
(* TLS on the ESP32: one connection, its mbedTLS session and the client    *)
(* hooks that drive it.                                                    *)
(*                                                                         *)
(* Three threads meet here.  The service task ("async") dispatches the     *)
(* client's events to the hooks: it alone feeds the BIO buffer, shakes     *)
(* hands and reads.  lwIP's thread queues what the peer sends and may      *)
(* close the session in its error callback.  A task of the application     *)
(* writes and closes.                                                      *)
(*                                                                         *)
(* Inbound bytes are numbered units; Stream says what each is: "m" inside  *)
(* a record, "h" the end of a handshake message, "d" the end of a record   *)
(* of application data, "x" a record that mbedTLS rejects.  Outbound, a    *)
(* record is its number and 0 stands for bytes that are no record.         *)
(* Cryptography and certificates are left out.                             *)
(***************************************************************************)
EXTENDS Integers, Sequences, FiniteSets, SequencesExt

CONSTANTS
  Roles,       \* which ends of a connection are explored
  BufSize,     \* SSL_RX_BUF_SIZE in units
  BufMax,      \* SSL_RX_BUF_MAX in units
  Window,      \* TCP_WND in units
  Timeout,     \* handshake_timeout in polls
  Apps,        \* records of application data that the peer sends
  MaxWire      \* bound: what is handed to tcp_write; the last two places are
               \* kept for the flights of the handshake

ASSUME ConstantsAssumption ==
  /\ Roles \subseteq {"server", "client"}
  /\ {BufSize, BufMax, Window, Timeout, Apps, MaxWire} \subseteq Nat
  /\ 0 < BufSize /\ BufSize <= BufMax /\ 0 < Window /\ 2 < MaxWire

VARIABLES
  net,   \* what lwIP holds, see Init
  bio,   \* the session's receive buffer and the pbufs it holds back
  tls,   \* the mbedTLS context
  ses,   \* the other fields of the session, and what the application saw
  pc     \* where the service task is in onRecv

vars == <<net, bio, tls, ses, pc>>

Stream == <<"h", "m", "h">> \o [i \in 1 .. 2 * Apps |-> IF i % 2 = 1 THEN "m" ELSE "d"]
                            \o <<"x">>

\* The peer sends unit k when this many of our flights reached it; a flight is
\* due once as many messages have been read, one earlier for a client.
Needs(k) == IF k > 3 THEN 2 ELSE (IF k = 1 THEN 0 ELSE 1) + (IF ses.role = "client" THEN 1 ELSE 0)
Messages == Cardinality({i \in 1 .. Len(tls.fed) : Stream[tls.fed[i]] = "h"})
Due == LET n == Messages + (IF ses.role = "client" THEN 1 ELSE 0) IN IF n > 2 THEN 2 ELSE n

\* The session as it is built.
Built ==
  [role : Roles,
   live : {FALSE},   \* the session was started
   pcb : {FALSE},    \* _pcb of the session is set
   done : {FALSE},   \* _handshake_done
   ca : {FALSE},     \* _have_ca_cert
   start : {FALSE}, age : {0},     \* handshake_start_time # 0; polls since
   told : {FALSE}, got : {0},      \* history: onConnect, onData calls
   closing : {"no"}] \* who is between onClosing and tcp_close

Init ==
  /\ net = [pcb |-> "open",     \* open, closed by the client, gone
            sent |-> 0,         \* units the peer has sent
            q |-> << >>,        \* queued RECV events, each a chain of pbufs; << >> is the FIN
            win |-> Window,     \* the receive window the peer has left
            wire |-> << >>]     \* what was handed to tcp_write
  /\ bio \in [cap : {0, BufSize},    \* _ssl_rx_buf_capacity, 0 when there is no buffer
              data : {<< >>}, pos : {0},
              pend : {<< >>}]        \* _pending_pbufs
  /\ tls = [fed |-> << >>,      \* history: the units mbedTLS has read
            enc |-> 0,          \* records encrypted
            left |-> FALSE,     \* out_left: the last record is still to be sent
            dead |-> FALSE]
  /\ ses \in Built
  /\ pc = "idle"

-----------------------------------------------------------------------------
(* The receive buffer.                                                     *)

Compact(b) == [b EXCEPT !.data = SubSeq(@, b.pos + 1, Len(@)), !.pos = 0]

\* feedRxData: [ok, b] for the pbuf u, when realloc grants `grow` more units.
FeedData(b, u, grow) ==
  IF b.cap = 0 THEN [ok |-> TRUE, b |-> b]
  ELSE LET r == IF Len(u) > b.cap - Len(b.data) /\ b.pos > 0 THEN Compact(b) ELSE b
           need == Len(r.data) + Len(u)
       IN IF need > BufMax \/ need > r.cap + grow THEN [ok |-> FALSE, b |-> r]
          ELSE [ok |-> TRUE, b |-> [r EXCEPT !.data = @ \o u,
                                             !.cap = IF need > @ THEN need ELSE @]]

\* Mutant of FeedPbuf: a pbuf that fits goes in, whatever is held back before it.
FeedPbufPastHeld(st, u, grow) ==
  LET f == FeedData(st.b, u, grow)
  IN IF f.ok THEN [b |-> f.b, n |-> st.n + Len(u)]
     ELSE [st EXCEPT !.b = [f.b EXCEPT !.pend = Append(@, u)]]

\* A pbuf is consumed if it fits and none is held back before it, or else held back.
FeedPbuf(st, u, grow) ==
  LET f == FeedData(st.b, u, grow)
  IN IF st.b.pend = << >> /\ f.ok THEN [b |-> f.b, n |-> st.n + Len(u)]
     ELSE [st EXCEPT !.b = [(IF st.b.pend = << >> THEN f.b ELSE st.b)
                               EXCEPT !.pend = Append(@, u)]]

\* feedRx: older pbufs first, until one does not fit; n units are consumed.
FeedRx(b, chain, grow) ==
  FoldLeft(LAMBDA st, u : FeedPbuf(st, u, grow),
           [b |-> [b EXCEPT !.pend = << >>], n |-> 0],
           b.pend \o chain)

Unread(b) == SubSeq(b.data, b.pos + 1, Len(b.data))

\* mbedTLS reads through the BIO up to the end of a record, or all there is.
Ends(b) == {i \in 1 .. Len(Unread(b)) : Stream[Unread(b)[i]] # "m"}
Pulled(b) == IF Ends(b) = {} THEN Len(Unread(b))
             ELSE CHOOSE i \in Ends(b) : \A j \in Ends(b) : i <= j
Took(b, n) == IF b.pos + n >= Len(b.data) THEN [b EXCEPT !.data = << >>, !.pos = 0]
              ELSE [b EXCEPT !.pos = @ + n]
Pull == /\ bio' = Took(bio, Pulled(bio))
        /\ tls' = [tls EXCEPT !.fed = @ \o SubSeq(Unread(bio), 1, Pulled(bio)),
                              !.dead = @ \/ \E i \in Ends(bio) : i <= Pulled(bio)
                                                /\ Stream[Unread(bio)[i]] = "x"]

-----------------------------------------------------------------------------
(* The way out.                                                            *)

\* The BIO's send of record n: tcp_write takes it or not, tcp_output may be out
\* of memory ("again") or fail; mbedTLS keeps what was not sent.
Room == Len(net.wire) < MaxWire - 2
Outcome == {"sent", "unsent", "failed"} \cup (IF Room THEN {"again"} ELSE {})
Put(n, how) ==
  /\ net' = [net EXCEPT !.wire = IF how = "failed" \/ ~ses.pcb THEN @ ELSE Append(@, n)]
  /\ tls' = [tls EXCEPT !.enc = n, !.left = how # "sent" \/ ~ses.pcb]

\* Mutant of Record: what is left over of a refused send is forgotten.
RecordFresh == tls.enc + 1

\* The record to send next: what is left over, or a new one.
Record == IF tls.left THEN tls.enc ELSE tls.enc + 1

-----------------------------------------------------------------------------
(* Closing.                                                                *)

\* close() of the client: onClosing comes first, tcp_close and the purge of
\* the client's events follow.
Closing(s, who) == [s EXCEPT !.pcb = FALSE, !.done = FALSE,
                             !.closing = IF net.pcb = "open" THEN who ELSE @]
Close(who) == ses' = Closing(ses, who)

Closed(who) ==
  /\ ses.closing = who
  /\ ses' = [ses EXCEPT !.closing = "no"]
  /\ net' = IF net.pcb = "open" THEN [net EXCEPT !.pcb = "closed", !.q = << >>] ELSE net
  /\ UNCHANGED <<bio, tls, pc>>

AsyncIdle == pc = "idle" /\ ses.closing # "async"

-----------------------------------------------------------------------------
(* The service task.                                                       *)

\* startClient and _startSSLClient, with a CA to verify the server by or
\* without; on any failure what was loaded is freed.
ClientSession(ca) == [ses EXCEPT !.live = TRUE, !.pcb = TRUE, !.start = FALSE, !.ca = ca]

\* onConnected of an outgoing client: its session starts on the pcb, or fails;
\* then the application hears of it and the client closes.
BeginClient ==
  /\ AsyncIdle /\ ses.role = "client" /\ ~ses.live /\ net.pcb = "open"
  /\ \/ \E ca \in BOOLEAN : ses' = ClientSession(ca)
     \/ ses' = Closing([ses EXCEPT !.live = TRUE], "async")
  /\ UNCHANGED <<net, bio, tls, pc>>

\* startSSLServer: the server's parsed certificate, and no verification.
ServerSession == [ses EXCEPT !.live = TRUE, !.pcb = TRUE, !.start = FALSE]

\* _acceptedTls: short of memory, or when the session does not start, the
\* client is aborted before it has hooks, and deleted.
BeginServer ==
  /\ AsyncIdle /\ ses.role = "server" /\ ~ses.live /\ net.pcb = "open"
  /\ \/ ses' = ServerSession /\ UNCHANGED net
     \/ net' = [net EXCEPT !.pcb = "closed", !.q = << >>] /\ UNCHANGED ses
  /\ UNCHANGED <<bio, tls, pc>>

\* Mutant of Recv: what arrived is acknowledged, held back or not.
RecvCreditsAll ==
  /\ AsyncIdle /\ ses.live /\ net.pcb = "open" /\ net.q # << >> /\ Head(net.q) # << >>
  /\ \E grow \in {0, BufMax} : bio' = FeedRx(bio, Head(net.q), grow).b
  /\ net' = [net EXCEPT !.q = Tail(@), !.win = @ + Len(FlattenSeq(Head(net.q)))]
  /\ pc' = IF ses.done THEN "read" ELSE "shake"
  /\ UNCHANGED <<tls, ses>>

\* onRecv: the pbufs go to the buffer, what fitted is acknowledged.
Recv ==
  /\ AsyncIdle /\ ses.live /\ net.pcb = "open" /\ net.q # << >> /\ Head(net.q) # << >>
  /\ \E grow \in {0, BufMax} :
       LET f == FeedRx(bio, Head(net.q), grow)
       IN /\ bio' = f.b
          /\ net' = [net EXCEPT !.q = Tail(@), !.win = @ + f.n]
  /\ pc' = IF ses.done THEN "read" ELSE "shake"
  /\ UNCHANGED <<tls, ses>>

Fin ==
  /\ AsyncIdle /\ ses.live /\ net.pcb = "open" /\ net.q # << >> /\ Head(net.q) = << >>
  /\ net' = [net EXCEPT !.q = Tail(@)]
  /\ Close("async")
  /\ UNCHANGED <<bio, tls, pc>>

\* onError of the application, then close().
Fail == Close("async") /\ pc' = "idle"

\* runSSLHandshake: entered, it starts the clock; without a pcb it fails.
ShakeEnter ==
  /\ pc = "shake"
  /\ IF ses.pcb THEN ses' = [ses EXCEPT !.start = TRUE] /\ pc' = "hand" ELSE Fail
  /\ UNCHANGED <<net, bio, tls>>

\* mbedTLS wants to read or to write: it is tried again, unless it is late.
Retry == IF ses.age > Timeout THEN Fail ELSE pc' = "idle" /\ UNCHANGED ses

\* mbedtls_ssl_handshake sends the flight that is due ...
Behind == tls.left \/ tls.enc < Due
ShakeSend ==
  /\ pc = "hand" /\ Behind
  /\ \E how \in Outcome :
       /\ Put(Record, how)
       /\ CASE ~ses.pcb \/ how \in {"unsent", "failed"} -> Fail
            [] ses.pcb /\ how = "again" -> Retry
            [] OTHER -> UNCHANGED <<pc, ses>>
  /\ UNCHANGED bio

\* ... reads the next message ...
ShakeRead ==
  /\ pc = "hand" /\ ~Behind /\ Messages < 2 /\ Unread(bio) # << >>
  /\ Pull
  /\ UNCHANGED <<net, ses, pc>>

\* ... and returns when there is none ...
ShakeWait ==
  /\ pc = "hand" /\ ~Behind /\ Messages < 2 /\ Unread(bio) = << >>
  /\ Retry
  /\ UNCHANGED <<net, bio, tls>>

\* ... or fails, for a bad certificate or an alert ...
ShakeFail ==
  /\ pc = "hand" /\ Messages > 0
  /\ Fail
  /\ UNCHANGED <<net, bio, tls>>

\* ... or when hands are shaken: the certificate is looked at, if there is a CA
\* to verify it by, and the application is told, and may close.
ShakeDone ==
  /\ pc = "hand" /\ ~Behind /\ Messages = 2
  /\ LET s == [ses EXCEPT !.done = TRUE, !.told = TRUE]
     IN ses' \in {s, Closing(s, "async")} \cup (IF ses.ca THEN {Closing(ses, "async")} ELSE {})
  /\ pc' = "idle"
  /\ UNCHANGED <<net, bio, tls>>

\* sslRead until there is no record left, once more for what was held back.
\* An error of the second round is passed over.
Reading == pc \in {"read", "again"}
ReadFails == ~ses.pcb \/ tls.dead
ReadFail ==
  /\ Reading /\ ReadFails
  /\ IF pc = "read" /\ net.pcb = "open" THEN Close("async") ELSE UNCHANGED ses
  /\ pc' = "idle"
  /\ UNCHANGED <<net, bio, tls>>

\* A record of data goes to onData, which may close; the loop ends when the
\* client has no pcb any more.
ReadRecord ==
  /\ Reading /\ ~ReadFails /\ Unread(bio) # << >>
  /\ Pull
  /\ LET whole == Ends(bio) # {} /\ ~tls'.dead
         s == IF whole THEN [ses EXCEPT !.got = @ + 1] ELSE ses
     IN \/ ses' = s /\ pc' = IF whole /\ net.pcb # "open" THEN "idle" ELSE pc
        \/ whole /\ ses' = Closing(s, "async") /\ pc' = "idle"
  /\ UNCHANGED net

ReadNone ==
  /\ Reading /\ ~ReadFails /\ Unread(bio) = << >>
  /\ IF pc = "again" THEN pc' = "idle" /\ UNCHANGED <<bio, net>>
     ELSE \E grow \in {0, BufMax} :
            LET f == FeedRx(bio, << >>, grow)
            IN /\ bio' = f.b
               /\ net' = IF net.pcb = "open" THEN [net EXCEPT !.win = @ + f.n] ELSE net
               /\ pc' = IF f.n > 0 THEN "again" ELSE "idle"
  /\ UNCHANGED <<tls, ses>>

\* handshakeTimeoutElapsed: never before the handshake was entered.
Elapsed(s) == s.start /\ s.age > Timeout

\* Mutant of Poll: nobody looks at the deadline.
PollIdle ==
  /\ AsyncIdle /\ ses.live /\ net.pcb = "open"
  /\ ses' = [ses EXCEPT !.age = IF ses.start /\ @ <= Timeout THEN @ + 1 ELSE @]
  /\ UNCHANGED <<net, bio, tls, pc>>

\* onPoll: the handshake's deadline.
Poll ==
  /\ AsyncIdle /\ ses.live /\ net.pcb = "open"
  /\ LET s == [ses EXCEPT !.age = IF ses.start /\ @ <= Timeout THEN @ + 1 ELSE @]
     IN ses' = IF ~s.done /\ Elapsed(s) THEN Closing(s, "async") ELSE s
  /\ UNCHANGED <<net, bio, tls, pc>>

-----------------------------------------------------------------------------
(* lwIP's thread and the peer.                                             *)

\* A segment of one or two pbufs of one or two units.
Chains(k) == {<<<<k>>>>, <<<<k, k + 1>>>>, <<<<k>>, <<k + 1>>>>, <<<<k, k + 1>>, <<k + 2>>>>}
Units(chain) == Len(FlattenSeq(chain))
PeerSend ==
  /\ net.pcb = "open"
  /\ \E chain \in Chains(net.sent + 1) :
       LET n == Units(chain)
       IN /\ net.sent + n <= Len(Stream) /\ n <= net.win
          /\ Cardinality(Range(net.wire) \ {0}) >= Needs(net.sent + n)
          /\ net' = [net EXCEPT !.sent = @ + n, !.win = @ - n, !.q = Append(@, chain)]
  /\ UNCHANGED <<bio, tls, ses, pc>>

PeerFin ==
  /\ net.pcb = "open" /\ << >> \notin Range(net.q)
  /\ net' = [net EXCEPT !.sent = Len(Stream), !.q = Append(@, << >>)]
  /\ UNCHANGED <<bio, tls, ses, pc>>

\* tcp_error: lwIP freed the pcb; the hooks close the session from its thread.
PeerReset ==
  /\ net.pcb = "open"
  /\ net' = [net EXCEPT !.pcb = "gone", !.q = << >>]
  /\ ses' = [ses EXCEPT !.pcb = FALSE, !.done = FALSE]
  /\ UNCHANGED <<bio, tls, pc>>

-----------------------------------------------------------------------------
(* A task of the application.                                              *)

\* write() of the session: one record, or what is left of the last.  The code
\* takes no lock here; that mbedtls_ssl_write is one step, which neither a run
\* of the service task nor another writer enters, is a restriction of the model.
SessionWrite == ses.pcb /\ \E how \in Outcome : Put(Record, how)

\* add(): onWrite encrypts one record; before the handshake is done it
\* declines, and the bytes go to tcp_write as they are.
AppWrite ==
  /\ ses.live /\ net.pcb = "open" /\ Room
  /\ IF ses.done /\ ses.pcb
     THEN SessionWrite
     ELSE ~ses.done /\ net' = [net EXCEPT !.wire = Append(@, 0)] /\ UNCHANGED tls
  /\ UNCHANGED <<bio, ses, pc>>

AppClose ==
  /\ ses.live /\ net.pcb = "open" /\ ses.closing = "no"
  /\ Close("app")
  /\ UNCHANGED <<net, bio, tls, pc>>

Async == \/ BeginClient \/ BeginServer \/ Recv \/ Fin
         \/ ShakeEnter \/ ShakeSend \/ ShakeRead \/ ShakeWait \/ ShakeFail \/ ShakeDone
         \/ ReadFail \/ ReadRecord \/ ReadNone
         \/ Closed("async")
Network == PeerSend \/ PeerFin \/ PeerReset
Application == AppWrite \/ AppClose \/ Closed("app")

Next == Async \/ Poll \/ Network \/ Application

\* The service task goes on, lwIP polls, a close that began ends.  Each has
\* finitely much to do, so weak fairness of it is that it is idle time and again.
AsyncWork == \/ pc # "idle" \/ ses.closing = "async"
             \/ net.pcb = "open" /\ (~ses.live \/ net.q # << >>)
PollWork == AsyncIdle /\ ses.live /\ net.pcb = "open" /\ ses.start /\ ses.age <= Timeout
Fairness == []<>~AsyncWork /\ []<>~PollWork /\ []<>(ses.closing # "app")

Spec == Init /\ [][Next]_vars /\ Fairness

\* The same in the usual form, which TLC evaluates much more slowly.
FairSpec == Init /\ [][Next]_vars
            /\ WF_vars(Async) /\ WF_vars(Poll) /\ WF_vars(Closed("app"))

-----------------------------------------------------------------------------
(* Properties.                                                             *)

\* feedRx: whatever is compacted, grown, held back and retried, the
\* bytes mbedTLS has read, those in the buffer, those held and those queued
\* are together what the peer sent, in its order and without a gap.
Arrived(q) == FlattenSeq([i \in 1 .. Len(q) |-> FlattenSeq(q[i])])
Inbound == tls.fed \o (Unread(bio) \o FlattenSeq(bio.pend)) \o Arrived(net.q)
WireOrder ==
  net.pcb = "open" /\ bio.cap > 0 => Inbound = [i \in 1 .. Len(Inbound) |-> i]

\* onRecv: what is in the event queue or held back is missing from the
\* peer's window, no more and no less: nothing is acknowledged twice or never.
CreditMatches ==
  net.pcb = "open" =>
    net.win + Len(FlattenSeq(bio.pend)) + Len(Arrived(net.q)) = Window

\* _lwip_ssl_send: the service task's flights and a writer's records
\* reach tcp_write in the order they were encrypted, and none is skipped,
\* whichever send was refused. (One may be repeated: see "again".)
RecordsInOrder ==
  \A i \in 1 .. Len(net.wire) : LET n == net.wire[i] IN n > 0 =>
    /\ \A j \in 1 .. i - 1 : net.wire[j] <= n
    /\ n > 1 => \E j \in 1 .. i - 1 : net.wire[j] = n - 1

\* onPoll: a handshake that was started succeeds or ends the connection.
HandshakeEnds == ses.start /\ ~ses.done ~> ses.done \/ net.pcb # "open"

\* Every session that was started gets as far as a handshake or loses its pcb.
\* AsyncSecureSession.h:676 says so of an outgoing client.
HandshakeStarts == ses.live ~> ses.start \/ net.pcb # "open"
=============================================================================
