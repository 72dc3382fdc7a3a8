------------------------------ MODULE Admission ------------------------------
(***************************************************************************)
(* Admission of TLS connections on the mbedTLS build (ESP32, LibreTiny):    *)
(* SecureServerHooks of src/src/AsyncSecureServer.cpp with the park queue   *)
(* of AsyncTCPParkQueue.h, and the listener session of AsyncServerImpl.     *)
(*                                                                          *)
(* A connection is served at once while fewer than MaxLive sessions exist,  *)
(* else parked: lwIP calls the hooks back for it, and it is promoted, shed  *)
(* or lost.  A step is what runs with the lwIP core lock held, or between   *)
(* two reads of shared state on the async task.  The life of a served       *)
(* client is ClientLife's; here it is delivered, ends, and is destroyed.    *)
(* Which free slot the pool's index points at is left open, and the bytes a *)
(* parked connection buffers are not modelled.                              *)
(***************************************************************************)
EXTENDS Naturals, FiniteSets, SequencesExt

CONSTANTS
  Conn,        \* connections the peers open
  Server,      \* TLS listeners; the pool of slots is one for all of them
  Slot,        \* pending_pool, SSL_PARKED_SLOTS of them
  MaxLive,     \* SSL_MAX_CONNECTIONS
  MayFail,     \* whether allocating a client or an ACCEPT event can fail
  None,        \* a NULL pointer
  MaxSession   \* bound: listener sessions before begin() and end() stop

ASSUME AdmissionAssumption ==
  /\ IsFiniteSet(Slot)
  /\ MaxLive \in Nat
  /\ MayFail \in BOOLEAN
  /\ None \notin Conn
  /\ MaxSession \in Nat

VARIABLES
  at,         \* where each connection is
  server,     \* the listener it arrived at
  slot,       \* pending_pool[i].pcb
  line,       \* per server: the list _secureCtx.pending, by slots
  parked,     \* per server: _secureCtx.parked
  accepts,    \* queued ACCEPT events, front first
  lost,       \* clients whose pcb failed before their ACCEPT was dispatched
  stale,      \* history: those not yet delivered when their listener was ended
  live,       \* the AsyncSecureSession objects, by connection: _active_count
  session,    \* AsyncServerImpl::_session
  listening   \* servers with a listening pcb

listener == <<session, listening>>
vars ==
  <<at, server, slot, line, parked, accepts, lost, stale, live, listener>>

\* none; parked: bound to the hooks; offered, promoted (had been
\* parked): a client, its ACCEPT queued;
\* checked: its ACCEPT is being dispatched; open: delivered, with its session;
\* ending: its discard hook is still to run; ended: its hook has run; gone.
Place == {"none", "parked", "offered", "promoted", "checked", "open", "ending", "ended", "gone"}
Accept == [conn : Conn, epoch : Nat]

Init ==
  /\ at = [c \in Conn |-> "none"]
  /\ server = [c \in Conn |-> None]
  /\ slot = [i \in Slot |-> None]
  /\ line = [s \in Server |-> <<>>]
  /\ parked = [s \in Server |-> 0]
  /\ accepts = <<>>
  /\ lost = {}
  /\ stale = {}
  /\ live = {}
  /\ session = [s \in Server |-> 1]
  /\ listening = Server

-----------------------------------------------------------------------------
HasRoom == Cardinality(live) < MaxLive

\* Mutant: unlink_pending takes the counter down, and its caller once more.
UnlinkTwice(s, k) ==
  /\ line' = [line EXCEPT ![s] = RemoveAt(@, k)]
  /\ slot' = [slot EXCEPT ![line[s][k]] = None]
  /\ parked' = [parked EXCEPT ![s] = @ - 2]

\* Mutant: the slot's pcb is not cleared.
UnlinkKeepsSlot(s, k) ==
  /\ line' = [line EXCEPT ![s] = RemoveAt(@, k)]
  /\ parked' = [parked EXCEPT ![s] = @ - 1]
  /\ UNCHANGED slot

\* The k-th parked connection of s leaves the list; its slot is free.
Unlink(s, k) ==
  /\ line' = [line EXCEPT ![s] = RemoveAt(@, k)]
  /\ slot' = [slot EXCEPT ![line[s][k]] = None]
  /\ parked' = [parked EXCEPT ![s] = @ - 1]

\* Mutant: only the list is emptied.
DrainListOnly(s) ==
  /\ line' = [line EXCEPT ![s] = <<>>]
  /\ UNCHANGED <<slot, parked>>

\* free_queued_items: s forgets all it has parked.  Their pcbs are not touched.
Drain(s) ==
  /\ slot' = [i \in Slot |-> IF \E k \in 1..Len(line[s]) : line[s][k] = i
                             THEN None ELSE slot[i]]
  /\ line' = [line EXCEPT ![s] = <<>>]
  /\ parked' = [parked EXCEPT ![s] = 0]

\* _serveTls for a pcb of s: a client, and its ACCEPT in front of the queue with
\* the session of this moment; or the pcb is aborted.  Without an event the
\* client is left behind and tcp_error queues its ERROR.  place: where the
\* connections are but for c, which becomes as.
Offer(c, s, place, as) ==
  \/ /\ at' = [place EXCEPT ![c] = as]
     /\ accepts' = <<[conn |-> c, epoch |-> session[s]]>> \o accepts
  \/ /\ MayFail
     /\ at' = [place EXCEPT ![c] = "ending"]
     /\ UNCHANGED accepts

\* _promoteSlot: the head of the line is served if there is room for a session.
\* If its client cannot be allocated its pcb is aborted with the hooks' error
\* callback still bound, which drains the rest of the line.
Promote(s, place) ==
  /\ line[s] # <<>> /\ HasRoom
  /\ LET c == slot[Head(line[s])] IN
     \/ Unlink(s, 1) /\ Offer(c, s, place, "promoted")
     \/ /\ MayFail
        /\ at' = [place EXCEPT ![c] = "gone"]
        /\ Drain(s)
        /\ UNCHANGED accepts

-----------------------------------------------------------------------------
(***************************************************************************)
(* lwIP callbacks.                                                          *)
(***************************************************************************)

Arrive(c, s) ==
  /\ at[c] = "none" /\ s \in listening
  /\ server' = [server EXCEPT ![c] = s]
  /\ UNCHANGED <<lost, stale, live, listener>>

\* _acceptTls with room: served.  No client: the pcb is aborted.
AcceptServe(c, s) ==
  /\ HasRoom
  /\ Arrive(c, s)
  /\ \/ Offer(c, s, at, "offered")
     \/ MayFail /\ at' = [at EXCEPT ![c] = "gone"] /\ UNCHANGED accepts
  /\ UNCHANGED <<slot, line, parked>>

NotFull(s) == parked[s] < Cardinality(Slot)

\* _acceptTls without: parked at the end of the line.
AcceptPark(c, s) ==
  /\ ~ HasRoom /\ NotFull(s)
  /\ Arrive(c, s)
  /\ \E i \in Slot :
       /\ slot[i] = None
       /\ slot' = [slot EXCEPT ![i] = c]
       /\ line' = [line EXCEPT ![s] = Append(@, i)]
  /\ parked' = [parked EXCEPT ![s] = @ + 1]
  /\ at' = [at EXCEPT ![c] = "parked"]
  /\ UNCHANGED accepts

AcceptRefuse(c, s) ==
  /\ ~ HasRoom /\ ~ NotFull(s)
  /\ Arrive(c, s)
  /\ at' = [at EXCEPT ![c] = "gone"]
  /\ UNCHANGED <<slot, line, parked, accepts>>

\* c stands at place k of its server's line.
InLine(c, k) == k \in 1..Len(line[server[c]]) /\ slot[line[server[c]][k]] = c
Orphan(c) == \A k \in 1..Len(line[server[c]]) : ~ InLine(c, k)

\* Mutant: a pcb without a slot is left alone.
ShedOrphanNever(c) == FALSE /\ UNCHANGED <<at, slot, line, parked>>

\* _s_poll of a pcb that has no slot any more: it is reset.
ShedOrphan(c) ==
  /\ Orphan(c)
  /\ at' = [at EXCEPT ![c] = "gone"]
  /\ UNCHANGED <<slot, line, parked>>

\* _s_poll past the idle time (the clock is left open).
ShedIdle(c) ==
  /\ \E k \in 1..Len(line[server[c]]) : InLine(c, k) /\ Unlink(server[c], k)
  /\ at' = [at EXCEPT ![c] = "gone"]

ShedParked(c) ==
  /\ at[c] = "parked"
  /\ ShedOrphan(c) \/ ShedIdle(c)
  /\ UNCHANGED <<server, accepts, lost, stale, live, listener>>

\* _s_poll of the head of the line.
PollPromote(c) ==
  /\ at[c] = "parked" /\ InLine(c, 1)
  /\ Promote(server[c], at)
  /\ UNCHANGED <<server, lost, stale, live, listener>>

\* _s_recv with the peer's FIN: reset, unless the pcb has no slot.
ParkedFin(c) ==
  /\ at[c] = "parked"
  /\ \E k \in 1..Len(line[server[c]]) : InLine(c, k) /\ Unlink(server[c], k)
  /\ at' = [at EXCEPT ![c] = "gone"]
  /\ UNCHANGED <<server, accepts, lost, stale, live, listener>>

\* _s_error: one pcb failed, the whole line is forgotten.
ParkedError(c) ==
  /\ at[c] = "parked"
  /\ at' = [at EXCEPT ![c] = "gone"]
  /\ Drain(server[c])
  /\ UNCHANGED <<server, accepts, lost, stale, live, listener>>

\* tcp_error of a client's pcb.
ClientError(c) ==
  /\ \/ /\ at[c] \in {"offered", "promoted", "checked"} /\ c \notin lost
        /\ lost' = lost \cup {c}
        /\ UNCHANGED at
     \/ /\ at[c] = "open"
        /\ at' = [at EXCEPT ![c] = "ending"]
        /\ UNCHANGED lost
  /\ UNCHANGED <<server, slot, line, parked, accepts, stale, live, listener>>

-----------------------------------------------------------------------------
(***************************************************************************)
(* The async task.                                                          *)
(***************************************************************************)

\* An ACCEPT event: delivered if the listener is in the session that queued it,
\* else the client is aborted and deleted.  One event at a time.
TakeAccept ==
  LET e == Head(accepts) IN
  /\ accepts # <<>> /\ \A c \in Conn : at[c] # "checked"
  /\ accepts' = Tail(accepts)
  /\ stale' = stale \ {e.conn}
  /\ at' = [at EXCEPT ![e.conn] =
              IF session[server[e.conn]] = e.epoch THEN "checked" ELSE "ending"]
  /\ UNCHANGED <<server, slot, line, parked, lost, live, listener>>

\* _acceptedTls: a session, and onClient.  A client without pcb is delivered
\* without one; low heap or a failed setup refuses it.
Accepted(c) ==
  /\ at[c] = "checked"
  /\ \/ /\ c \notin lost
        /\ live' = live \cup {c}
        /\ at' = [at EXCEPT ![c] = "open"]
     \/ at' = [at EXCEPT ![c] = "ending"] /\ UNCHANGED live
  /\ UNCHANGED <<server, slot, line, parked, accepts, lost, stale, listener>>

\* close(), abort() or delete of a client, by FIN, timeout or the application.
Close(c) ==
  /\ at[c] = "open"
  /\ at' = [at EXCEPT ![c] = "ending"]
  /\ UNCHANGED <<server, slot, line, parked, accepts, lost, stale, live, listener>>

\* The discard hook: _conn_done, _promoteSlot.  The impl and its session are
\* still there.
ConnDone(c) ==
  LET place == [at EXCEPT ![c] = "ended"] IN
  /\ at[c] = "ending"
  /\ \/ Promote(server[c], place)
     \/ /\ line[server[c]] = <<>> \/ ~ HasRoom
        /\ at' = place
        /\ UNCHANGED <<slot, line, parked, accepts>>
  /\ UNCHANGED <<server, lost, stale, live, listener>>

\* The last owner lets go: ~AsyncClientImpl, its hooks and its session.  If
\* there was no memory for the ERROR event, no discard hook ran before.
Destroy(c) ==
  /\ at[c] = "ended" \/ (MayFail /\ at[c] = "ending")
  /\ at' = [at EXCEPT ![c] = "gone"]
  /\ live' = live \ {c}
  /\ UNCHANGED <<server, slot, line, parked, accepts, lost, stale, listener>>

-----------------------------------------------------------------------------
(***************************************************************************)
(* The application ends and begins its listeners.                           *)
(***************************************************************************)

\* Mutant: only begin() starts a new session.
EndKeepsSession(s) ==
  /\ session[s] < MaxSession
  /\ listening' = listening \ {s}
  /\ UNCHANGED session

\* end(): also of a listener that is not listening.
End(s) ==
  /\ session[s] < MaxSession
  /\ session' = [session EXCEPT ![s] = @ + 1]
  /\ listening' = listening \ {s}

Begin(s) ==
  /\ session[s] < MaxSession /\ s \notin listening
  /\ session' = [session EXCEPT ![s] = @ + 1]
  /\ listening' = listening \cup {s}

ListenerStep ==
  /\ \/ \E s \in Server :
          /\ End(s)
          /\ stale' = stale \cup {c \in Conn : server[c] = s /\ at[c] \in {"parked", "offered", "promoted"}}
     \/ \E s \in Server : Begin(s) /\ UNCHANGED stale
  /\ UNCHANGED <<at, server, slot, line, parked, accepts, lost, live>>

-----------------------------------------------------------------------------
Next ==
  \/ \E c \in Conn, s \in Server : AcceptServe(c, s) \/ AcceptPark(c, s) \/ AcceptRefuse(c, s)
  \/ \E c \in Conn :
       \/ ShedParked(c) \/ PollPromote(c) \/ ParkedFin(c) \/ ParkedError(c) \/ ClientError(c)
       \/ Accepted(c) \/ Close(c) \/ ConnDone(c) \/ Destroy(c)
  \/ TakeAccept
  \/ ListenerStep

Spec == Init /\ [][Next]_vars

(***************************************************************************)
(* lwIP polls every bound pcb at its interval and millis() goes on, so a    *)
(* pcb bound for good is polled past its idle time; the peers and the       *)
(* application need not act, nor need clients ever be destroyed.            *)
(***************************************************************************)
FairSpec == Spec /\ \A c \in Conn : WF_vars(ShedParked(c))

-----------------------------------------------------------------------------
TypeOK ==
  /\ at \in [Conn -> Place]
  /\ server \in [Conn -> Server \cup {None}]
  /\ slot \in [Slot -> Conn \cup {None}]
  /\ line \in [Server -> Seq(Slot)]
  /\ parked \in [Server -> Nat]
  /\ accepts \in Seq(Accept)
  /\ lost \subseteq Conn
  /\ stale \subseteq Conn
  /\ live \subseteq Conn
  /\ session \in [Server -> Nat]
  /\ listening \subseteq Server

\* A slot in use is once in one server's line, for a connection that lwIP still
\* calls that server's hooks for, and the counters count the lines: no release
\* path forgets a slot, and none leaves a freed pcb in the line for a promotion
\* (AsyncTCPParkQueue.h: "every release path must clear p->pcb").
CountsMatch == \A s \in Server : parked[s] = Len(line[s])
LinesHoldParked ==
  \A s \in Server : \A k \in 1..Len(line[s]) :
    LET c == slot[line[s][k]] IN c # None /\ at[c] = "parked" /\ server[c] = s
LinesDisjoint ==
  \A s, t \in Server : \A j \in 1..Len(line[s]), k \in 1..Len(line[t]) :
    line[s][j] = line[t][k] => s = t /\ j = k
SlotsInLine ==
  \A i \in Slot : slot[i] # None => \E s \in Server : \E k \in 1..Len(line[s]) : line[s][k] = i
SlotsMatch == CountsMatch /\ LinesHoldParked /\ LinesDisjoint /\ SlotsInLine

\* While a listener counts fewer parked connections than there are slots, the
\* pool has a free one: park_alloc never returns NULL.  The pool is shared, so
\* this is claimed of a program with one TLS listener only.
ParkAllocHits ==
  \A s \in Server : parked[s] < Cardinality(Slot) => \E i \in Slot : slot[i] = None

\* Whatever other pcbs do - an error that empties the line, a promotion that
\* fails, end() - a parked connection is served, reset or lost in the end, and
\* none stays bound to the hooks (the orphan and idle branches of _s_poll).
ParkedLeaves == \A c \in Conn : at[c] = "parked" ~> at[c] # "parked"

\* A connection that was never parked is not delivered any more once end() has
\* been called on its listener, though the listener was begun again since
\* (accept_epoch against _session).
NoStaleAccept ==
  [][\A c \in stale : at[c] = "offered" => at'[c] # "checked"]_vars

=============================================================================
