----------------------------- MODULE ClientLife -----------------------------
(***************************************************************************)
(* The life of AsyncClient objects on the FreeRTOS build (ESP32, LibreTiny) *)
(* of src/src/AsyncTCP.cpp, without TLS hooks: the lwIP "tcpip" thread, the *)
(* "async_tcp" service task and the application's tasks share the raw pcb   *)
(* pointer _pcb, the lwIP callback argument (a raw AsyncClientImpl pointer) *)
(* and the event queue.                                                     *)
(*                                                                          *)
(* One step is what runs under the lwIP core lock, under the queue mutex,   *)
(* or between two reads of shared state.  A task's pending work is a stack  *)
(* of frames: a call pushes what remains to be done, a user callback is a   *)
(* frame whose execution may call back into the library.                    *)
(*                                                                          *)
(* The global event queue is kept per client, with the ACCEPT events beside *)
(* it: the order between clients is left open (EventQueue has the one       *)
(* global list).  DNS, TLS, byte counts and timers are not in this module.  *)
(***************************************************************************)
EXTENDS Naturals, Sequences

CONSTANTS
  Client,     \* AsyncClientImpl objects, each with its AsyncClient facade
  Dialer,     \* the ones the application builds and connect()s; tcp_accept builds the rest
  Pcb,        \* tcp_pcb's lwIP can hand out
  Async,      \* the async_tcp service task
  AppTask,    \* the application's own tasks (the Arduino loop task, ...)
  None,       \* a NULL pointer
  MayFail,    \* whether allocating an event packet can fail
  MaxQueue,   \* bound: events queued per client before lwIP stops producing
  MaxDepth    \* bound: frames on a stack before callbacks stop calling back

ASSUME ConstantsAssumption ==
  /\ Dialer \subseteq Client
  /\ Async \notin AppTask
  /\ None \notin Client
  /\ None \notin Pcb
  /\ MayFail \in BOOLEAN
  /\ MaxQueue \in Nat
  /\ MaxDepth \in Nat

Task == {Async} \cup AppTask
Accepted == Client \ Dialer

VARIABLES
  pcb,     \* lwIP's view of each pcb
  arg,     \* tcp_arg: the AsyncClientImpl lwIP's callbacks are called with
  own,     \* AsyncClientImpl::_pcb
  facade,  \* the AsyncClient object
  impl,    \* the AsyncClientImpl object
  queue,   \* per client: its queued events, oldest first
  accept,  \* clients whose ACCEPT event is queued
  shown,   \* clients the application knows, with its handlers installed
  todo,    \* per task: the stack of work in progress, top first
  lwip,    \* the client whose tcp_error is between detaching and queueing, or None
  disc     \* history: onDisconnect calls made per client, counted up to 2

vars == <<pcb, arg, own, facade, impl, queue, accept, shown, todo, lwip, disc>>

-----------------------------------------------------------------------------
EventKind == {"RECV", "FIN", "SENT", "POLL", "ERROR", "CONNECTED"}
Event == [kind : EventKind, pcb : Pcb \cup {None}]

UserOp == {"onClient", "onConnect", "onData", "onAck", "onPoll", "onError", "onDisconnect"}
CallOp == {"tcpClose", "abort", "tcpAbort", "errorTail", "serverDiscard", "drop",
           "destroy", "destroyed", "free", "connect", "dial", "tcpConnect", "dialFailed"}
Frame == [op : EventKind \cup UserOp \cup CallOp, c : Client, pcb : Pcb \cup {None}]

F(op, c) == [op |-> op, c |-> c, pcb |-> None]
FP(op, c, p) == [op |-> op, c |-> c, pcb |-> p]
Ev(kind, p) == [kind |-> kind, pcb |-> p]

LiveState == {"syn", "est", "fin"}          \* fin: the peer's FIN was received
Live(p) == pcb[p] \in LiveState

\* The task at the top of whose stack an operation of kind op stands.
At(t, op) == todo[t] # <<>> /\ Head(todo[t]).op = op
Top(t) == Head(todo[t])
\* Replace the top frame of t by the frames fs.
Return(t, fs) == todo' = [todo EXCEPT ![t] = fs \o Tail(@)]

\* The lwIP core lock is free: tcpip_api_call may run the API function.
CoreFree == lwip = None

(***************************************************************************)
(* Ownership of an AsyncClientImpl: the facade's shared_ptr, one per queued *)
(* event, and the one of the event being dispatched.                        *)
(***************************************************************************)
HeldByFacade(c) == facade[c] \in {"live", "cut"}
HeldByQueue(c) == queue[c] # <<>>
HeldByDispatch(c) ==
  \E i \in 1..Len(todo[Async]) : todo[Async][i].op = "free" /\ todo[Async][i].c = c

\* Mutant: nothing is removed.
PurgeNothing(q, c) == q

\* _remove_events_for_client: every queued event of c leaves the queue; ACCEPT
\* events carry no impl and stay.
Purge(q, c) == [q EXCEPT ![c] = <<>>]
\* What freeing purged events does to the impl when they were its last owners.
Reap(c) ==
  impl' = [impl EXCEPT ![c] = IF @ # "live" \/ HeldByFacade(c) \/ HeldByDispatch(c)
                                   \/ ~ HeldByQueue(c)
                              THEN @ ELSE "dead"]

\* Mutant: a packet whose type was never set.
SendUntyped(q, c, e) == [q EXCEPT ![c] = Append(@, [e EXCEPT !.kind = "UNSET"])]

\* What _send_async_event does to c's part of the queue.
Send(q, c, e) == [q EXCEPT ![c] = Append(@, e)]

-----------------------------------------------------------------------------
Init ==
  /\ pcb = [p \in Pcb |-> "free"]
  /\ arg = [p \in Pcb |-> None]
  /\ own = [c \in Client |-> None]
  /\ facade = [c \in Client |-> IF c \in Dialer THEN "live" ELSE "none"]
  /\ impl = [c \in Client |-> IF c \in Dialer THEN "live" ELSE "none"]
  /\ queue = [c \in Client |-> <<>>]
  /\ accept = {}
  /\ shown = Dialer
  /\ todo = [t \in Task |-> <<>>]
  /\ lwip = None
  /\ disc = [c \in Client |-> 0]

-----------------------------------------------------------------------------
(***************************************************************************)
(* lwIP callbacks, on the tcpip thread with the core lock held.             *)
(***************************************************************************)

\* tcp_accept: a new facade and impl bound to the pcb, ACCEPT put at the front.
\* If no event can be allocated the pcb is aborted with its callbacks still
\* bound, so tcp_error queues an ERROR for the leaked client.
TcpAccept(c) ==
  /\ CoreFree
  /\ c \in Accepted /\ impl[c] = "none"
  /\ \E p \in Pcb :
       /\ pcb[p] = "free"
       /\ facade' = [facade EXCEPT ![c] = "live"]
       /\ impl' = [impl EXCEPT ![c] = "live"]
       /\ arg' = [arg EXCEPT ![p] = c]
       /\ \/ /\ pcb' = [pcb EXCEPT ![p] = "est"]
             /\ own' = [own EXCEPT ![c] = p]
             /\ accept' = accept \cup {c}
             /\ UNCHANGED lwip
          \/ /\ MayFail
             /\ pcb' = [pcb EXCEPT ![p] = "gone"]
             /\ lwip' = c
             /\ UNCHANGED <<own, accept>>
  /\ UNCHANGED <<queue, shown, todo, disc>>

\* The callbacks that only queue an event for the client lwIP names.  Without
\* memory for the packet nothing is queued.
Notify(p, kind) ==
  /\ CoreFree
  /\ arg[p] # None /\ impl[arg[p]] = "live"
  /\ Len(queue[arg[p]]) < MaxQueue
  /\ \/ queue' = Send(queue, arg[p], Ev(kind, p))
     \/ MayFail /\ UNCHANGED queue

TcpConnected(p) ==
  /\ pcb[p] = "syn"
  /\ Notify(p, "CONNECTED")
  /\ pcb' = [pcb EXCEPT ![p] = "est"]
  /\ UNCHANGED <<arg, own, facade, impl, accept, shown, todo, lwip, disc>>

TcpRecv(p) ==
  /\ pcb[p] = "est"
  /\ Notify(p, "RECV")
  /\ UNCHANGED <<pcb, arg, own, facade, impl, accept, shown, todo, lwip, disc>>

TcpFin(p) ==
  /\ pcb[p] = "est"
  /\ Notify(p, "FIN")
  /\ pcb' = [pcb EXCEPT ![p] = "fin"]
  /\ UNCHANGED <<arg, own, facade, impl, accept, shown, todo, lwip, disc>>

TcpSent(p) ==
  /\ pcb[p] \in {"est", "fin"}
  /\ Notify(p, "SENT")
  /\ UNCHANGED <<pcb, arg, own, facade, impl, accept, shown, todo, lwip, disc>>

TcpPoll(p) ==
  /\ Live(p)
  /\ Notify(p, "POLL")
  /\ UNCHANGED <<pcb, arg, own, facade, impl, accept, shown, todo, lwip, disc>>

\* Mutant: the stale _pcb is left in the client.
DetachEventsOnly(c) ==
  /\ UNCHANGED own
  /\ queue' = IF own[c] # None THEN Purge(queue, c) ELSE queue

\* tcp_error, first part: lwIP has freed the pcb.  A client that has a _pcb
\* loses it and its queued events; one that has none keeps both as they are.
Detach(c) ==
  /\ own' = [own EXCEPT ![c] = None]
  /\ queue' = IF own[c] # None THEN Purge(queue, c) ELSE queue

\* Mutant: the ERROR event only for a client that had a _pcb.
TcpErrorIfOwned(p) ==
  /\ CoreFree
  /\ Live(p)
  /\ arg[p] # None /\ impl[arg[p]] = "live"
  /\ Detach(arg[p])
  /\ pcb' = [pcb EXCEPT ![p] = "gone"]
  /\ IF own[arg[p]] # None THEN Reap(arg[p]) ELSE UNCHANGED impl
  /\ lwip' = IF own[arg[p]] # None THEN arg[p] ELSE None
  /\ UNCHANGED <<arg, facade, accept, shown, todo, disc>>

TcpError(p) ==
  /\ CoreFree
  /\ Live(p)
  /\ arg[p] # None /\ impl[arg[p]] = "live"
  /\ Detach(arg[p])
  /\ pcb' = [pcb EXCEPT ![p] = "gone"]
  /\ IF own[arg[p]] # None THEN Reap(arg[p]) ELSE UNCHANGED impl
  /\ lwip' = arg[p]
  /\ UNCHANGED <<arg, facade, accept, shown, todo, disc>>

\* tcp_error, second part: the ERROR event, always, if a packet can be had.
TcpErrorQueue ==
  /\ lwip # None
  /\ \/ impl[lwip] = "live" /\ queue' = Send(queue, lwip, Ev("ERROR", None))
     \/ (MayFail \/ impl[lwip] # "live") /\ UNCHANGED queue
  /\ lwip' = None
  /\ UNCHANGED <<pcb, arg, own, facade, impl, accept, shown, todo, disc>>

LwipStep ==
  \/ \E c \in Client : TcpAccept(c)
  \/ \E p \in Pcb : TcpConnected(p) \/ TcpRecv(p) \/ TcpFin(p) \/ TcpSent(p)
                      \/ TcpPoll(p) \/ TcpError(p)
  \/ TcpErrorQueue

-----------------------------------------------------------------------------
(***************************************************************************)
(* Calls.  Reaction(t, c, rest) is the application, running on task t with  *)
(* rest below it, calling into c: close(), abort(), connect() or delete.  It *)
(* may use a client whose facade is live (cut: its deletion has begun), and *)
(* deletes a client only when no other application task is inside a call on *)
(* it; what the async task is doing with the client it cannot know.         *)
(***************************************************************************)
\* Mutant: the transport is left to the impl's own destructor.
DeleteDropsOnly(c) == <<F("drop", c)>>

\* ~AsyncClient: unlink the facade, close, then drop the shared_ptr.
DeleteWork(c) == <<F("tcpClose", c), F("drop", c)>>

MayDelete(t, c) ==
  \A u \in AppTask \ {t} : \A i \in 1..Len(todo[u]) : todo[u][i].c # c

Reaction(t, c, rest) ==
  /\ facade[c] = "live"
  /\ Len(rest) < MaxDepth
  /\ \/ /\ todo' = [todo EXCEPT ![t] = <<F("tcpClose", c)>> \o rest]
        /\ UNCHANGED facade
     \/ /\ todo' = [todo EXCEPT ![t] = <<F("abort", c)>> \o rest]
        /\ UNCHANGED facade
     \/ /\ c \in Dialer
        /\ todo' = [todo EXCEPT ![t] = <<F("connect", c)>> \o rest]
        /\ UNCHANGED facade
     \/ /\ MayDelete(t, c)
        /\ todo' = [todo EXCEPT ![t] = DeleteWork(c) \o rest]
        /\ facade' = [facade EXCEPT ![c] = "cut"]

\* An application task calls into a client it knows.
AppCall(t, c) ==
  /\ t \in AppTask /\ todo[t] = <<>> /\ c \in shown
  /\ Reaction(t, c, <<>>)
  /\ UNCHANGED <<pcb, arg, own, impl, queue, accept, shown, lwip, disc>>

\* A user callback runs, with the client pointer _facade holds at this moment,
\* unless no handler is installed.  onClient installs them.  onData also
\* checks _facade.
UserCallback(t) ==
  LET op == Top(t).op
      c == Top(t).c IN
  /\ todo[t] # <<>> /\ op \in UserOp
  /\ shown' = IF op = "onClient" THEN shown \cup {c} ELSE shown
  /\ disc' = IF op = "onDisconnect" /\ c \in shown /\ disc[c] < 2
             THEN [disc EXCEPT ![c] = @ + 1] ELSE disc
  /\ \/ Return(t, <<>>) /\ UNCHANGED facade
     \/ \E d \in shown' : Reaction(t, d, Tail(todo[t]))
  /\ UNCHANGED <<pcb, arg, own, impl, queue, accept, lwip>>

(***************************************************************************)
(* Transport calls.  The API functions run with the core lock held.         *)
(***************************************************************************)

\* Mutant: the events of the released pcb stay queued.
ReleaseKeepsEvents(c) ==
  /\ arg' = [arg EXCEPT ![own[c]] = None]
  /\ pcb' = [pcb EXCEPT ![own[c]] = "gone"]
  /\ own' = [own EXCEPT ![c] = None]
  /\ UNCHANGED queue

\* The library lets go of the pcb c owns: callbacks and events first.
Release(c) ==
  /\ arg' = [arg EXCEPT ![own[c]] = None]
  /\ pcb' = [pcb EXCEPT ![own[c]] = "gone"]
  /\ own' = [own EXCEPT ![c] = None]
  /\ queue' = Purge(queue, c)

\* Mutant: the pending event is counted but not taken out.
ForgetKeepsEvents(c) == UNCHANGED <<arg, pcb, own, queue>>

\* With no pcb only the queue is cleared.
Forget(c) ==
  /\ queue' = Purge(queue, c)
  /\ UNCHANGED <<arg, pcb, own>>

\* Mutant: only a live pcb counts.
EndsPcb(c) == own[c] # None

\* The call ended something that must be reported, be it a pcb or only an
\* event still queued (ERR_OK, ERR_ABRT; otherwise ERR_CONN).
EndsSomething(c) == own[c] # None \/ queue[c] # <<>>

\* _close(): _tcp_close, then the discard callbacks if it ended something.
TcpClose(t) ==
  LET c == Top(t).c IN
  /\ At(t, "tcpClose") /\ CoreFree
  /\ IF own[c] # None THEN Release(c) ELSE Forget(c)
  /\ Return(t, IF EndsSomething(c) THEN <<F("onDisconnect", c), F("serverDiscard", c)>>
               ELSE <<>>)
  /\ Reap(c)
  /\ UNCHANGED <<facade, accept, shown, lwip, disc>>

\* _tcp_abort returns at once, without the core lock, when _pcb is null.
AbortCheck(t) ==
  LET c == Top(t).c IN
  /\ At(t, "abort")
  /\ Return(t, IF own[c] = None THEN <<>> ELSE <<F("tcpAbort", c)>>)
  /\ UNCHANGED <<pcb, arg, own, facade, impl, queue, accept, shown, lwip, disc>>

TcpAbort(t) ==
  LET c == Top(t).c IN
  /\ At(t, "tcpAbort") /\ CoreFree
  /\ IF own[c] # None THEN Release(c) ELSE Forget(c)
  /\ Return(t, IF EndsSomething(c) THEN <<F("onError", c), F("errorTail", c)>>
               ELSE <<>>)
  /\ Reap(c)
  /\ UNCHANGED <<facade, accept, shown, lwip, disc>>

\* _error() after the error callback: stop if the impl was destroyed by it.
ErrorTail(t) ==
  LET c == Top(t).c IN
  /\ At(t, "errorTail")
  /\ Return(t, IF impl[c] = "dead" THEN <<>>
               ELSE <<F("onDisconnect", c), F("serverDiscard", c)>>)
  /\ UNCHANGED <<pcb, arg, own, facade, impl, queue, accept, shown, lwip, disc>>

\* _close() and _error() read _server_discard_cb, null without TLS.
ServerDiscard(t) ==
  /\ At(t, "serverDiscard")
  /\ Return(t, <<>>)
  /\ UNCHANGED <<pcb, arg, own, facade, impl, queue, accept, shown, lwip, disc>>

(***************************************************************************)
(* Destruction: the last owner to let go runs ~AsyncClientImpl.             *)
(***************************************************************************)

\* The top frame's owner lets go; the destructor follows if it was the last.
LetGo(t, c, last) ==
  /\ impl' = IF last THEN [impl EXCEPT ![c] = "dying"] ELSE impl
  /\ Return(t, IF last THEN <<F("destroy", c)>> ELSE <<>>)

\* Mutant: events do not own the impl.
HeldByNoEvent(c) == FALSE

HeldByEvents(c) == HeldByQueue(c) \/ HeldByDispatch(c)

Drop(t) ==
  LET c == Top(t).c IN
  /\ At(t, "drop")
  /\ facade' = [facade EXCEPT ![c] = "gone"]
  /\ LetGo(t, c, impl[c] = "live" /\ ~ HeldByEvents(c))
  /\ UNCHANGED <<pcb, arg, own, queue, accept, shown, lwip, disc>>

\* _free_event at the end of a dispatch.
FreeEvent(t) ==
  LET c == Top(t).c IN
  /\ At(t, "free")
  /\ LetGo(t, c, impl[c] = "live" /\ ~ HeldByQueue(c) /\ ~ HeldByFacade(c))
  /\ UNCHANGED <<pcb, arg, own, facade, queue, accept, shown, lwip, disc>>

\* ~AsyncClientImpl closes the pcb it still has.
Destroy(t) ==
  LET c == Top(t).c IN
  /\ At(t, "destroy")
  /\ Return(t, (IF own[c] # None THEN <<F("tcpClose", c)>> ELSE <<>>) \o <<F("destroyed", c)>>)
  /\ UNCHANGED <<pcb, arg, own, facade, impl, queue, accept, shown, lwip, disc>>

Destroyed(t) ==
  LET c == Top(t).c IN
  /\ At(t, "destroyed")
  /\ impl' = [impl EXCEPT ![c] = "dead"]
  /\ Return(t, <<>>)
  /\ UNCHANGED <<pcb, arg, own, facade, queue, accept, shown, lwip, disc>>

(***************************************************************************)
(* connect(addr): _pcb stays null until CONNECTED is dispatched.            *)
(***************************************************************************)
ConnectCheck(t) ==
  LET c == Top(t).c IN
  /\ At(t, "connect")
  /\ Return(t, IF own[c] # None THEN <<>> ELSE <<F("dial", c)>>)
  /\ UNCHANGED <<pcb, arg, own, facade, impl, queue, accept, shown, lwip, disc>>

\* A new pcb with this impl as its callback argument, or none left.
Dial(t) ==
  LET c == Top(t).c IN
  /\ At(t, "dial") /\ CoreFree
  /\ \/ \E p \in Pcb :
          /\ pcb[p] = "free"
          /\ pcb' = [pcb EXCEPT ![p] = "new"]
          /\ arg' = [arg EXCEPT ![p] = c]
          /\ Return(t, <<FP("tcpConnect", c, p)>>)
     \/ (\A p \in Pcb : pcb[p] # "free") /\ Return(t, <<>>) /\ UNCHANGED <<pcb, arg>>
  /\ UNCHANGED <<own, facade, impl, queue, accept, shown, lwip, disc>>

TcpConnect(t) ==
  LET p == Top(t).pcb IN
  /\ At(t, "tcpConnect") /\ CoreFree
  /\ \/ pcb' = [pcb EXCEPT ![p] = "syn"] /\ Return(t, <<>>)
     \/ Return(t, <<FP("dialFailed", Top(t).c, p)>>) /\ UNCHANGED pcb
  /\ UNCHANGED <<arg, own, facade, impl, queue, accept, shown, lwip, disc>>

DialFailed(t) ==
  LET c == Top(t).c
      p == Top(t).pcb IN
  /\ At(t, "dialFailed") /\ CoreFree
  /\ arg' = [arg EXCEPT ![p] = None]
  /\ pcb' = [pcb EXCEPT ![p] = "gone"]
  /\ queue' = Purge(queue, c)
  /\ Reap(c)
  /\ Return(t, <<>>)
  /\ UNCHANGED <<own, facade, accept, shown, lwip, disc>>

-----------------------------------------------------------------------------
(***************************************************************************)
(* The service task: take an event, dispatch it, free it.                   *)
(***************************************************************************)

\* ACCEPT was put at the front of the queue before its connection could have
\* any event, so it is taken before them.
TakeEvent(c) ==
  /\ todo[Async] = <<>> /\ queue[c] # <<>> /\ c \notin accept
  /\ queue' = [queue EXCEPT ![c] = Tail(@)]
  /\ todo' = [todo EXCEPT ![Async] =
                <<FP(Head(queue[c]).kind, c, Head(queue[c]).pcb), F("free", c)>>]
  /\ UNCHANGED <<pcb, arg, own, facade, impl, accept, shown, lwip, disc>>

\* An ACCEPT event: the listener is still in the session that queued it, or
\* the client is aborted and deleted.
TakeAccept(c) ==
  /\ todo[Async] = <<>> /\ c \in accept
  /\ accept' = accept \ {c}
  /\ \/ todo' = [todo EXCEPT ![Async] = <<F("onClient", c)>>] /\ UNCHANGED facade
     \/ /\ todo' = [todo EXCEPT ![Async] = <<F("abort", c)>> \o DeleteWork(c)]
        /\ facade' = [facade EXCEPT ![c] = "cut"]
  /\ UNCHANGED <<pcb, arg, own, impl, queue, shown, lwip, disc>>

\* The handler of an event that leads to the frames fs.
Handler(kind, fs) ==
  /\ At(Async, kind)
  /\ Return(Async, IF impl[Top(Async).c] = "live" THEN fs ELSE <<>>)
  /\ UNCHANGED <<pcb, arg, facade, impl, queue, accept, shown, lwip, disc>>

HandleRecv ==
  Handler("RECV", <<F("onData", Top(Async).c)>>) /\ UNCHANGED own

\* FIN, SENT and POLL do nothing once the pcb is gone.
IfOwned(c, fs) == IF own[c] = None THEN <<>> ELSE fs

HandleFin ==
  Handler("FIN", IfOwned(Top(Async).c, <<F("tcpClose", Top(Async).c)>>)) /\ UNCHANGED own

HandleSent ==
  Handler("SENT", IfOwned(Top(Async).c, <<F("onAck", Top(Async).c)>>)) /\ UNCHANGED own

\* A poll of another pcb than the client's is ignored; the receive timeout closes.
\* The ack timeout's onTimeout, called in place of onPoll, is not told apart from it.
HandlePoll ==
  LET c == Top(Async).c
      mine == own[c] = Top(Async).pcb IN
  /\ \/ Handler("POLL", IF mine THEN <<F("onPoll", c)>> ELSE <<>>)
     \/ Handler("POLL", IF mine THEN <<F("tcpClose", c)>> ELSE <<>>)
  /\ UNCHANGED own

HandleError ==
  Handler("ERROR", <<F("onError", Top(Async).c), F("errorTail", Top(Async).c)>>)
    /\ UNCHANGED own

\* The dial's pcb becomes the client's only now.
HandleConnected ==
  /\ Handler("CONNECTED", <<F("onConnect", Top(Async).c)>>)
  /\ own' = [own EXCEPT ![Top(Async).c] = Top(Async).pcb]

-----------------------------------------------------------------------------
FrameStep(t) ==
  \/ UserCallback(t)
  \/ TcpClose(t) \/ AbortCheck(t) \/ TcpAbort(t) \/ ErrorTail(t) \/ ServerDiscard(t)
  \/ Drop(t) \/ FreeEvent(t) \/ Destroy(t) \/ Destroyed(t)
  \/ ConnectCheck(t) \/ Dial(t) \/ TcpConnect(t) \/ DialFailed(t)

HandlerStep ==
  \/ HandleRecv \/ HandleFin \/ HandleSent \/ HandlePoll \/ HandleError \/ HandleConnected

Next ==
  \/ LwipStep
  \/ \E t \in AppTask, c \in Client : AppCall(t, c)
  \/ \E t \in Task : FrameStep(t)
  \/ HandlerStep
  \/ \E c \in Client : TakeEvent(c) \/ TakeAccept(c)

Spec == Init /\ [][Next]_vars

(***************************************************************************)
(* Fairness: FreeRTOS runs every ready task and the tcpip thread, so work   *)
(* that was begun goes on (weak fairness on each stack and on the rest of a *)
(* tcp_error); and the one FIFO queue serves every client in turn, which    *)
(* per client is strong fairness.  Nothing makes the application or the     *)
(* peer act, but lwIP itself ends every SYN, by an answer or by a timeout.  *)
(***************************************************************************)
Fairness ==
  /\ \A t \in Task : WF_vars(FrameStep(t))
  /\ WF_vars(HandlerStep)
  /\ WF_vars(TcpErrorQueue)
  /\ \A c \in Client : SF_vars(TakeEvent(c)) /\ SF_vars(TakeAccept(c))
  /\ \A p \in Pcb : SF_vars(TcpConnected(p) \/ (pcb[p] = "syn" /\ TcpError(p)))

FairSpec == Spec /\ Fairness

-----------------------------------------------------------------------------
TypeOK ==
  /\ pcb \in [Pcb -> {"free", "new", "syn", "est", "fin", "gone"}]
  /\ arg \in [Pcb -> Client \cup {None}]
  /\ own \in [Client -> Pcb \cup {None}]
  /\ facade \in [Client -> {"none", "live", "cut", "gone"}]
  /\ impl \in [Client -> {"none", "live", "dying", "dead"}]
  /\ queue \in [Client -> Seq(Event)]
  /\ accept \subseteq Accepted
  /\ shown \subseteq Client
  /\ todo \in [Task -> Seq(Frame)]
  /\ lwip \in Client \cup {None}
  /\ disc \in [Client -> 0..2]

\* An accepted client's _pcb is a connection lwIP still has, bound to it: close(),
\* write() and the state queries never follow a freed pcb (AsyncTCP.cpp tcp_error,
\* _tcp_close_api, _tcp_abort_api).
OwnedPcbIsLive ==
  \A c \in Accepted : own[c] # None => Live(own[c]) /\ arg[own[c]] = c

\* Whatever lwIP calls back for a server connection reaches an impl that exists
\* and has that pcb: teardown always unbinds before the object can go
\* (_reset_tcp_callbacks, ~AsyncClient).
CallbackReachesOwner ==
  \A p \in Pcb : Live(p) /\ arg[p] \in Accepted =>
    impl[arg[p]] = "live" /\ own[arg[p]] = p

\* However the peer's error, the peer's FIN, close(), abort() and delete on
\* different tasks race, a server connection is reported as disconnected at most
\* once (the ERR_OK/ERR_CONN protocol of _tcp_close_api and _tcp_abort_api).
AtMostOneDisconnect == \A c \in Accepted : disc[c] <= 1

\* Once its end was reported nothing is left that could produce an event for a
\* server connection: no event queued, no pcb bound (postcondition stated at
\* _tcp_close_api).
NothingAfterDisconnect ==
  \A c \in Accepted : disc[c] > 0 =>
    /\ own[c] = None /\ queue[c] = <<>>
    /\ \A p \in Pcb : arg[p] = c => ~ Live(p)

\* An impl with a queued event, or with an event being dispatched, exists: a
\* queued event never dispatches against a dead client (shared_ptr in
\* lwip_tcp_event_packet_t).
NeverDispatchDead ==
  \A c \in Client : HeldByQueue(c) \/ HeldByDispatch(c) => impl[c] = "live"

\* No user callback of a server connection runs after its onDisconnect.
QuietAfterDisconnect ==
  \A t \in Task : todo[t] # <<>> /\ Top(t).op \in UserOp /\ Top(t).c \in Accepted =>
    disc[Top(t).c] = 0

\* When memory for event packets does not run out, an application that knows a
\* server connection is told of its end unless it deletes the client: the ERROR
\* event, or close() or abort() finding the pcb or the queued event, always leads
\* to onDisconnect.
EndIsReported ==
  \A c \in Accepted :
    (c \in shown /\ own[c] = None) ~> (disc[c] > 0 \/ facade[c] # "live")

\* An outgoing SYN is answered by a callback on the client that dialled, unless
\* the application deletes the client or a second connect() on it fails, which
\* throws the first one's answer away (tcp_error queues ERROR even with _pcb
\* null; connect() purges the queue when tcp_connect fails).
DialAnswered ==
  \A p \in Pcb, c \in Client : (pcb[p] = "syn" /\ arg[p] = c) ~>
    \/ facade[c] # "live"
    \/ \E t \in Task : todo[t] # <<>> /\ Top(t).c = c
                         /\ Top(t).op \in {"onConnect", "onError", "onDisconnect", "dialFailed"}

(***************************************************************************)
(* The contract of server connections that all this implements.             *)
(***************************************************************************)
Phase(c) == IF impl[c] = "none" THEN "absent" ELSE IF own[c] # None THEN "open" ELSE "ended"

Contract == INSTANCE Connection WITH
  Conn <- Accepted,
  phase <- [c \in Accepted |-> Phase(c)],
  told <- [c \in Accepted |-> disc[c]]

\* Every run of the tasks, the callbacks and lwIP is one of Connection: no step
\* reopens an ended connection or reports an end early or again.
ContractHolds == Contract!Spec

(***************************************************************************)
(* What a comment in the repository says and the code does not do.          *)
(***************************************************************************)

\* AsyncTCP.h:473: "the event queue, lwIP callbacks and TLS hooks hold
\* shared_ptr<AsyncClientImpl>": a bound live pcb keeps its impl alive.
LwipHoldsImpl ==
  \A p \in Pcb : Live(p) /\ arg[p] # None => impl[arg[p]] = "live"

=============================================================================
