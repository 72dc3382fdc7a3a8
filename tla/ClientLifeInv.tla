---------------------------- MODULE ClientLifeInv ----------------------------
(***************************************************************************)
(* The inductive invariants behind the safety properties of ClientLife:     *)
(* what they need to be preserved by every step.                            *)
(***************************************************************************)
EXTENDS ClientLife

-----------------------------------------------------------------------------
(***************************************************************************)
(* For NeverDispatchDead: who runs the destructor, and when.                *)
(***************************************************************************)

\* The event being dispatched is freed by the service task, last of all.
FreeAtBottom ==
  \A t \in Task : \A i \in 1..Len(todo[t]) :
    todo[t][i].op = "free" => t = Async /\ i = Len(todo[t])

\* Only an impl that has begun to die is destroyed.
DestroyedIsDying ==
  \A t \in Task : \A i \in 1..Len(todo[t]) :
    todo[t][i].op \in {"destroy", "destroyed"} => impl[todo[t][i].c] \in {"dying", "dead"}

DispatchInv == TypeOK /\ FreeAtBottom /\ DestroyedIsDying /\ NeverDispatchDead

-----------------------------------------------------------------------------
(***************************************************************************)
(* For the pcbs of server connections.                                      *)
(***************************************************************************)

\* p was handed to connect(): it can never be a server connection's.
Dialled(p) == p \in Pcb /\ pcb[p] # "free" /\ arg[p] \notin Accepted

DialOp == {"connect", "dial", "tcpConnect", "dialFailed", "CONNECTED"}

\* A frame about a server connection comes after its delivery, and a frame of a dial
\* is about a client that dials, on a pcb that was dialled.
InPlace(f) ==
  /\ f.c \in Accepted => impl[f.c] # "none" /\ f.c \notin accept
  /\ f.op \in DialOp => f.c \in Dialer
  /\ f.op \in {"tcpConnect", "dialFailed", "CONNECTED"} => Dialled(f.pcb)

FramesInPlace == \A t \in Task : \A i \in 1..Len(todo[t]) : InPlace(todo[t][i])

\* The facade is dropped only after its close(): the pcb is gone, or its close is
\* still to come on the same stack.
DropAfterClose ==
  \A t \in Task : \A i \in 1..Len(todo[t]) :
    todo[t][i].op = "drop" /\ todo[t][i].c \in Accepted =>
      \/ own[todo[t][i].c] = None
      \/ \E j \in 1..(i - 1) : todo[t][j].op = "tcpClose" /\ todo[t][j].c = todo[t][i].c

\* Before tcp_accept has built an impl there is no trace of it.
Unborn ==
  \A c \in Accepted : impl[c] = "none" =>
    /\ own[c] = None /\ queue[c] = <<>> /\ c \notin accept \cup shown
    /\ lwip # c /\ disc[c] = 0
    /\ \A p \in Pcb : arg[p] # c

\* Until its ACCEPT is taken nobody but lwIP touches a client.
Undelivered ==
  \A c \in accept : facade[c] = "live" /\ c \notin shown

FacadeHolds == \A c \in Client : HeldByFacade(c) => impl[c] = "live"

OwnedIsHeld == \A c \in Accepted : own[c] # None => HeldByFacade(c)

\* Pcbs of dials stay apart from the pcbs of server connections.
DialsApart ==
  /\ \A p \in Pcb : pcb[p] \in {"new", "syn"} => arg[p] \notin Accepted
  /\ \A c \in Dialer : own[c] # None => Dialled(own[c])
  /\ \A c \in Client : \A i \in 1..Len(queue[c]) :
       queue[c][i].kind = "CONNECTED" => c \in Dialer /\ Dialled(queue[c][i].pcb)

\* The part that says nothing of the stacks.
StateInv ==
  /\ Unborn /\ Undelivered /\ FacadeHolds /\ OwnedIsHeld /\ DialsApart
  /\ OwnedPcbIsLive /\ CallbackReachesOwner

PcbInv == DispatchInv /\ FramesInPlace /\ DropAfterClose /\ StateInv

-----------------------------------------------------------------------------
(***************************************************************************)
(* For AtMostOneDisconnect: the end of a server connection is one token,    *)
(* held by its pcb, by the rest of a tcp_error, by the queued ERROR, by the *)
(* frame that carries it to onDisconnect, or by the count of onDisconnect.  *)
(***************************************************************************)
CarrierOp == {"ERROR", "errorTail", "onDisconnect"}

\* A frame that carries the end of c holds the only token.
CarrierIsAlone ==
  \A t, u \in Task : \A i \in 1..Len(todo[t]), j \in 1..Len(todo[u]) :
    todo[t][i].op \in CarrierOp /\ todo[u][j].op \in CarrierOp
      /\ todo[t][i].c = todo[u][j].c /\ todo[t][i].c \in Accepted => t = u /\ i = j

CarrierIsLast ==
  \A t \in Task : \A i \in 1..Len(todo[t]) :
    todo[t][i].op \in CarrierOp /\ todo[t][i].c \in Accepted =>
      LET c == todo[t][i].c IN
      own[c] = None /\ queue[c] = <<>> /\ lwip # c /\ disc[c] = 0

\* Once detached from its pcb a client has at most the ERROR queued, and that not
\* after a report or while tcp_error is still to queue it.
OneErrorQueued ==
  \A c \in Accepted :
    /\ own[c] = None => queue[c] = <<>> \/ queue[c] = <<Ev("ERROR", None)>>
    /\ own[c] = None /\ queue[c] # <<>> => disc[c] = 0
    /\ own[c] # None => disc[c] = 0
    /\ own[c] # None => \A i \in 1..Len(queue[c]) : queue[c][i].kind # "ERROR"
    /\ lwip = c => own[c] = None /\ queue[c] = <<>> /\ disc[c] = 0

EndInv ==
  PcbInv /\ CarrierIsAlone /\ CarrierIsLast /\ OneErrorQueued
    /\ AtMostOneDisconnect /\ NothingAfterDisconnect

-----------------------------------------------------------------------------
(***************************************************************************)
(* For QuietAfterDisconnect, when the application has no task of its own.   *)
(***************************************************************************)
TellOp == EventKind \cup UserOp

\* A frame that calls the application, or will, is the top of its stack, and its
\* connection has not been reported.
TellersAreQuiet ==
  \A t \in Task : \A i \in 1..Len(todo[t]) : todo[t][i].op \in TellOp =>
    i = 1 /\ (todo[t][i].c \in Accepted => disc[todo[t][i].c] = 0)

QuietInv == EndInv /\ TellersAreQuiet /\ \A c \in accept : disc[c] = 0

=============================================================================
