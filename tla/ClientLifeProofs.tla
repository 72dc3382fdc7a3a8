-------------------------- MODULE ClientLifeProofs --------------------------
(***************************************************************************)
(* Theorems about ClientLife, for every set of clients, pcbs and tasks and  *)
(* for every value of the bounds: the types and the dispatches, then the    *)
(* pcbs of server connections, and then their end: it is told at most once, *)
(* nothing comes after it (without application tasks no callback either),   *)
(* and the whole implements Connection.                                     *)
(***************************************************************************)
EXTENDS ClientLifeInv, SequenceTheorems, TLAPS

-----------------------------------------------------------------------------
(***************************************************************************)
(* The stacks.                                                              *)
(***************************************************************************)

\* The stack that replaces the top of s by fs: its length and its elements.
LEMMA Pushing ==
  ASSUME NEW S, NEW s \in Seq(S), s # <<>>, NEW fs \in Seq(S)
  PROVE  /\ fs \o Tail(s) \in Seq(S)
         /\ Len(fs \o Tail(s)) = Len(fs) + Len(s) - 1
         /\ \A i \in 1..Len(fs \o Tail(s)) :
              (fs \o Tail(s))[i] = IF i <= Len(fs) THEN fs[i] ELSE s[i - Len(fs) + 1]
  <1>1. /\ Tail(s) \in Seq(S)
        /\ Len(Tail(s)) = Len(s) - 1
        /\ \A i \in 1..Len(Tail(s)) : Tail(s)[i] = s[i + 1]
    BY HeadTailProperties
  <1>2. /\ fs \o Tail(s) \in Seq(S)
        /\ Len(fs \o Tail(s)) = Len(fs) + Len(Tail(s))
        /\ \A i \in 1..(Len(fs) + Len(Tail(s))) :
             (fs \o Tail(s))[i] = IF i <= Len(fs) THEN fs[i] ELSE Tail(s)[i - Len(fs)]
    BY <1>1, ConcatProperties
  <1>3. Len(s) \in Nat /\ Len(fs) \in Nat
    BY LenProperties
  <1>4. ASSUME NEW i \in 1..Len(fs \o Tail(s)), ~ (i <= Len(fs))
        PROVE  Tail(s)[i - Len(fs)] = s[i - Len(fs) + 1]
    BY <1>1, <1>2, <1>3, <1>4
  <1> QED
    BY <1>1, <1>2, <1>3, <1>4

\* Frames have the fields of Frame.
LEMMA FrameType ==
  /\ \A op \in EventKind \cup UserOp \cup CallOp, c \in Client : F(op, c) \in Frame
  /\ \A op \in EventKind \cup UserOp \cup CallOp, c \in Client, p \in Pcb \cup {None} :
       FP(op, c, p) \in Frame
  BY DEF F, FP, Frame

\* The top of a stack in progress is a frame, of a client.
LEMMA TopType ==
  ASSUME TypeOK, NEW t \in Task, todo[t] # <<>>
  PROVE  Top(t) \in Frame /\ Top(t).c \in Client /\ Top(t).pcb \in Pcb \cup {None}
  <1>1. todo[t] \in Seq(Frame)
    BY DEF TypeOK
  <1>2. Top(t) \in Frame
    BY <1>1, HeadTailProperties DEF Top
  <1> QED
    BY <1>2 DEF Frame

\* So is every other frame.
LEMMA StackType ==
  ASSUME TypeOK, NEW t \in Task
  PROVE  /\ Len(todo[t]) \in Nat
         /\ \A i \in 1..Len(todo[t]) :
              /\ todo[t][i] \in Frame
              /\ todo[t][i].c \in Client
              /\ todo[t][i].pcb \in Pcb \cup {None}
  <1>1. todo[t] \in Seq(Frame)
    BY DEF TypeOK
  <1>2. \A i \in 1..Len(todo[t]) : todo[t][i] \in Frame
    BY <1>1, ElementOfSeq
  <1> QED
    BY <1>1, <1>2, LenProperties DEF Frame

LEMMA ReturnType ==
  ASSUME TypeOK, NEW t \in Task, todo[t] # <<>>,
         NEW fs \in Seq(Frame), Return(t, fs)
  PROVE  todo' \in [Task -> Seq(Frame)]
  <1>1. todo[t] \in Seq(Frame)
    BY DEF TypeOK
  <1>2. fs \o Tail(todo[t]) \in Seq(Frame)
    BY <1>1, Pushing
  <1> QED
    BY <1>2 DEF TypeOK, Return

\* Making the fields of records and the elements of queues typed.
LEMMA EventType ==
  /\ \A kind \in EventKind, p \in Pcb \cup {None} : Ev(kind, p) \in Event
  /\ \A e \in Event : e.kind \in EventKind /\ e.pcb \in Pcb \cup {None}
  BY DEF Ev, Event

LEMMA SendType ==
  ASSUME TypeOK, NEW c \in Client, NEW e \in Event
  PROVE  Send(queue, c, e) \in [Client -> Seq(Event)]
  BY DEF TypeOK, Send

LEMMA NotifyType ==
  ASSUME TypeOK, NEW p \in Pcb, NEW kind \in EventKind, Notify(p, kind)
  PROVE  queue' \in [Client -> Seq(Event)]
  <1>1. Ev(kind, p) \in Event
    BY EventType
  <1>2. arg[p] \in Client
    BY DEF TypeOK, Notify
  <1>3. CASE queue' = Send(queue, arg[p], Ev(kind, p))
    BY <1>1, <1>2, <1>3, SendType
  <1> QED
    BY <1>3 DEF Notify, TypeOK

-----------------------------------------------------------------------------
(***************************************************************************)
(* Types.                                                                   *)
(***************************************************************************)
LEMMA InitType == Init => TypeOK
  BY ConstantsAssumption DEF Init, TypeOK, Task, Accepted

LEMMA LwipType ==
  ASSUME TypeOK, LwipStep
  PROVE  TypeOK'
  <1>1. ASSUME NEW c \in Client, TcpAccept(c) PROVE TypeOK'
    <2>1. PICK p \in Pcb :
            /\ facade' = [facade EXCEPT ![c] = "live"]
            /\ impl' = [impl EXCEPT ![c] = "live"]
            /\ arg' = [arg EXCEPT ![p] = c]
            /\ \/ /\ pcb' = [pcb EXCEPT ![p] = "est"]
                  /\ own' = [own EXCEPT ![c] = p]
                  /\ accept' = accept \cup {c}
                  /\ UNCHANGED lwip
               \/ /\ pcb' = [pcb EXCEPT ![p] = "gone"]
                  /\ lwip' = c
                  /\ UNCHANGED <<own, accept>>
      BY <1>1 DEF TcpAccept
    <2>2. c \in Accepted /\ UNCHANGED <<queue, shown, todo, disc>>
      BY <1>1 DEF TcpAccept
    <2> QED
      BY <2>1, <2>2 DEF TypeOK
  <1>2. ASSUME NEW p \in Pcb, TcpConnected(p) PROVE TypeOK'
    BY <1>2, NotifyType DEF TypeOK, TcpConnected, EventKind
  <1>3. ASSUME NEW p \in Pcb, TcpRecv(p) PROVE TypeOK'
    BY <1>3, NotifyType DEF TypeOK, TcpRecv, EventKind
  <1>4. ASSUME NEW p \in Pcb, TcpFin(p) PROVE TypeOK'
    BY <1>4, NotifyType DEF TypeOK, TcpFin, EventKind
  <1>5. ASSUME NEW p \in Pcb, TcpSent(p) PROVE TypeOK'
    BY <1>5, NotifyType DEF TypeOK, TcpSent, EventKind
  <1>6. ASSUME NEW p \in Pcb, TcpPoll(p) PROVE TypeOK'
    BY <1>6, NotifyType DEF TypeOK, TcpPoll, EventKind
  <1>7. ASSUME NEW p \in Pcb, TcpError(p) PROVE TypeOK'
    BY <1>7 DEF TypeOK, TcpError, Detach, Purge, Reap
  <1>8. CASE TcpErrorQueue
    <2>1. Ev("ERROR", None) \in Event
      BY EventType DEF EventKind
    <2>2. lwip \in Client
      BY <1>8 DEF TypeOK, TcpErrorQueue
    <2>3. queue' = Send(queue, lwip, Ev("ERROR", None)) \/ queue' = queue
      BY <1>8 DEF TcpErrorQueue
    <2>4. queue' \in [Client -> Seq(Event)]
      BY <2>1, <2>2, <2>3, SendType DEF TypeOK
    <2> QED
      BY <1>8, <2>4 DEF TypeOK, TcpErrorQueue
  <1> QED
    BY <1>1, <1>2, <1>3, <1>4, <1>5, <1>6, <1>7, <1>8 DEF LwipStep

\* What is pushed is made of frames.
LEMMA PushedType ==
  ASSUME NEW c \in Client
  PROVE  /\ <<>> \in Seq(Frame)
         /\ DeleteWork(c) \in Seq(Frame)
         /\ \A op \in EventKind \cup UserOp \cup CallOp : <<F(op, c)>> \in Seq(Frame)
         /\ \A op, op2 \in EventKind \cup UserOp \cup CallOp :
              <<F(op, c), F(op2, c)>> \in Seq(Frame)
         /\ \A op, op2 \in EventKind \cup UserOp \cup CallOp, p \in Pcb \cup {None} :
              <<FP(op, c, p), F(op2, c)>> \in Seq(Frame)
         /\ \A op \in EventKind \cup UserOp \cup CallOp, p \in Pcb \cup {None} :
              <<FP(op, c, p)>> \in Seq(Frame)
  <1>1. DeleteWork(c) \in Seq(Frame)
    <2>1. F("tcpClose", c) \in Frame /\ F("drop", c) \in Frame
      BY FrameType DEF CallOp
    <2> QED
      BY <2>1 DEF DeleteWork
  <1>2. \A op \in EventKind \cup UserOp \cup CallOp, p \in Pcb \cup {None} :
          F(op, c) \in Frame /\ FP(op, c, p) \in Frame
    BY FrameType
  <1>3. \A f, g \in Frame : <<f>> \in Seq(Frame) /\ <<f, g>> \in Seq(Frame)
    OBVIOUS
  <1>4. <<>> \in Seq(Frame)
    BY EmptySeq
  <1> QED
    BY <1>1, <1>2, <1>3, <1>4

LEMMA ReactionType ==
  ASSUME TypeOK, NEW t \in Task, NEW c \in Client, NEW rest \in Seq(Frame),
         Reaction(t, c, rest)
  PROVE  /\ todo' \in [Task -> Seq(Frame)]
         /\ facade' \in [Client -> {"none", "live", "cut", "gone"}]
  <1>1. PICK fs \in Seq(Frame) : todo' = [todo EXCEPT ![t] = fs \o rest]
    BY PushedType DEF Reaction, CallOp
  <1>2. fs \o rest \in Seq(Frame)
    BY ConcatProperties
  <1>3. todo' \in [Task -> Seq(Frame)]
    BY <1>1, <1>2 DEF TypeOK
  <1>4. facade' \in [Client -> {"none", "live", "cut", "gone"}]
    BY DEF Reaction, TypeOK
  <1> QED
    BY <1>3, <1>4

LEMMA AppCallType ==
  ASSUME TypeOK, NEW t \in AppTask, NEW c \in Client, AppCall(t, c)
  PROVE  TypeOK'
  <1>1. <<>> \in Seq(Frame)
    BY EmptySeq
  <1>2. /\ todo' \in [Task -> Seq(Frame)]
        /\ facade' \in [Client -> {"none", "live", "cut", "gone"}]
    BY <1>1, ReactionType DEF AppCall, Task
  <1> QED
    BY <1>2 DEF AppCall, TypeOK

LEMMA UserCallbackType ==
  ASSUME TypeOK, NEW t \in Task, UserCallback(t)
  PROVE  TypeOK'
  <1>1. todo[t] # <<>> /\ Top(t).c \in Client
    BY TopType DEF UserCallback
  <1>2. <<>> \in Seq(Frame) /\ Tail(todo[t]) \in Seq(Frame)
    BY <1>1, HeadTailProperties, EmptySeq DEF TypeOK
  <1>3. shown' \subseteq Client
    BY <1>1 DEF UserCallback, TypeOK
  <1>4. disc' \in [Client -> 0..2]
    <2>1. disc' = disc \/ (disc[Top(t).c] < 2 /\ disc' = [disc EXCEPT ![Top(t).c] = @ + 1])
      BY DEF UserCallback
    <2>2. disc \in [Client -> 0..2]
      BY DEF TypeOK
    <2>3. disc[Top(t).c] < 2 => disc[Top(t).c] + 1 \in 0..2
      BY <1>1, <2>2
    <2> QED
      BY <1>1, <2>1, <2>2, <2>3
  <1>5. /\ todo' \in [Task -> Seq(Frame)]
        /\ facade' \in [Client -> {"none", "live", "cut", "gone"}]
    <2>1. CASE Return(t, <<>>) /\ UNCHANGED facade
      BY <1>1, <1>2, <2>1, ReturnType DEF TypeOK
    <2>2. CASE \E d \in shown' : Reaction(t, d, Tail(todo[t]))
      BY <1>2, <1>3, <2>2, ReactionType
    <2> QED
      BY <2>1, <2>2 DEF UserCallback
  <1> QED
    BY <1>3, <1>4, <1>5 DEF UserCallback, TypeOK

LEMMA TransportType ==
  ASSUME TypeOK, NEW t \in Task,
         TcpClose(t) \/ AbortCheck(t) \/ TcpAbort(t) \/ ErrorTail(t) \/ ServerDiscard(t)
  PROVE  TypeOK'
  <1> DEFINE c == Top(t).c
  <1>1. todo[t] # <<>> /\ c \in Client
    BY TopType DEF At, TcpClose, AbortCheck, TcpAbort, ErrorTail, ServerDiscard
  <1>2. todo' \in [Task -> Seq(Frame)]
    <2>1. \E fs \in Seq(Frame) : Return(t, fs)
      BY <1>1, PushedType DEF TcpClose, AbortCheck, TcpAbort, ErrorTail, ServerDiscard,
        UserOp, CallOp
    <2> QED
      BY <1>1, <2>1, ReturnType
  <1>3. CASE TcpClose(t) \/ TcpAbort(t)
    <2>1. \/ own[c] # None /\ Release(c)
          \/ own[c] = None /\ Forget(c)
      BY <1>3 DEF TcpClose, TcpAbort
    <2>2. Reap(c) /\ UNCHANGED <<facade, accept, shown, lwip, disc>>
      BY <1>3 DEF TcpClose, TcpAbort
    <2>3. impl' \in [Client -> {"none", "live", "dying", "dead"}]
      BY <1>1, <2>2 DEF Reap, TypeOK
    <2>4. queue' = Purge(queue, c)
      BY <2>1 DEF Release, Forget
    <2>5. queue' \in [Client -> Seq(Event)]
      BY <1>1, <2>4 DEF Purge, TypeOK
    <2>6. CASE own[c] # None /\ Release(c)
      BY <1>1, <1>2, <2>2, <2>3, <2>5, <2>6 DEF TypeOK, Release
    <2>7. CASE own[c] = None /\ Forget(c)
      BY <1>1, <1>2, <2>2, <2>3, <2>5, <2>7 DEF TypeOK, Forget
    <2> QED
      BY <2>1, <2>6, <2>7
  <1>4. CASE AbortCheck(t) \/ ErrorTail(t) \/ ServerDiscard(t)
    BY <1>2, <1>4 DEF AbortCheck, ErrorTail, ServerDiscard, TypeOK
  <1> QED
    BY <1>3, <1>4

LEMMA LetGoType ==
  ASSUME TypeOK, NEW t \in Task, NEW c \in Client, todo[t] # <<>>,
         NEW last \in BOOLEAN, LetGo(t, c, last)
  PROVE  /\ todo' \in [Task -> Seq(Frame)]
         /\ impl' \in [Client -> {"none", "live", "dying", "dead"}]
  <1>1. \E fs \in Seq(Frame) : Return(t, fs)
    BY PushedType DEF LetGo, CallOp
  <1>2. impl' \in [Client -> {"none", "live", "dying", "dead"}]
    BY DEF LetGo, TypeOK
  <1> QED
    BY <1>1, <1>2, ReturnType

LEMMA DestructionType ==
  ASSUME TypeOK, NEW t \in Task,
         Drop(t) \/ FreeEvent(t) \/ Destroy(t) \/ Destroyed(t)
  PROVE  TypeOK'
  <1> DEFINE c == Top(t).c
  <1>1. todo[t] # <<>> /\ c \in Client
    BY TopType DEF At, Drop, FreeEvent, Destroy, Destroyed
  <1>2. CASE Drop(t)
    <2>1. LetGo(t, c, impl[c] = "live" /\ ~ HeldByEvents(c))
      BY <1>2 DEF Drop
    <2>2. /\ todo' \in [Task -> Seq(Frame)]
          /\ impl' \in [Client -> {"none", "live", "dying", "dead"}]
      BY <1>1, <2>1, LetGoType
    <2> QED
      BY <1>1, <1>2, <2>2 DEF Drop, TypeOK
  <1>3. CASE FreeEvent(t)
    <2>1. LetGo(t, c, impl[c] = "live" /\ ~ HeldByQueue(c) /\ ~ HeldByFacade(c))
      BY <1>3 DEF FreeEvent
    <2>2. /\ todo' \in [Task -> Seq(Frame)]
          /\ impl' \in [Client -> {"none", "live", "dying", "dead"}]
      BY <1>1, <2>1, LetGoType
    <2> QED
      BY <1>1, <1>3, <2>2 DEF FreeEvent, TypeOK
  <1>4. CASE Destroy(t)
    <2>1. F("tcpClose", c) \in Frame /\ F("destroyed", c) \in Frame
      BY <1>1, FrameType DEF CallOp
    <2>2. \E fs \in Seq(Frame) : Return(t, fs)
      <3>1. (IF own[c] # None THEN <<F("tcpClose", c)>> ELSE <<>>) \in Seq(Frame)
        BY <2>1
      <3>2. <<F("destroyed", c)>> \in Seq(Frame)
        BY <2>1
      <3> QED
        BY <1>4, <3>1, <3>2, ConcatProperties DEF Destroy
    <2> QED
      BY <1>1, <1>4, <2>2, ReturnType DEF Destroy, TypeOK
  <1>5. CASE Destroyed(t)
    <2>1. <<>> \in Seq(Frame)
      BY EmptySeq
    <2>2. todo' \in [Task -> Seq(Frame)]
      BY <1>1, <1>5, <2>1, ReturnType DEF Destroyed
    <2> QED
      BY <1>1, <1>5, <2>2 DEF Destroyed, TypeOK
  <1> QED
    BY <1>2, <1>3, <1>4, <1>5

LEMMA DialType ==
  ASSUME TypeOK, NEW t \in Task,
         ConnectCheck(t) \/ Dial(t) \/ TcpConnect(t) \/ DialFailed(t)
  PROVE  TypeOK'
  <1> DEFINE c == Top(t).c
             q == Top(t).pcb
  <1>1. todo[t] # <<>> /\ c \in Client /\ q \in Pcb \cup {None}
    BY TopType DEF At, ConnectCheck, Dial, TcpConnect, DialFailed
  <1>2. todo' \in [Task -> Seq(Frame)]
    <2>1. \E fs \in Seq(Frame) : Return(t, fs)
      BY <1>1, PushedType DEF ConnectCheck, Dial, TcpConnect, DialFailed, CallOp
    <2> QED
      BY <1>1, <2>1, ReturnType
  <1>3. CASE ConnectCheck(t)
    BY <1>2, <1>3 DEF ConnectCheck, TypeOK
  <1>4. CASE Dial(t)
    BY <1>1, <1>2, <1>4 DEF Dial, TypeOK
  <1>5. CASE TcpConnect(t)
    BY <1>2, <1>5 DEF TcpConnect, TypeOK
  <1>6. CASE DialFailed(t)
    <2>1. queue' \in [Client -> Seq(Event)]
      BY <1>1, <1>6 DEF DialFailed, Purge, TypeOK
    <2>2. impl' \in [Client -> {"none", "live", "dying", "dead"}]
      BY <1>1, <1>6 DEF DialFailed, Reap, TypeOK
    <2> QED
      BY <1>2, <1>6, <2>1, <2>2 DEF DialFailed, TypeOK
  <1> QED
    BY <1>3, <1>4, <1>5, <1>6

LEMMA TakeType ==
  ASSUME TypeOK, NEW c \in Client, TakeEvent(c) \/ TakeAccept(c)
  PROVE  TypeOK'
  <1>1. CASE TakeEvent(c)
    <2>1. Head(queue[c]) \in Event /\ Tail(queue[c]) \in Seq(Event)
      BY <1>1, HeadTailProperties DEF TypeOK, TakeEvent
    <2>2. <<FP(Head(queue[c]).kind, c, Head(queue[c]).pcb), F("free", c)>> \in Seq(Frame)
      BY <2>1, PushedType, EventType DEF CallOp
    <2>3. queue' \in [Client -> Seq(Event)]
      BY <1>1, <2>1 DEF TakeEvent, TypeOK
    <2> QED
      BY <1>1, <2>2, <2>3 DEF TakeEvent, TypeOK
  <1>2. CASE TakeAccept(c)
    <2>1. <<F("onClient", c)>> \in Seq(Frame) /\ <<F("abort", c)>> \in Seq(Frame)
      BY PushedType DEF UserOp, CallOp
    <2>2. <<F("abort", c)>> \o DeleteWork(c) \in Seq(Frame)
      BY <2>1, PushedType, ConcatProperties
    <2>3. todo' \in [Task -> Seq(Frame)]
      BY <1>2, <2>1, <2>2 DEF TakeAccept, TypeOK
    <2> QED
      BY <1>2, <2>3 DEF TakeAccept, TypeOK
  <1> QED
    BY <1>1, <1>2

LEMMA HandlerType ==
  ASSUME TypeOK, HandlerStep
  PROVE  TypeOK'
  <1> DEFINE c == Top(Async).c
             q == Top(Async).pcb
  <1>1. todo[Async] # <<>>
    BY DEF HandlerStep, HandleRecv, HandleFin, HandleSent, HandlePoll, HandleError,
      HandleConnected, Handler, At
  <1>2. Async \in Task /\ c \in Client /\ q \in Pcb \cup {None}
    BY <1>1, TopType DEF Task
  <1>3. ASSUME NEW kind \in EventKind, NEW fs \in Seq(Frame), Handler(kind, fs)
        PROVE  /\ todo' \in [Task -> Seq(Frame)]
               /\ UNCHANGED <<pcb, arg, facade, impl, queue, accept, shown, lwip, disc>>
    <2>1. \E gs \in Seq(Frame) : Return(Async, gs)
      BY <1>3, EmptySeq DEF Handler
    <2> QED
      BY <1>1, <1>2, <1>3, <2>1, ReturnType DEF Handler
  <1>4. \E kind \in EventKind, fs \in Seq(Frame) : Handler(kind, fs)
    BY <1>2, PushedType DEF HandlerStep, HandleRecv, HandleFin, HandleSent, HandlePoll,
      HandleError, HandleConnected, IfOwned, EventKind, UserOp, CallOp
  <1>5. own' \in [Client -> Pcb \cup {None}]
    BY <1>2 DEF HandlerStep, HandleRecv, HandleFin, HandleSent, HandlePoll, HandleError,
      HandleConnected, TypeOK
  <1> QED
    BY <1>3, <1>4, <1>5 DEF TypeOK

LEMMA TypeNext ==
  ASSUME TypeOK, [Next]_vars
  PROVE  TypeOK'
  <1>1. ASSUME NEW t \in Task, FrameStep(t) PROVE TypeOK'
    BY <1>1, UserCallbackType, TransportType, DestructionType, DialType DEF FrameStep
  <1>2. CASE Next
    BY <1>1, <1>2, LwipType, AppCallType, HandlerType, TakeType DEF Next
  <1>3. CASE UNCHANGED vars
    BY <1>3 DEF vars, TypeOK
  <1> QED
    BY <1>2, <1>3

\* Every variable keeps its type whatever the interleaving of lwIP, the service
\* task and the application.
THEOREM TypeCorrect == Spec => []TypeOK
  BY InitType, TypeNext, PTL DEF Spec

-----------------------------------------------------------------------------
(***************************************************************************)
(* How a step changes the stacks: on one task t the top frame, if there is  *)
(* one, gives way to the frames fs.                                         *)
(***************************************************************************)
Base(t) == IF todo[t] = <<>> THEN <<>> ELSE Tail(todo[t])
Moves(t, fs) == todo' = [todo EXCEPT ![t] = fs \o Base(t)]

\* Frame i of u's new stack was frame k of its old one, equally far from the bottom.
Kept(u, i, k) ==
  /\ k \in 1..Len(todo[u])
  /\ todo'[u][i] = todo[u][k]
  /\ Len(todo'[u]) - i = Len(todo[u]) - k

LEMMA MovesElements ==
  ASSUME TypeOK, NEW t \in Task, NEW fs \in Seq(Frame), Moves(t, fs)
  PROVE  \A u \in Task : \A i \in 1..Len(todo'[u]) :
           \/ u = t /\ i \in 1..Len(fs) /\ todo'[u][i] = fs[i]
           \/ u = t /\ i > Len(fs) /\ i - Len(fs) + 1 >= 2 /\ Kept(u, i, i - Len(fs) + 1)
           \/ u # t /\ Kept(u, i, i)
  <1> SUFFICES ASSUME NEW u \in Task, NEW i \in 1..Len(todo'[u])
      PROVE  \/ u = t /\ i \in 1..Len(fs) /\ todo'[u][i] = fs[i]
             \/ u = t /\ i > Len(fs) /\ i - Len(fs) + 1 >= 2 /\ Kept(u, i, i - Len(fs) + 1)
             \/ u # t /\ Kept(u, i, i)
    OBVIOUS
  <1>1. todo \in [Task -> Seq(Frame)]
    BY DEF TypeOK
  <1>2. Len(fs) \in Nat /\ Len(todo[t]) \in Nat /\ Len(todo[u]) \in Nat
    BY <1>1, LenProperties
  <1>3. CASE u # t
    <2>1. todo'[u] = todo[u]
      BY <1>1, <1>3 DEF Moves
    <2> QED
      BY <1>2, <1>3, <2>1 DEF Kept
  <1>4. CASE u = t /\ todo[t] = <<>>
    <2>1. todo'[t] = fs \o <<>>
      BY <1>1, <1>4 DEF Moves, Base
    <2>2. todo'[t] = fs
      BY <2>1, ConcatEmptySeq
    <2> QED
      BY <1>2, <1>4, <2>2
  <1>5. CASE u = t /\ todo[t] # <<>>
    <2>1. todo'[t] = fs \o Tail(todo[t])
      BY <1>1, <1>5 DEF Moves, Base
    <2>2. /\ Len(todo'[t]) = Len(fs) + Len(todo[t]) - 1
          /\ todo'[t][i] = IF i <= Len(fs) THEN fs[i] ELSE todo[t][i - Len(fs) + 1]
      BY <1>1, <1>5, <2>1, Pushing
    <2>3. CASE i <= Len(fs)
      BY <1>2, <1>5, <2>2, <2>3
    <2>4. CASE i > Len(fs)
      BY <1>2, <1>5, <2>2, <2>4 DEF Kept
    <2> QED
      BY <1>2, <2>3, <2>4
  <1> QED
    BY <1>3, <1>4, <1>5

\* A return is such a move.
LEMMA ReturnMoves ==
  ASSUME NEW t, NEW fs, todo[t] # <<>>, Return(t, fs)
  PROVE  Moves(t, fs)
  BY DEF Return, Moves, Base

\* So is what the application does, on top of a user callback or of nothing.
LEMMA ReactionMoves ==
  ASSUME NEW t \in Task, NEW c \in Client, Reaction(t, c, Base(t))
  PROVE  /\ facade[c] = "live"
         /\ \E fs \in Seq(Frame) :
              /\ Moves(t, fs)
              /\ \/ \E op \in {"tcpClose", "abort"} : fs = <<F(op, c)>> /\ UNCHANGED facade
                 \/ c \in Dialer /\ fs = <<F("connect", c)>> /\ UNCHANGED facade
                 \/ fs = DeleteWork(c) /\ facade' = [facade EXCEPT ![c] = "cut"]
  <1>1. \A op \in CallOp : <<F(op, c)>> \in Seq(Frame)
    BY PushedType
  <1>2. CASE \/ todo' = [todo EXCEPT ![t] = <<F("tcpClose", c)>> \o Base(t)] /\ UNCHANGED facade
             \/ todo' = [todo EXCEPT ![t] = <<F("abort", c)>> \o Base(t)] /\ UNCHANGED facade
    BY <1>1, <1>2 DEF Reaction, Moves, CallOp
  <1>3. CASE /\ c \in Dialer
             /\ todo' = [todo EXCEPT ![t] = <<F("connect", c)>> \o Base(t)]
             /\ UNCHANGED facade
    BY <1>1, <1>3 DEF Reaction, Moves, CallOp
  <1>4. CASE /\ todo' = [todo EXCEPT ![t] = DeleteWork(c) \o Base(t)]
             /\ facade' = [facade EXCEPT ![c] = "cut"]
    BY PushedType, <1>4 DEF Reaction, Moves
  <1> QED
    BY <1>2, <1>3, <1>4 DEF Reaction

-----------------------------------------------------------------------------
(***************************************************************************)
(* Dispatch never meets a dead client.                                      *)
(***************************************************************************)
Plain(fs) == \A i \in 1..Len(fs) : fs[i].op \notin {"free", "destroy", "destroyed"}

\* An impl that has begun to die never comes back.
NoRevival ==
  \A c \in Client : impl[c] \in {"dying", "dead"} => impl'[c] \in {"dying", "dead"}

\* A step keeps the invariant if it pushes no "free", lets the destructor run only on
\* a dying impl, and leaves every impl alive that an event still holds.
LEMMA DispatchMove ==
  ASSUME DispatchInv, TypeOK', NEW t \in Task, NEW fs \in Seq(Frame), Moves(t, fs),
         NoRevival,
         \A i \in 1..Len(fs) :
           /\ fs[i].op # "free"
           /\ fs[i].op \in {"destroy", "destroyed"} => impl'[fs[i].c] \in {"dying", "dead"},
         \A c \in Client : HeldByQueue(c)' \/ HeldByDispatch(c)' => impl'[c] = "live"
  PROVE  DispatchInv'
  <1>1. TypeOK /\ FreeAtBottom /\ DestroyedIsDying
    BY DEF DispatchInv
  <1>2. ASSUME NEW u \in Task, NEW i \in 1..Len(todo'[u])
        PROVE  \/ \E j \in 1..Len(fs) : todo'[u][i] = fs[j]
               \/ \E k : Kept(u, i, k)
    BY <1>1, MovesElements
  <1>3. \A u \in Task : Len(todo[u]) \in Nat /\ Len(todo'[u]) \in Nat
    BY <1>1, LenProperties DEF TypeOK
  <1>4. FreeAtBottom'
    <2> SUFFICES ASSUME NEW u \in Task, NEW i \in 1..Len(todo'[u]), todo'[u][i].op = "free"
        PROVE  u = Async /\ i = Len(todo'[u])
      BY DEF FreeAtBottom
    <2>1. PICK k : Kept(u, i, k)
      BY <1>2
    <2> QED
      BY <1>1, <1>3, <2>1 DEF Kept, FreeAtBottom
  <1>5. DestroyedIsDying'
    <2> SUFFICES ASSUME NEW u \in Task, NEW i \in 1..Len(todo'[u]),
                        todo'[u][i].op \in {"destroy", "destroyed"}
        PROVE  impl'[todo'[u][i].c] \in {"dying", "dead"}
      BY DEF DestroyedIsDying
    <2>1. ASSUME NEW k, Kept(u, i, k)
          PROVE  impl'[todo'[u][i].c] \in {"dying", "dead"}
      BY <1>1, <2>1, StackType DEF Kept, DestroyedIsDying, NoRevival
    <2> QED
      BY <1>2, <2>1
  <1>6. NeverDispatchDead'
    BY DEF NeverDispatchDead
  <1> QED
    BY <1>4, <1>5, <1>6 DEF DispatchInv

\* A task that pushes no "free" begins no dispatch.
LEMMA NoNewDispatch ==
  ASSUME TypeOK, NEW t \in Task, NEW fs \in Seq(Frame), Moves(t, fs),
         \A i \in 1..Len(fs) : fs[i].op # "free",
         NEW c \in Client, HeldByDispatch(c)'
  PROVE  HeldByDispatch(c)
  <1>1. Async \in Task
    BY DEF Task
  <1>2. PICK i \in 1..Len(todo'[Async]) : todo'[Async][i].op = "free" /\ todo'[Async][i].c = c
    BY DEF HeldByDispatch
  <1>3. PICK k : Kept(Async, i, k)
    BY <1>1, <1>2, MovesElements
  <1> QED
    BY <1>2, <1>3 DEF Kept, HeldByDispatch

\* In particular a step that pushes plain frames, and takes the life of no impl with a
\* queued or dispatched event, keeps the invariant.
LEMMA PlainMove ==
  ASSUME DispatchInv, TypeOK', NEW t \in Task, NEW fs \in Seq(Frame), Moves(t, fs),
         Plain(fs), NoRevival,
         \A c \in Client : HeldByQueue(c)' \/ HeldByDispatch(c) => impl'[c] = "live"
  PROVE  DispatchInv'
  <1>1. \A c \in Client : HeldByDispatch(c)' => HeldByDispatch(c)
    BY NoNewDispatch DEF DispatchInv, Plain
  <1> QED
    BY <1>1, DispatchMove DEF Plain

\* Short stacks of plain operations are plain.
PlainOp == (EventKind \cup UserOp \cup CallOp) \ {"free", "destroy", "destroyed"}

LEMMA PlainFrames ==
  ASSUME NEW c \in Client
  PROVE  /\ <<>> \in Seq(Frame) /\ Plain(<<>>)
         /\ DeleteWork(c) \in Seq(Frame) /\ Plain(DeleteWork(c))
         /\ \A op \in PlainOp : <<F(op, c)>> \in Seq(Frame) /\ Plain(<<F(op, c)>>)
         /\ \A op, op2 \in PlainOp :
              <<F(op, c), F(op2, c)>> \in Seq(Frame) /\ Plain(<<F(op, c), F(op2, c)>>)
         /\ \A op \in PlainOp, p \in Pcb \cup {None} :
              <<FP(op, c, p)>> \in Seq(Frame) /\ Plain(<<FP(op, c, p)>>)
  <1>1. DeleteWork(c) \in Seq(Frame) /\ <<>> \in Seq(Frame)
    BY PushedType
  <1>2. Plain(DeleteWork(c)) /\ Plain(<<>>)
    BY DEF Plain, DeleteWork, F
  <1>3. \A op \in PlainOp : <<F(op, c)>> \in Seq(Frame) /\ Plain(<<F(op, c)>>)
    BY PushedType DEF Plain, PlainOp, F
  <1>4. \A op, op2 \in PlainOp :
          <<F(op, c), F(op2, c)>> \in Seq(Frame) /\ Plain(<<F(op, c), F(op2, c)>>)
    BY PushedType DEF Plain, PlainOp, F
  <1>5. \A op \in PlainOp, p \in Pcb \cup {None} :
          <<FP(op, c, p)>> \in Seq(Frame) /\ Plain(<<FP(op, c, p)>>)
    BY PushedType DEF Plain, PlainOp, FP
  <1> QED
    BY <1>1, <1>2, <1>3, <1>4, <1>5

LEMMA PlainConcat ==
  ASSUME NEW fs \in Seq(Frame), NEW gs \in Seq(Frame), Plain(fs), Plain(gs)
  PROVE  fs \o gs \in Seq(Frame) /\ Plain(fs \o gs)
  <1>1. /\ fs \o gs \in Seq(Frame)
        /\ Len(fs \o gs) = Len(fs) + Len(gs)
        /\ \A i \in 1..(Len(fs) + Len(gs)) :
             (fs \o gs)[i] = IF i <= Len(fs) THEN fs[i] ELSE gs[i - Len(fs)]
    BY ConcatProperties
  <1>2. Len(fs) \in Nat /\ Len(gs) \in Nat
    BY LenProperties
  <1> QED
    BY <1>1, <1>2 DEF Plain

LEMMA ReactionPlain ==
  ASSUME NEW t \in Task, NEW c \in Client, Reaction(t, c, Base(t))
  PROVE  \E fs \in Seq(Frame) : Moves(t, fs) /\ Plain(fs)
  <1>1. PICK fs \in Seq(Frame) :
          /\ Moves(t, fs)
          /\ fs \in {<<F(op, c)>> : op \in {"tcpClose", "abort", "connect"}} \cup {DeleteWork(c)}
    BY ReactionMoves
  <1>2. Plain(fs)
    BY <1>1, PlainFrames DEF PlainOp, CallOp
  <1> QED
    BY <1>1, <1>2

\* The steps that destroy nothing push plain frames.
LEMMA PlainSteps ==
  ASSUME TypeOK, NEW t \in Task,
         \/ UserCallback(t) \/ TcpClose(t) \/ AbortCheck(t) \/ TcpAbort(t) \/ ErrorTail(t)
         \/ ServerDiscard(t) \/ ConnectCheck(t) \/ Dial(t) \/ TcpConnect(t) \/ DialFailed(t)
  PROVE  \E fs \in Seq(Frame) : Moves(t, fs) /\ Plain(fs)
  <1> DEFINE c == Top(t).c
  <1>1. todo[t] # <<>> /\ c \in Client /\ Top(t).pcb \in Pcb \cup {None}
    BY TopType DEF At, UserCallback, TcpClose, AbortCheck, TcpAbort, ErrorTail, ServerDiscard,
      ConnectCheck, Dial, TcpConnect, DialFailed
  <1>2. CASE UserCallback(t)
    <2>1. CASE Return(t, <<>>)
      BY <1>1, <2>1, ReturnMoves, PlainFrames
    <2>2. CASE \E d \in shown' : Reaction(t, d, Tail(todo[t]))
      <3>1. shown' \subseteq Client
        BY <1>2, UserCallbackType DEF TypeOK
      <3>2. Tail(todo[t]) = Base(t)
        BY <1>1 DEF Base
      <3> QED
        BY <2>2, <3>1, <3>2, ReactionPlain
    <2> QED
      BY <1>2, <2>1, <2>2 DEF UserCallback
  <1>3. CASE TcpClose(t) \/ TcpAbort(t) \/ ErrorTail(t)
    <2>1. \E fs \in {<<>>, <<F("onDisconnect", c), F("serverDiscard", c)>>,
                     <<F("onError", c), F("errorTail", c)>>} : Return(t, fs)
      BY <1>3 DEF TcpClose, TcpAbort, ErrorTail
    <2> QED
      BY <1>1, <2>1, ReturnMoves, PlainFrames DEF PlainOp, UserOp, CallOp
  <1>4. CASE AbortCheck(t) \/ ServerDiscard(t) \/ ConnectCheck(t) \/ DialFailed(t)
    <2>1. \E fs \in {<<>>, <<F("tcpAbort", c)>>, <<F("dial", c)>>} : Return(t, fs)
      BY <1>4 DEF AbortCheck, ServerDiscard, ConnectCheck, DialFailed
    <2> QED
      BY <1>1, <2>1, ReturnMoves, PlainFrames DEF PlainOp, CallOp
  <1>5. CASE Dial(t) \/ TcpConnect(t)
    <2>1. \/ Return(t, <<>>)
          \/ \E p \in Pcb \cup {None} : Return(t, <<FP("tcpConnect", c, p)>>)
          \/ \E p \in Pcb \cup {None} : Return(t, <<FP("dialFailed", c, p)>>)
      BY <1>1, <1>5 DEF Dial, TcpConnect
    <2>2. CASE Return(t, <<>>)
      BY <1>1, <2>2, ReturnMoves, PlainFrames
    <2>3. ASSUME NEW op \in {"tcpConnect", "dialFailed"}, NEW p \in Pcb \cup {None},
                 Return(t, <<FP(op, c, p)>>)
          PROVE  \E fs \in Seq(Frame) : Moves(t, fs) /\ Plain(fs)
      BY <1>1, <2>3, ReturnMoves, PlainFrames DEF PlainOp, CallOp
    <2> QED
      BY <2>1, <2>2, <2>3
  <1> QED
    BY <1>2, <1>3, <1>4, <1>5

LEMMA DispatchCalls ==
  ASSUME DispatchInv, TypeOK', NEW t \in Task,
         \/ UserCallback(t) \/ TcpClose(t) \/ AbortCheck(t) \/ TcpAbort(t) \/ ErrorTail(t)
         \/ ServerDiscard(t) \/ ConnectCheck(t) \/ Dial(t) \/ TcpConnect(t) \/ DialFailed(t)
  PROVE  DispatchInv'
  <1> DEFINE c == Top(t).c
  <1>1. TypeOK /\ NeverDispatchDead
    BY DEF DispatchInv
  <1>2. PICK fs \in Seq(Frame) : Moves(t, fs) /\ Plain(fs)
    BY <1>1, PlainSteps
  <1>3. c \in Client
    BY <1>1, TopType DEF At, UserCallback, TcpClose, AbortCheck, TcpAbort, ErrorTail,
      ServerDiscard, ConnectCheck, Dial, TcpConnect, DialFailed
  <1>4. CASE UNCHANGED <<impl, queue>>
    <2>1. NoRevival /\ \A d \in Client : HeldByQueue(d)' \/ HeldByDispatch(d) => impl'[d] = "live"
      BY <1>1, <1>4 DEF NoRevival, NeverDispatchDead, HeldByQueue
    <2> QED
      BY <1>2, <2>1, PlainMove
  <1>5. CASE Reap(c) /\ queue' = Purge(queue, c)
    <2>1. impl \in [Client -> {"none", "live", "dying", "dead"}] /\ queue \in [Client -> Seq(Event)]
      BY <1>1 DEF TypeOK
    <2>2. NoRevival
      BY <1>3, <1>5, <2>1 DEF NoRevival, Reap
    <2>3. ASSUME NEW d \in Client, HeldByQueue(d)' \/ HeldByDispatch(d)
          PROVE  impl'[d] = "live"
      BY <1>1, <1>3, <1>5, <2>1, <2>3 DEF NeverDispatchDead, HeldByQueue, Reap, Purge
    <2> QED
      BY <1>2, <2>2, <2>3, PlainMove
  <1>6. \/ UNCHANGED <<impl, queue>>
        \/ Reap(c) /\ queue' = Purge(queue, c)
    BY DEF UserCallback, TcpClose, AbortCheck, TcpAbort, ErrorTail, ServerDiscard,
      ConnectCheck, Dial, TcpConnect, DialFailed, Release, Forget
  <1> QED
    BY <1>4, <1>5, <1>6

LEMMA DispatchLwip ==
  ASSUME DispatchInv, TypeOK', LwipStep
  PROVE  DispatchInv'
  <1>1. TypeOK /\ NeverDispatchDead /\ FreeAtBottom /\ DestroyedIsDying
    BY DEF DispatchInv
  <1>2. UNCHANGED todo
    BY DEF LwipStep, TcpAccept, TcpConnected, TcpRecv, TcpFin, TcpSent, TcpPoll, TcpError,
      TcpErrorQueue
  <1>3. FreeAtBottom'
    BY <1>1, <1>2 DEF FreeAtBottom
  <1>4. impl \in [Client -> {"none", "live", "dying", "dead"}] /\ queue \in [Client -> Seq(Event)]
    BY <1>1 DEF TypeOK
  <1>5. NoRevival /\ NeverDispatchDead'
    <2>1. ASSUME NEW c \in Client, TcpAccept(c)
          PROVE  NoRevival /\ NeverDispatchDead'
      BY <1>1, <1>2, <1>4, <2>1
        DEF TcpAccept, NoRevival, NeverDispatchDead, HeldByQueue, HeldByDispatch
    <2>2. ASSUME NEW p \in Pcb, NEW kind \in EventKind, Notify(p, kind), UNCHANGED impl
          PROVE  NoRevival /\ NeverDispatchDead'
      <3>1. \A c \in Client : HeldByQueue(c)' => HeldByQueue(c) \/ impl[c] = "live"
        BY <1>4, <2>2 DEF Notify, Send, HeldByQueue
      <3>2. NoRevival
        BY <2>2 DEF NoRevival
      <3> QED
        BY <1>1, <1>2, <2>2, <3>1, <3>2 DEF NeverDispatchDead, HeldByDispatch
    <2>3. ASSUME NEW p \in Pcb, TcpError(p)
          PROVE  NoRevival /\ NeverDispatchDead'
      <3> DEFINE c == arg[p]
      <3>1. c \in Client
        BY <1>1, <2>3 DEF TcpError, TypeOK
      <3>2. CASE own[c] # None
        BY <1>1, <1>2, <1>4, <2>3, <3>1, <3>2
          DEF TcpError, Detach, Purge, Reap, NoRevival, NeverDispatchDead, HeldByQueue,
            HeldByDispatch
      <3>3. CASE own[c] = None
        BY <1>1, <1>2, <1>4, <2>3, <3>1, <3>3
          DEF TcpError, Detach, NoRevival, NeverDispatchDead, HeldByQueue, HeldByDispatch
      <3> QED
        BY <3>2, <3>3
    <2>4. CASE TcpErrorQueue
      <3>1. \A c \in Client : HeldByQueue(c)' => HeldByQueue(c) \/ impl[c] = "live"
        BY <1>4, <2>4 DEF TcpErrorQueue, Send, HeldByQueue
      <3>2. NoRevival /\ UNCHANGED impl
        BY <2>4 DEF NoRevival, TcpErrorQueue
      <3> QED
        BY <1>1, <1>2, <3>1, <3>2 DEF NeverDispatchDead, HeldByDispatch
    <2> QED
      BY <2>1, <2>2, <2>3, <2>4
        DEF LwipStep, TcpConnected, TcpRecv, TcpFin, TcpSent, TcpPoll, EventKind
  <1>6. DestroyedIsDying'
    <2>1. \A t \in Task : \A i \in 1..Len(todo[t]) : todo[t][i].c \in Client
      BY <1>1, StackType
    <2> QED
      BY <1>1, <1>2, <1>5, <2>1 DEF DestroyedIsDying, NoRevival
  <1> QED
    BY <1>3, <1>5, <1>6 DEF DispatchInv

\* What the service task takes up is alive, and freed when its dispatch ends.
LEMMA DispatchTake ==
  ASSUME DispatchInv, TypeOK', NEW c \in Client, TakeEvent(c) \/ TakeAccept(c)
  PROVE  DispatchInv'
  <1>1. /\ TypeOK /\ NeverDispatchDead /\ FreeAtBottom /\ DestroyedIsDying
        /\ Async \in Task /\ todo[Async] = <<>>
    BY DEF DispatchInv, TakeEvent, TakeAccept, Task
  <1>2. impl \in [Client -> {"none", "live", "dying", "dead"}] /\ queue \in [Client -> Seq(Event)]
    BY <1>1 DEF TypeOK
  <1>3. CASE TakeEvent(c)
    <2> DEFINE fs == <<FP(Head(queue[c]).kind, c, Head(queue[c]).pcb), F("free", c)>>
    <2>1. Head(queue[c]) \in Event
      BY <1>2, <1>3, HeadTailProperties DEF TakeEvent
    <2>2. fs \in Seq(Frame)
      BY <2>1, PushedType, EventType DEF CallOp
    <2>3. Moves(Async, fs)
      BY <1>1, <1>3, <2>2, ConcatEmptySeq DEF TakeEvent, Moves, Base
    <2>4. /\ Len(fs) = 2 /\ fs[1].op \in EventKind
          /\ fs[2].op = "free" /\ fs[2].c = c
      BY <2>1, EventType DEF F, FP
    <2>5. impl[c] = "live" /\ UNCHANGED impl
      BY <1>1, <1>3 DEF TakeEvent, NeverDispatchDead, HeldByQueue
    <2>6. ASSUME NEW u \in Task, NEW i \in 1..Len(todo'[u])
          PROVE  \/ u = Async /\ i \in 1..2 /\ todo'[u][i] = fs[i]
                 \/ u # Async /\ Kept(u, i, i)
      <3>1. \/ u = Async /\ i \in 1..Len(fs) /\ todo'[u][i] = fs[i]
            \/ u = Async /\ i > Len(fs) /\ i - Len(fs) + 1 >= 2 /\ Kept(u, i, i - Len(fs) + 1)
            \/ u # Async /\ Kept(u, i, i)
        BY <1>1, <2>2, <2>3, MovesElements
      <3> QED
        BY <1>1, <2>4, <3>1, EmptySeq DEF Kept
    <2>7. Len(todo'[Async]) = 2
      BY <1>1, <1>3 DEF TakeEvent, TypeOK
    <2>8. FreeAtBottom'
      <3> SUFFICES ASSUME NEW u \in Task, NEW i \in 1..Len(todo'[u]), todo'[u][i].op = "free"
          PROVE  u = Async /\ i = Len(todo'[u])
        BY DEF FreeAtBottom
      <3>1. CASE u = Async /\ i \in 1..2 /\ todo'[u][i] = fs[i]
        <4>1. CASE i = 1
          BY <2>4, <3>1, <4>1 DEF EventKind
        <4>2. CASE i = 2
          BY <2>7, <3>1, <4>2
        <4> QED
          BY <3>1, <4>1, <4>2
      <3>2. CASE u # Async /\ Kept(u, i, i)
        BY <1>1, <3>2, StackType DEF Kept, FreeAtBottom, TypeOK
      <3> QED
        BY <2>6, <3>1, <3>2
    <2>9. DestroyedIsDying'
      <3> SUFFICES ASSUME NEW u \in Task, NEW i \in 1..Len(todo'[u]),
                          todo'[u][i].op \in {"destroy", "destroyed"}
          PROVE  impl'[todo'[u][i].c] \in {"dying", "dead"}
        BY DEF DestroyedIsDying
      <3>1. CASE u = Async /\ i \in 1..2 /\ todo'[u][i] = fs[i]
        BY <2>4, <3>1 DEF EventKind
      <3>2. CASE u # Async /\ Kept(u, i, i)
        BY <1>1, <2>5, <3>2 DEF Kept, DestroyedIsDying
      <3> QED
        BY <2>6, <3>1, <3>2
    <2>10. NeverDispatchDead'
      <3> SUFFICES ASSUME NEW d \in Client, HeldByQueue(d)' \/ HeldByDispatch(d)'
          PROVE  impl[d] = "live"
        BY <2>5 DEF NeverDispatchDead
      <3>1. CASE d = c
        BY <2>5, <3>1
      <3>2. CASE d # c /\ HeldByQueue(d)'
        BY <1>1, <1>2, <1>3, <3>2 DEF TakeEvent, HeldByQueue, NeverDispatchDead
      <3>3. CASE d # c /\ HeldByDispatch(d)'
        BY <1>1, <2>4, <2>6, <3>3 DEF HeldByDispatch, EventKind
      <3> QED
        BY <3>1, <3>2, <3>3
    <2> QED
      BY <2>8, <2>9, <2>10 DEF DispatchInv
  <1>4. CASE TakeAccept(c)
    <2>1. \E fs \in Seq(Frame) : Moves(Async, fs) /\ Plain(fs)
      <3>1. CASE todo' = [todo EXCEPT ![Async] = <<F("onClient", c)>>]
        <4>1. <<F("onClient", c)>> \in Seq(Frame) /\ Plain(<<F("onClient", c)>>)
          BY PlainFrames DEF PlainOp, UserOp
        <4> QED
          BY <1>1, <3>1, <4>1, ConcatEmptySeq DEF Moves, Base
      <3>2. CASE todo' = [todo EXCEPT ![Async] = <<F("abort", c)>> \o DeleteWork(c)]
        <4> DEFINE gs == <<F("abort", c)>> \o DeleteWork(c)
        <4>1. <<F("abort", c)>> \in Seq(Frame) /\ Plain(<<F("abort", c)>>)
          BY PlainFrames DEF PlainOp, CallOp
        <4>2. gs \in Seq(Frame) /\ Plain(gs)
          BY <4>1, PlainFrames, PlainConcat
        <4>3. gs \o <<>> = gs
          BY <4>2, ConcatEmptySeq
        <4> QED
          BY <1>1, <3>2, <4>2, <4>3 DEF Moves, Base
      <3> QED
        BY <1>4, <3>1, <3>2 DEF TakeAccept
    <2>2. /\ NoRevival
          /\ \A d \in Client : HeldByQueue(d)' \/ HeldByDispatch(d) => impl'[d] = "live"
      BY <1>1, <1>4 DEF TakeAccept, NoRevival, NeverDispatchDead, HeldByQueue
    <2> QED
      BY <1>1, <2>1, <2>2, PlainMove
  <1> QED
    BY <1>3, <1>4

LEMMA DestroyFrames ==
  ASSUME NEW c \in Client
  PROVE  /\ <<F("destroy", c)>> \in Seq(Frame)
         /\ Len(<<F("destroy", c)>>) = 1
         /\ \A i \in 1..1 :
              <<F("destroy", c)>>[i].op = "destroy" /\ <<F("destroy", c)>>[i].c = c
  BY PushedType DEF F, CallOp

\* The destructor begins when the last owner lets go, and owners that are events
\* are still counted at that moment.
LEMMA DispatchDestruction ==
  ASSUME DispatchInv, TypeOK', NEW t \in Task,
         Drop(t) \/ FreeEvent(t) \/ Destroy(t) \/ Destroyed(t)
  PROVE  DispatchInv'
  <1>1. TypeOK /\ NeverDispatchDead /\ FreeAtBottom /\ DestroyedIsDying
    BY DEF DispatchInv
  <1>a. todo[t] # <<>> /\ Top(t).c \in Client
    BY <1>1, TopType DEF At, Drop, FreeEvent, Destroy, Destroyed
  <1>b. PICK c \in Client : c = Top(t).c
    BY <1>a
  <1> DEFINE ds == <<F("destroy", c)>>
  <1>2. todo[t] # <<>> /\ c \in Client
    BY <1>a
  <1>3. 1 \in 1..Len(todo[t]) /\ todo[t][1] = Top(t) /\ todo[t] \in Seq(Frame)
    BY <1>1, <1>2, EmptySeq DEF TypeOK, Top
  <1>4. impl \in [Client -> {"none", "live", "dying", "dead"}]
    BY <1>1 DEF TypeOK
  <1>5. ASSUME Return(t, <<>>), UNCHANGED <<impl, queue>>
        PROVE  DispatchInv'
    <2>1. Moves(t, <<>>) /\ <<>> \in Seq(Frame) /\ Plain(<<>>)
      BY <1>2, <1>5, ReturnMoves, PlainFrames
    <2>2. /\ NoRevival
          /\ \A d \in Client : HeldByQueue(d)' \/ HeldByDispatch(d) => impl'[d] = "live"
      BY <1>1, <1>5 DEF NoRevival, NeverDispatchDead, HeldByQueue
    <2> QED
      BY <2>1, <2>2, PlainMove
  <1>6. ASSUME Return(t, ds), impl' = [impl EXCEPT ![c] = "dying"], UNCHANGED queue,
               ~ HeldByQueue(c), ~ HeldByDispatch(c)'
        PROVE  DispatchInv'
    <2>1. Moves(t, ds) /\ ds \in Seq(Frame)
      BY <1>2, <1>6, ReturnMoves, DestroyFrames
    <2>2. NoRevival /\ impl'[c] = "dying"
      BY <1>2, <1>4, <1>6 DEF NoRevival
    <2>3. \A i \in 1..Len(ds) : ds[i].op = "destroy" /\ impl'[ds[i].c] = "dying"
      BY <1>2, <2>2, DestroyFrames
    <2>4. ASSUME NEW d \in Client, HeldByQueue(d)' \/ HeldByDispatch(d)'
          PROVE  impl'[d] = "live"
      <3>1. HeldByDispatch(d)' => HeldByDispatch(d)
        BY <1>1, <2>1, <2>3, NoNewDispatch
      <3>2. HeldByQueue(d)' => HeldByQueue(d)
        BY <1>6 DEF HeldByQueue
      <3>3. impl[d] = "live"
        BY <1>1, <2>4, <3>1, <3>2 DEF NeverDispatchDead
      <3>4. d # c
        BY <1>6, <2>4, <3>2 DEF HeldByDispatch
      <3> QED
        BY <1>2, <1>4, <1>6, <3>3, <3>4
    <2> QED
      BY <2>1, <2>2, <2>3, <2>4, DispatchMove
  <1>7. CASE Drop(t)
    <2>1. \/ Return(t, <<>>) /\ UNCHANGED <<impl, queue>>
          \/ /\ Return(t, ds) /\ impl' = [impl EXCEPT ![c] = "dying"]
             /\ UNCHANGED queue /\ ~ HeldByEvents(c)
      BY <1>7, <1>b DEF Drop, LetGo
    <2>2. ASSUME Return(t, ds), ~ HeldByEvents(c)
          PROVE  ~ HeldByQueue(c) /\ ~ HeldByDispatch(c)'
      <3>1. Moves(t, ds) /\ ds \in Seq(Frame) /\ \A i \in 1..Len(ds) : ds[i].op # "free"
        BY <1>2, <2>2, ReturnMoves, DestroyFrames
      <3>2. HeldByDispatch(c)' => HeldByDispatch(c)
        BY <1>1, <1>2, <3>1, NoNewDispatch
      <3> QED
        BY <2>2, <3>2 DEF HeldByEvents
    <2> QED
      BY <1>5, <1>6, <2>1, <2>2
  <1>8. CASE FreeEvent(t)
    <2>1. t = Async /\ Len(todo[t]) = 1
      BY <1>1, <1>3, <1>8 DEF FreeEvent, At, Top, FreeAtBottom
    <2>2. \/ Return(t, <<>>) /\ UNCHANGED <<impl, queue>>
          \/ /\ Return(t, ds) /\ impl' = [impl EXCEPT ![c] = "dying"]
             /\ UNCHANGED queue /\ ~ HeldByQueue(c)
      BY <1>8, <1>b DEF FreeEvent, LetGo
    <2>3. ASSUME Return(t, ds)
          PROVE  ~ HeldByDispatch(c)'
      <3>1. Moves(t, ds) /\ ds \in Seq(Frame)
        BY <1>2, <2>3, ReturnMoves, DestroyFrames
      <3>2. ASSUME NEW i \in 1..Len(todo'[t])
            PROVE  i \in 1..Len(ds) /\ todo'[t][i] = ds[i]
        <4>1. \/ i \in 1..Len(ds) /\ todo'[t][i] = ds[i]
              \/ i - Len(ds) + 1 >= 2 /\ i - Len(ds) + 1 \in 1..Len(todo[t])
          BY <1>1, <3>1, MovesElements, ZenonT(30) DEF Kept
        <4> QED
          BY <2>1, <4>1
      <3> QED
        BY <1>2, <2>1, <3>2, DestroyFrames DEF HeldByDispatch
    <2> QED
      BY <1>5, <1>6, <2>2, <2>3
  <1>9. CASE Destroy(t) \/ Destroyed(t)
    <2>1. impl[c] \in {"dying", "dead"}
      BY <1>1, <1>3, <1>9, <1>b DEF Destroy, Destroyed, At, Top, DestroyedIsDying
    <2>2. /\ impl' = impl \/ impl' = [impl EXCEPT ![c] = "dead"]
          /\ UNCHANGED queue
      BY <1>9, <1>b DEF Destroy, Destroyed
    <2>3. NoRevival /\ impl'[c] \in {"dying", "dead"}
      BY <1>2, <1>4, <2>1, <2>2 DEF NoRevival
    <2>4. PICK fs \in Seq(Frame) :
            /\ Moves(t, fs)
            /\ \A i \in 1..Len(fs) : fs[i].op # "free" /\ fs[i].c = c
      <3>1. CASE Destroyed(t)
        <4>1. Moves(t, <<>>)
          BY <1>2, <3>1, ReturnMoves DEF Destroyed
        <4>2. <<>> \in Seq(Frame) /\ \A i \in 1..Len(<<>>) : FALSE
          BY EmptySeq
        <4> QED
          BY <4>1, <4>2
      <3>2. CASE Destroy(t)
        <4> DEFINE gs == IF own[c] # None THEN <<F("tcpClose", c)>> ELSE <<>>
                   hs == <<F("destroyed", c)>>
        <4>1. /\ gs \in Seq(Frame) /\ hs \in Seq(Frame)
              /\ \A i \in 1..Len(gs) : gs[i].op # "free" /\ gs[i].c = c
              /\ \A i \in 1..Len(hs) : hs[i].op # "free" /\ hs[i].c = c
          BY <1>2, PushedType DEF F, CallOp
        <4>2. /\ gs \o hs \in Seq(Frame)
              /\ Len(gs \o hs) = Len(gs) + Len(hs)
              /\ \A i \in 1..(Len(gs) + Len(hs)) :
                   (gs \o hs)[i] = IF i <= Len(gs) THEN gs[i] ELSE hs[i - Len(gs)]
          BY <4>1, ConcatProperties
        <4>3. Len(gs) \in Nat /\ Len(hs) \in Nat
          BY <4>1, LenProperties
        <4>4. \A i \in 1..Len(gs \o hs) : (gs \o hs)[i].op # "free" /\ (gs \o hs)[i].c = c
          <5> HIDE DEF gs, hs
          <5> QED
            BY <4>1, <4>2, <4>3
        <4>5. Moves(t, gs \o hs)
          BY <1>2, <1>b, <3>2, ReturnMoves DEF Destroy
        <4> QED
          BY <4>2, <4>4, <4>5
      <3> QED
        BY <1>9, <3>1, <3>2
    <2>5. ASSUME NEW d \in Client, HeldByQueue(d)' \/ HeldByDispatch(d)'
          PROVE  impl'[d] = "live"
      <3>1. HeldByDispatch(d)' => HeldByDispatch(d)
        BY <1>1, <2>4, NoNewDispatch
      <3>2. HeldByQueue(d)' => HeldByQueue(d)
        BY <2>2 DEF HeldByQueue
      <3>3. impl[d] = "live"
        BY <1>1, <2>5, <3>1, <3>2 DEF NeverDispatchDead
      <3> QED
        BY <1>4, <2>1, <2>2, <3>3
    <2> QED
      BY <2>3, <2>4, <2>5, DispatchMove
  <1> QED
    BY <1>7, <1>8, <1>9

\* The application's own calls and the handlers push plain frames.
LEMMA AppCallPlain ==
  ASSUME TypeOK, NEW t \in AppTask, NEW c \in Client, AppCall(t, c)
  PROVE  t \in Task /\ \E fs \in Seq(Frame) : Moves(t, fs) /\ Plain(fs)
  <1>1. t \in Task /\ Base(t) = <<>>
    BY DEF Task, AppCall, Base
  <1>2. Reaction(t, c, Base(t))
    BY <1>1 DEF AppCall
  <1> QED
    BY <1>1, <1>2, ReactionPlain

LEMMA HandlerPlain ==
  ASSUME TypeOK, HandlerStep
  PROVE  /\ UNCHANGED <<pcb, arg, facade, impl, queue, accept, shown, lwip, disc>>
         /\ \E fs \in Seq(Frame) : Moves(Async, fs) /\ Plain(fs)
  <1> DEFINE c == Top(Async).c
  <1>1. todo[Async] # <<>> /\ Async \in Task
    BY DEF HandlerStep, HandleRecv, HandleFin, HandleSent, HandlePoll, HandleError,
      HandleConnected, Handler, At, Task
  <1>2. c \in Client
    BY <1>1, TopType
  <1>3. ASSUME NEW kind \in EventKind, NEW fs \in Seq(Frame), Plain(fs), Handler(kind, fs)
        PROVE  /\ UNCHANGED <<pcb, arg, facade, impl, queue, accept, shown, lwip, disc>>
               /\ \E gs \in Seq(Frame) : Moves(Async, gs) /\ Plain(gs)
    <2>1. Return(Async, fs) \/ Return(Async, <<>>)
      BY <1>3 DEF Handler
    <2> QED
      BY <1>1, <1>2, <1>3, <2>1, ReturnMoves, PlainFrames DEF Handler
  <1>4. \E kind \in EventKind : \E fs \in Seq(Frame) : Plain(fs) /\ Handler(kind, fs)
    <2>1. CASE HandleError
      BY <1>2, <2>1, PlainFrames DEF HandleError, EventKind, PlainOp, UserOp, CallOp
    <2>2. CASE HandleRecv \/ HandleConnected
      BY <1>2, <2>2, PlainFrames
        DEF HandleRecv, HandleConnected, EventKind, PlainOp, UserOp, CallOp
    <2>3. CASE HandleFin \/ HandleSent \/ HandlePoll
      BY <1>2, <2>3, PlainFrames
        DEF HandleFin, HandleSent, HandlePoll, IfOwned, EventKind, PlainOp, UserOp, CallOp
    <2> QED
      BY <2>1, <2>2, <2>3 DEF HandlerStep
  <1> QED
    BY <1>3, <1>4

\* A step that leaves every impl and every queue alone and pushes plain frames.
LEMMA DispatchIdle ==
  ASSUME DispatchInv, TypeOK', UNCHANGED <<impl, queue>>,
         NEW t \in Task, NEW fs \in Seq(Frame), Moves(t, fs), Plain(fs)
  PROVE  DispatchInv'
  <1>1. NoRevival /\ \A d \in Client : HeldByQueue(d)' \/ HeldByDispatch(d) => impl'[d] = "live"
    BY DEF DispatchInv, NoRevival, NeverDispatchDead, HeldByQueue
  <1> QED
    BY <1>1, PlainMove

LEMMA DispatchNext ==
  ASSUME DispatchInv, [Next]_vars
  PROVE  DispatchInv'
  <1>1. TypeOK
    BY DEF DispatchInv
  <1>2. TypeOK'
    BY <1>1, TypeNext
  <1>3. CASE LwipStep
    BY <1>2, <1>3, DispatchLwip
  <1>4. ASSUME NEW t \in AppTask, NEW c \in Client, AppCall(t, c)
        PROVE  DispatchInv'
    BY <1>1, <1>2, <1>4, AppCallPlain, DispatchIdle DEF AppCall
  <1>5. ASSUME NEW t \in Task, FrameStep(t)
        PROVE  DispatchInv'
    BY <1>2, <1>5, DispatchCalls, DispatchDestruction DEF FrameStep
  <1>6. CASE HandlerStep
    <2>1. Async \in Task
      BY DEF Task
    <2> QED
      BY <1>1, <1>2, <1>6, <2>1, HandlerPlain, DispatchIdle
  <1>7. ASSUME NEW c \in Client, TakeEvent(c) \/ TakeAccept(c)
        PROVE  DispatchInv'
    BY <1>2, <1>7, DispatchTake
  <1>8. CASE UNCHANGED vars
    BY <1>1, <1>2, <1>8
      DEF vars, DispatchInv, FreeAtBottom, DestroyedIsDying, NeverDispatchDead, HeldByQueue,
        HeldByDispatch
  <1> QED
    BY <1>3, <1>4, <1>5, <1>6, <1>7, <1>8 DEF Next

LEMMA DispatchInit == Init => DispatchInv
  <1> SUFFICES ASSUME Init PROVE DispatchInv
    OBVIOUS
  <1>1. /\ \A t \in Task : todo[t] = <<>> /\ Len(todo[t]) = 0
        /\ \A c \in Client : queue[c] = <<>>
        /\ Async \in Task
    BY DEF Init, Task
  <1>2. FreeAtBottom /\ DestroyedIsDying
    BY <1>1 DEF FreeAtBottom, DestroyedIsDying
  <1>3. NeverDispatchDead
    BY <1>1 DEF NeverDispatchDead, HeldByQueue, HeldByDispatch
  <1> QED
    BY <1>2, <1>3, InitType DEF DispatchInv

LEMMA DispatchInvariant == Spec => []DispatchInv
  BY DispatchInit, DispatchNext, PTL DEF Spec

\* A queued event, or the event being dispatched, keeps its impl alive: whichever
\* task drops the facade or purges the queue meanwhile, the service task never
\* calls into a destroyed AsyncClientImpl.
THEOREM DispatchAlive == Spec => []NeverDispatchDead
  BY DispatchInvariant, PTL DEF DispatchInv


-----------------------------------------------------------------------------
(***************************************************************************)
(* What no step undoes.                                                     *)
(***************************************************************************)
Forward ==
  /\ \A c \in Accepted : impl[c] # "none" =>
       /\ impl'[c] # "none"
       /\ c \in accept' => c \in accept
       /\ own[c] = None => own'[c] = None
  /\ \A p \in Pcb : pcb[p] # "free" /\ arg[p] \notin Accepted =>
       pcb'[p] # "free" /\ arg'[p] \notin Accepted

LEMMA FramesMove ==
  ASSUME TypeOK, FramesInPlace, Forward, NEW t \in Task, NEW fs \in Seq(Frame), Moves(t, fs),
         \A i \in 1..Len(fs) : InPlace(fs[i])'
  PROVE  FramesInPlace'
  <1> SUFFICES ASSUME NEW u \in Task, NEW i \in 1..Len(todo'[u])
      PROVE  InPlace(todo[u][i])'
    BY DEF FramesInPlace
  <1>1. \/ \E j \in 1..Len(fs) : todo'[u][i] = fs[j]
        \/ \E k : Kept(u, i, k)
    BY MovesElements
  <1>2. ASSUME NEW j \in 1..Len(fs), todo'[u][i] = fs[j]
        PROVE  InPlace(todo[u][i])'
    BY <1>2 DEF InPlace, Dialled
  <1>3. ASSUME NEW k, Kept(u, i, k)
        PROVE  InPlace(todo[u][i])'
    <2>1. InPlace(todo[u][k]) /\ todo[u][k] = todo'[u][i]
      BY <1>3 DEF Kept, FramesInPlace
    <2> QED
      BY <2>1 DEF InPlace, Dialled, Forward
  <1> QED
    BY <1>1, <1>2, <1>3

\* A drop stays behind its close, whatever is pushed above both.
LEMMA DropMove ==
  ASSUME TypeOK, FramesInPlace, DropAfterClose, Forward,
         NEW t \in Task, NEW fs \in Seq(Frame), Moves(t, fs),
         todo[t] # <<>> /\ Top(t).op = "tcpClose" /\ Top(t).c \in Accepted
           => \A c \in Accepted : c = Top(t).c => own'[c] = None,
         \A i \in 1..Len(fs) : fs[i].op = "drop" /\ fs[i].c \in Accepted =>
           \/ own'[fs[i].c] = None
           \/ \E j \in 1..(i - 1) : fs[j].op = "tcpClose" /\ fs[j].c = fs[i].c
  PROVE  DropAfterClose'
  <1> SUFFICES ASSUME NEW u \in Task, NEW i \in 1..Len(todo'[u]), NEW c \in Accepted,
                      todo'[u][i].op = "drop", todo'[u][i].c = c, own'[c] # None
      PROVE  \E j \in 1..(i - 1) : todo'[u][j].op = "tcpClose" /\ todo'[u][j].c = c
    BY DEF DropAfterClose
  <1>1. \A v \in Task : todo[v] \in Seq(Frame) /\ Len(todo[v]) \in Nat
    BY LenProperties DEF TypeOK
  <1>2. Len(fs) \in Nat
    BY LenProperties
  <1>3. \A j \in 1..Len(todo'[u]) :
          \/ u = t /\ j \in 1..Len(fs) /\ todo'[u][j] = fs[j]
          \/ u = t /\ j > Len(fs) /\ j - Len(fs) + 1 >= 2 /\ Kept(u, j, j - Len(fs) + 1)
          \/ u # t /\ Kept(u, j, j)
    BY MovesElements
  <1>4. CASE u = t /\ i \in 1..Len(fs) /\ todo'[u][i] = fs[i]
    <2>1. PICK j \in 1..(i - 1) : fs[j].op = "tcpClose" /\ fs[j].c = c
      BY <1>4
    <2>2. j \in 1..Len(fs) /\ j \in 1..Len(todo'[u])
      BY <1>2, <1>4, <2>1
    <2> QED
      BY <1>2, <1>3, <1>4, <2>1, <2>2
  <1>5. ASSUME NEW k, Kept(u, i, k)
        PROVE  /\ own[c] # None
               /\ \E j \in 1..(k - 1) : todo[u][j].op = "tcpClose" /\ todo[u][j].c = c
    <2>1. k \in 1..Len(todo[u]) /\ todo[u][k] = todo'[u][i]
      BY <1>5 DEF Kept
    <2>2. impl[c] # "none"
      BY <2>1 DEF FramesInPlace, InPlace
    <2>3. own[c] # None
      BY <2>2 DEF Forward
    <2> QED
      BY <2>1, <2>3, SMTT(30) DEF DropAfterClose
  <1>6. CASE u # t /\ Kept(u, i, i)
    <2>1. PICK j \in 1..(i - 1) : todo[u][j].op = "tcpClose" /\ todo[u][j].c = c
      BY <1>5, <1>6
    <2>2. j \in 1..Len(todo'[u])
      OBVIOUS
    <2> QED
      BY <1>3, <1>6, <2>1, <2>2 DEF Kept
  <1>7. CASE u = t /\ i > Len(fs) /\ i - Len(fs) + 1 >= 2 /\ Kept(u, i, i - Len(fs) + 1)
    <2>1. PICK j \in 1..(i - Len(fs)) : todo[u][j].op = "tcpClose" /\ todo[u][j].c = c
      BY <1>2, <1>5, <1>7
    <2>2. j # 1
      <3> SUFFICES ASSUME j = 1 PROVE FALSE
        OBVIOUS
      <3>1. i - Len(fs) + 1 \in 1..Len(todo[t]) /\ i - Len(fs) + 1 >= 2
        BY <1>7 DEF Kept
      <3>2. todo[t] # <<>>
        BY <1>1, <3>1, EmptySeq
      <3>3. Top(t) = todo[t][1]
        BY <1>1, <3>2 DEF Top
      <3> QED
        BY <1>7, <2>1, <3>2, <3>3
    <2>3. /\ j - 1 + Len(fs) \in 1..(i - 1) /\ j - 1 + Len(fs) \in 1..Len(todo'[u])
          /\ j - 1 + Len(fs) > Len(fs) /\ j - 1 + Len(fs) - Len(fs) + 1 = j
      BY <1>2, <1>7, <2>1, <2>2
    <2>4. Kept(u, j - 1 + Len(fs), j)
      BY <1>2, <1>3, <1>7, <2>3
    <2> QED
      BY <2>1, <2>3, <2>4 DEF Kept
  <1> QED
    BY <1>3, <1>4, <1>6, <1>7

-----------------------------------------------------------------------------
(***************************************************************************)
(* The callbacks of lwIP.                                                   *)
(***************************************************************************)
LEMMA StateTypes ==
  ASSUME TypeOK
  PROVE  /\ pcb \in [Pcb -> {"free", "new", "syn", "est", "fin", "gone"}]
         /\ arg \in [Pcb -> Client \cup {None}]
         /\ own \in [Client -> Pcb \cup {None}]
         /\ facade \in [Client -> {"none", "live", "cut", "gone"}]
         /\ impl \in [Client -> {"none", "live", "dying", "dead"}]
         /\ queue \in [Client -> Seq(Event)]
         /\ accept \subseteq Accepted /\ Accepted \subseteq Client
         /\ lwip \in Client \cup {None}
         /\ None \notin Client /\ None \notin Pcb
  BY ConstantsAssumption DEF TypeOK, Accepted

LEMMA StateAccept ==
  ASSUME TypeOK, StateInv, NEW c \in Client, TcpAccept(c)
  PROVE  StateInv' /\ Forward
  <1>1. PICK p \in Pcb :
          /\ pcb[p] = "free"
          /\ facade' = [facade EXCEPT ![c] = "live"]
          /\ impl' = [impl EXCEPT ![c] = "live"]
          /\ arg' = [arg EXCEPT ![p] = c]
          /\ \/ /\ pcb' = [pcb EXCEPT ![p] = "est"]
                /\ own' = [own EXCEPT ![c] = p]
                /\ accept' = accept \cup {c}
                /\ UNCHANGED lwip
             \/ /\ pcb' = [pcb EXCEPT ![p] = "gone"]
                /\ lwip' = c
                /\ UNCHANGED <<own, accept>>
    BY DEF TcpAccept
  <1>2. /\ c \in Accepted /\ impl[c] = "none"
        /\ UNCHANGED <<queue, shown, todo, disc>>
    BY DEF TcpAccept
  <1>3. own[c] = None /\ queue[c] = <<>> /\ c \notin accept /\ c \notin shown
    BY <1>2 DEF StateInv, Unborn
  <1>4. \A d \in Accepted : own[d] # p
    <2>1. p # None /\ ~ Live(p)
      BY <1>1, StateTypes DEF Live, LiveState
    <2> QED
      BY <2>1 DEF StateInv, OwnedPcbIsLive
  <1>5. Forward
    BY <1>1, <1>2, <1>3, StateTypes DEF Forward
  <1>6. Unborn'
    BY <1>1, <1>2, <1>3, StateTypes DEF StateInv, Unborn
  <1>7. Undelivered' /\ FacadeHolds' /\ OwnedIsHeld'
    BY <1>1, <1>2, <1>3, StateTypes
      DEF StateInv, Undelivered, FacadeHolds, OwnedIsHeld, HeldByFacade
  <1>8. DialsApart'
    <2>1. \A q \in Pcb : pcb'[q] \in {"new", "syn"} => q # p /\ pcb'[q] = pcb[q] /\ arg'[q] = arg[q]
      BY <1>1, StateTypes
    <2>2. ASSUME NEW q, Dialled(q) PROVE Dialled(q)'
      <3>1. q \in Pcb /\ q # p
        BY <1>1, <2>2 DEF Dialled
      <3>2. pcb'[q] = pcb[q] /\ arg'[q] = arg[q]
        BY <1>1, <3>1, StateTypes
      <3> QED
        BY <2>2, <3>2 DEF Dialled
    <2>3. \A d \in Dialer : own'[d] = own[d]
      BY <1>1, <1>2, StateTypes, ConstantsAssumption DEF Accepted
    <2> QED
      BY <1>2, <2>1, <2>2, <2>3 DEF StateInv, DialsApart, Dialled
  <1>9. OwnedPcbIsLive' /\ CallbackReachesOwner'
    <2>1. \A q \in Pcb : q # p => pcb'[q] = pcb[q] /\ arg'[q] = arg[q]
      BY <1>1, StateTypes
    <2>2. \A d \in Client : d # c => own'[d] = own[d] /\ impl'[d] = impl[d]
      BY <1>1, StateTypes
    <2>3. arg'[p] = c /\ impl'[c] = "live"
      BY <1>1, <1>2, StateTypes
    <2>4. \/ pcb'[p] = "est" /\ own'[c] = p
          \/ pcb'[p] = "gone" /\ own'[c] = None
      BY <1>1, <1>2, <1>3, StateTypes
    <2>5. \A q \in Pcb : arg[q] # c
      BY <1>2 DEF StateInv, Unborn
    <2>6. OwnedPcbIsLive'
      <3> SUFFICES ASSUME NEW d \in Accepted, own'[d] # None
          PROVE  Live(own[d])' /\ arg'[own'[d]] = d
        BY DEF OwnedPcbIsLive
      <3>1. CASE d = c
        BY <2>3, <2>4, <3>1 DEF Live, LiveState
      <3>2. CASE d # c
        <4>1. own'[d] = own[d] /\ own[d] \in Pcb /\ own[d] # p
          BY <1>4, <2>2, <3>2, StateTypes
        <4> QED
          BY <2>1, <4>1 DEF StateInv, OwnedPcbIsLive, Live
      <3> QED
        BY <3>1, <3>2
    <2>7. CallbackReachesOwner'
      <3> SUFFICES ASSUME NEW q \in Pcb, Live(q)', arg'[q] \in Accepted
          PROVE  impl'[arg'[q]] = "live" /\ own'[arg'[q]] = q
        BY DEF CallbackReachesOwner
      <3>1. CASE q = p
        BY <2>3, <2>4, <3>1 DEF Live, LiveState
      <3>2. CASE q # p
        <4>1. Live(q) /\ arg'[q] = arg[q] /\ arg[q] # c /\ arg[q] \in Client
          BY <2>1, <2>5, <3>2, StateTypes DEF Live
        <4> QED
          BY <2>2, <4>1 DEF StateInv, CallbackReachesOwner
      <3> QED
        BY <3>1, <3>2
    <2> QED
      BY <2>6, <2>7
  <1> QED
    BY <1>5, <1>6, <1>7, <1>8, <1>9 DEF StateInv

\* Only a dial's connection can be reported as connected.
LEMMA StateNotify ==
  ASSUME TypeOK, StateInv, NEW p \in Pcb, NEW kind \in EventKind, Notify(p, kind),
         pcb[p] \in LiveState, kind = "CONNECTED" => pcb[p] = "syn",
         UNCHANGED <<arg, own, facade, impl, accept, shown, lwip, disc>>,
         pcb' = pcb \/ \E s \in {"est", "fin"} : pcb' = [pcb EXCEPT ![p] = s]
  PROVE  StateInv' /\ Forward
  <1> DEFINE c == arg[p]
  <1>1. c \in Client /\ impl[c] = "live"
    BY StateTypes DEF Notify
  <1>2. queue' = Send(queue, c, Ev(kind, p)) \/ queue' = queue
    BY DEF Notify
  <1>3. Forward
    BY StateTypes DEF Forward
  <1>4. Unborn'
    BY <1>1, <1>2, StateTypes DEF StateInv, Unborn, Send
  <1>5. Undelivered' /\ FacadeHolds' /\ OwnedIsHeld'
    BY DEF StateInv, Undelivered, FacadeHolds, OwnedIsHeld, HeldByFacade
  <1>6. DialsApart'
    <2>1. \A q \in Pcb : pcb'[q] \in {"new", "syn"} => arg[q] \notin Accepted
      BY StateTypes DEF StateInv, DialsApart
    <2>2. \A q \in Pcb : Dialled(q) => Dialled(q)'
      BY StateTypes DEF Dialled
    <2>3. \A d \in Dialer : own[d] # None => Dialled(own[d])'
      BY <2>2, StateTypes DEF StateInv, DialsApart, Dialled
    <2>4. ASSUME NEW d \in Client, NEW i \in 1..Len(queue'[d]), queue'[d][i].kind = "CONNECTED"
          PROVE  d \in Dialer /\ Dialled(queue[d][i].pcb)'
      <3>1. CASE i \in 1..Len(queue[d]) /\ queue'[d][i] = queue[d][i]
        BY <2>2, <2>4, <3>1 DEF StateInv, DialsApart, Dialled
      <3>2. CASE d = c /\ queue'[d][i] = Ev(kind, p)
        <4>1. pcb[p] = "syn" /\ queue'[d][i].pcb = p
          BY <2>4, <3>2 DEF Ev
        <4>2. arg[p] \notin Accepted
          BY <4>1 DEF StateInv, DialsApart
        <4> QED
          BY <1>1, <2>2, <3>2, <4>1, <4>2 DEF Dialled, Accepted
      <3>3. \/ i \in 1..Len(queue[d]) /\ queue'[d][i] = queue[d][i]
            \/ d = c /\ queue'[d][i] = Ev(kind, p)
        <4>1. queue[d] \in Seq(Event)
          BY StateTypes
        <4>2. CASE d = c /\ queue' = Send(queue, c, Ev(kind, p))
          <5>1. queue'[d] = Append(queue[d], Ev(kind, p))
            BY <1>1, <4>2, StateTypes DEF Send
          <5> QED
            BY <4>1, <4>2, <5>1
        <4>3. CASE d # c \/ queue' = queue
          <5>1. queue'[d] = queue[d]
            BY <1>1, <1>2, <4>3, StateTypes DEF Send
          <5> QED
            BY <5>1
        <4> QED
          BY <1>2, <4>2, <4>3
      <3> QED
        BY <3>1, <3>2, <3>3
    <2> QED
      BY <2>1, <2>3, <2>4 DEF DialsApart
  <1>7. OwnedPcbIsLive' /\ CallbackReachesOwner'
    <2>1. \A q \in Pcb : Live(q)' <=> Live(q)
      BY StateTypes DEF Live, LiveState
    <2> QED
      BY <2>1, StateTypes DEF StateInv, OwnedPcbIsLive, CallbackReachesOwner
  <1> QED
    BY <1>3, <1>4, <1>5, <1>6, <1>7 DEF StateInv

LEMMA StateError ==
  ASSUME TypeOK, StateInv, NEW p \in Pcb, TcpError(p)
  PROVE  StateInv' /\ Forward
  <1>1. PICK c \in Client : c = arg[p]
    BY StateTypes DEF TcpError
  <1>2. /\ Live(p) /\ impl[c] = "live" /\ pcb' = [pcb EXCEPT ![p] = "gone"]
        /\ own' = [own EXCEPT ![c] = None] /\ lwip' = c
        /\ UNCHANGED <<arg, facade, accept, shown, todo, disc>>
    BY <1>1 DEF TcpError, Detach
  <1>3. \/ own[c] = None /\ UNCHANGED <<impl, queue>>
        \/ own[c] # None /\ Reap(c) /\ queue' = Purge(queue, c)
    BY <1>1 DEF TcpError, Detach
  <1>4. \A d \in Client : HeldByFacade(d) => impl'[d] = impl[d]
    BY <1>1, <1>3, StateTypes DEF Reap
  <1>5. \A d \in Client : impl[d] # "none" => impl'[d] # "none"
    BY <1>1, <1>3, StateTypes DEF Reap
  <1>6. \A d \in Client : impl'[d] = "none" => impl[d] = "none"
    BY <1>1, <1>3, StateTypes DEF Reap
  <1>7. \A d \in Client : queue'[d] = queue[d] \/ queue'[d] = <<>>
    BY <1>1, <1>3, StateTypes DEF Purge
  <1>8. Forward
    BY <1>1, <1>2, <1>5, StateTypes DEF Forward, Live, LiveState
  <1>9. Unborn'
    BY <1>1, <1>2, <1>6, <1>7, StateTypes DEF StateInv, Unborn
  <1>10. Undelivered' /\ FacadeHolds' /\ OwnedIsHeld'
    BY <1>1, <1>2, <1>4, StateTypes
      DEF StateInv, Undelivered, FacadeHolds, OwnedIsHeld, HeldByFacade
  <1>11. DialsApart'
    <2>1. \A q \in Pcb : Dialled(q) => Dialled(q)'
      BY <1>2, StateTypes DEF Dialled
    <2>2. \A q \in Pcb : pcb'[q] \in {"new", "syn"} => arg'[q] \notin Accepted
      BY <1>2, StateTypes DEF StateInv, DialsApart
    <2>3. \A d \in Dialer : own'[d] # None => Dialled(own[d])'
      BY <1>1, <1>2, <2>1, StateTypes DEF StateInv, DialsApart, Dialled
    <2>4. \A d \in Client : \A i \in 1..Len(queue'[d]) :
            queue'[d][i].kind = "CONNECTED" => d \in Dialer /\ Dialled(queue[d][i].pcb)'
      BY <1>7, <2>1, EmptySeq DEF StateInv, DialsApart, Dialled
    <2> QED
      BY <2>2, <2>3, <2>4 DEF DialsApart
  <1>12. OwnedPcbIsLive' /\ CallbackReachesOwner'
    <2>1. \A d \in Accepted : own'[d] # None => own[d] = own'[d] /\ own[d] # p /\ d # c
      BY <1>1, <1>2, StateTypes DEF StateInv, OwnedPcbIsLive
    <2>2. OwnedPcbIsLive'
      BY <1>2, <2>1, StateTypes DEF StateInv, OwnedPcbIsLive, Live, LiveState
    <2>3. ASSUME NEW q \in Pcb, Live(q)', arg[q] \in Accepted
          PROVE  impl'[arg[q]] = "live" /\ own'[arg[q]] = q
      <3>1. q # p /\ Live(q)
        BY <1>2, <2>3, StateTypes DEF Live, LiveState
      <3>2. own[arg[q]] = q /\ impl[arg[q]] = "live"
        BY <2>3, <3>1 DEF StateInv, CallbackReachesOwner
      <3>3. arg[q] # c
        <4> SUFFICES ASSUME arg[q] = c PROVE FALSE
          OBVIOUS
        <4> QED
          BY <1>1, <1>2, <2>3, <3>1, <3>2, StateTypes DEF StateInv, CallbackReachesOwner
      <3>4. HeldByFacade(arg[q])
        BY <2>3, <3>2, StateTypes DEF StateInv, OwnedIsHeld
      <3> QED
        BY <1>1, <1>2, <1>4, <2>3, <3>2, <3>3, <3>4, StateTypes
    <2> QED
      BY <1>2, <2>2, <2>3 DEF CallbackReachesOwner
  <1> QED
    BY <1>8, <1>9, <1>10, <1>11, <1>12 DEF StateInv

-----------------------------------------------------------------------------
(***************************************************************************)
(* The steps that bind and release no pcb.                                  *)
(***************************************************************************)

\* Every CONNECTED event that is queued was queued before.
SameDials ==
  \A d \in Client : \A i \in 1..Len(queue'[d]) :
    queue'[d][i].kind = "CONNECTED" =>
      \E k \in 1..Len(queue[d]) : queue[d][k] = queue'[d][i]

\* An impl changes only when it has neither a facade nor a pcb.
OnlyLooseImpls ==
  \A d \in Client :
    \/ impl'[d] = impl[d]
    \/ /\ impl[d] # "none" /\ impl'[d] # "none"
       /\ facade'[d] \notin {"live", "cut"}
       /\ d \in Accepted => own[d] = None

LEMMA StateKeeps ==
  ASSUME TypeOK, StateInv, UNCHANGED <<pcb, arg, own>>, SameDials, OnlyLooseImpls,
         \A d \in Client : facade'[d] \in {"live", "cut"} => HeldByFacade(d),
         \A d \in Accepted : own[d] # None /\ HeldByFacade(d) => facade'[d] \in {"live", "cut"},
         accept' \subseteq accept,
         \A d \in accept' : facade'[d] = facade[d] /\ d \notin shown',
         \A d \in Accepted : impl[d] = "none" =>
           d \notin shown' /\ lwip' # d /\ disc'[d] = 0 /\ queue'[d] = <<>>
  PROVE  StateInv' /\ Forward
  <1>1. Forward
    BY StateTypes DEF Forward, OnlyLooseImpls
  <1>2. Unborn'
    BY StateTypes DEF StateInv, Unborn, OnlyLooseImpls
  <1>3. Undelivered'
    BY DEF StateInv, Undelivered
  <1>4. FacadeHolds' /\ OwnedIsHeld'
    <2>1. \A d \in Client : HeldByFacade(d)' <=> facade'[d] \in {"live", "cut"}
      BY DEF HeldByFacade
    <2> QED
      BY <2>1, StateTypes DEF StateInv, FacadeHolds, OwnedIsHeld, OnlyLooseImpls
  <1>5. DialsApart'
    <2>1. \A q : Dialled(q)' <=> Dialled(q)
      BY DEF Dialled
    <2>2. ASSUME NEW d \in Client, NEW i \in 1..Len(queue'[d]), queue'[d][i].kind = "CONNECTED"
          PROVE  d \in Dialer /\ Dialled(queue[d][i].pcb)'
      <3>1. PICK k \in 1..Len(queue[d]) : queue[d][k] = queue'[d][i]
        BY <2>2 DEF SameDials
      <3>2. d \in Dialer /\ Dialled(queue[d][k].pcb)
        BY <2>2, <3>1 DEF StateInv, DialsApart
      <3> QED
        BY <3>1, <3>2 DEF Dialled
    <2>3. \A d \in Dialer : own'[d] # None => Dialled(own[d])'
      BY DEF StateInv, DialsApart, Dialled
    <2> QED
      BY <2>2, <2>3 DEF StateInv, DialsApart
  <1>6. OwnedPcbIsLive'
    BY DEF StateInv, OwnedPcbIsLive, Live
  <1>7. CallbackReachesOwner'
    BY StateTypes DEF StateInv, CallbackReachesOwner, Live, OnlyLooseImpls
  <1> QED
    BY <1>1, <1>2, <1>3, <1>4, <1>5, <1>6, <1>7 DEF StateInv

LEMMA SameQueue ==
  ASSUME TypeOK, UNCHANGED queue
  PROVE  SameDials
  BY DEF SameDials

LEMMA StateErrorQueue ==
  ASSUME TypeOK, StateInv, TcpErrorQueue
  PROVE  StateInv' /\ Forward
  <1>1. PICK c \in Client : c = lwip
    BY StateTypes DEF TcpErrorQueue
  <1>2. UNCHANGED <<pcb, arg, own, facade, impl, accept, shown, todo, disc>> /\ lwip' = None
    BY DEF TcpErrorQueue
  <1>3. \/ impl[c] = "live" /\ queue' = Send(queue, c, Ev("ERROR", None))
        \/ queue' = queue
    BY <1>1 DEF TcpErrorQueue
  <1>4. SameDials
    <2> SUFFICES ASSUME NEW d \in Client, NEW i \in 1..Len(queue'[d]),
                        queue'[d][i].kind = "CONNECTED"
        PROVE  \E k \in 1..Len(queue[d]) : queue[d][k] = queue'[d][i]
      BY DEF SameDials
    <2>1. queue[d] \in Seq(Event)
      BY StateTypes
    <2>2. CASE queue'[d] = queue[d]
      BY <2>2
    <2>3. CASE queue'[d] = Append(queue[d], Ev("ERROR", None))
      BY <2>1, <2>3 DEF Ev
    <2> QED
      BY <1>3, <2>2, <2>3, StateTypes DEF Send
  <1>5. \A d \in Accepted : impl[d] = "none" =>
          d \notin shown' /\ lwip' # d /\ disc'[d] = 0 /\ queue'[d] = <<>>
    BY <1>2, <1>3, StateTypes DEF StateInv, Unborn, Send
  <1>6. OnlyLooseImpls
    BY <1>2 DEF OnlyLooseImpls
  <1> QED
    BY <1>2, <1>4, <1>5, <1>6, StateKeeps DEF StateInv, Undelivered, HeldByFacade

LEMMA PcbLwip ==
  ASSUME TypeOK, StateInv, LwipStep
  PROVE  StateInv' /\ Forward
  <1>1. ASSUME NEW c \in Client, TcpAccept(c)
        PROVE  StateInv' /\ Forward
    BY <1>1, StateAccept
  <1>2. ASSUME NEW p \in Pcb, TcpConnected(p)
        PROVE  StateInv' /\ Forward
    BY <1>2, StateNotify DEF TcpConnected, EventKind, LiveState
  <1>3. ASSUME NEW p \in Pcb, TcpFin(p)
        PROVE  StateInv' /\ Forward
    BY <1>3, StateNotify DEF TcpFin, EventKind, LiveState
  <1>4. ASSUME NEW p \in Pcb, TcpRecv(p)
        PROVE  StateInv' /\ Forward
    BY <1>4, StateNotify DEF TcpRecv, EventKind, LiveState
  <1>5. ASSUME NEW p \in Pcb, TcpSent(p)
        PROVE  StateInv' /\ Forward
    BY <1>5, StateNotify DEF TcpSent, EventKind, LiveState
  <1>6. ASSUME NEW p \in Pcb, TcpPoll(p)
        PROVE  StateInv' /\ Forward
    BY <1>6, StateNotify DEF TcpPoll, EventKind, Live, LiveState
  <1> QED
    BY <1>1, <1>2, <1>3, <1>4, <1>5, <1>6, StateError, StateErrorQueue DEF LwipStep

-----------------------------------------------------------------------------
(***************************************************************************)
(* The frames a step pushes are in place, and a step at a close leaves no   *)
(* pcb behind.                                                              *)
(***************************************************************************)
Placed(fs) ==
  \A i \in 1..Len(fs) :
    /\ InPlace(fs[i])'
    /\ fs[i].op = "drop" /\ fs[i].c \in Accepted =>
         \/ own'[fs[i].c] = None
         \/ \E j \in 1..(i - 1) : fs[j].op = "tcpClose" /\ fs[j].c = fs[i].c

Closes(t) ==
  todo[t] # <<>> /\ Top(t).op = "tcpClose" => \A c \in Accepted : c = Top(t).c => own'[c] = None

Settled(t) == Closes(t) /\ \E fs \in Seq(Frame) : Moves(t, fs) /\ Placed(fs)

LEMMA PcbMove ==
  ASSUME PcbInv, DispatchInv', StateInv', Forward, NEW t \in Task, Settled(t)
  PROVE  PcbInv'
  <1>1. PICK fs \in Seq(Frame) : Moves(t, fs) /\ Placed(fs)
    BY DEF Settled
  <1>2. TypeOK /\ FramesInPlace /\ DropAfterClose
    BY DEF PcbInv, DispatchInv
  <1>3. FramesInPlace'
    BY <1>1, <1>2, FramesMove DEF Placed
  <1>4. DropAfterClose'
    BY <1>1, <1>2, DropMove DEF Placed, Settled, Closes
  <1> QED
    BY <1>3, <1>4 DEF PcbInv

\* Present(c): frames about c may be pushed.
Present(c) == c \in Accepted => impl'[c] # "none" /\ c \notin accept'

PlacedOp == (UserOp \cup CallOp \cup EventKind) \ (DialOp \cup {"drop"})

LEMMA PlacedFrames ==
  ASSUME NEW c \in Client, Present(c)
  PROVE  /\ <<>> \in Seq(Frame) /\ Placed(<<>>)
         /\ DeleteWork(c) \in Seq(Frame) /\ Placed(DeleteWork(c))
         /\ <<F("abort", c)>> \o DeleteWork(c) \in Seq(Frame)
         /\ Placed(<<F("abort", c)>> \o DeleteWork(c))
         /\ \A op \in PlacedOp : <<F(op, c)>> \in Seq(Frame) /\ Placed(<<F(op, c)>>)
         /\ \A op, op2 \in PlacedOp :
              <<F(op, c), F(op2, c)>> \in Seq(Frame) /\ Placed(<<F(op, c), F(op2, c)>>)
         /\ c \in Dialer => \A op \in {"connect", "dial"} :
              <<F(op, c)>> \in Seq(Frame) /\ Placed(<<F(op, c)>>)
         /\ c \in Dialer => \A op \in {"tcpConnect", "dialFailed"}, q \in Pcb :
              Dialled(q)' =>
                <<FP(op, c, q)>> \in Seq(Frame) /\ Placed(<<FP(op, c, q)>>)
  <1>1. /\ <<>> \in Seq(Frame) /\ DeleteWork(c) \in Seq(Frame)
        /\ \A op \in CallOp \cup UserOp \cup EventKind, q \in Pcb \cup {None} :
             <<FP(op, c, q)>> \in Seq(Frame) /\ <<F(op, c)>> \in Seq(Frame)
        /\ \A op, op2 \in CallOp \cup UserOp \cup EventKind :
             <<F(op, c), F(op2, c)>> \in Seq(Frame)
    BY PushedType
  <1>2. DeleteWork(c) = <<F("tcpClose", c), F("drop", c)>>
    BY DEF DeleteWork
  <1>3. <<F("abort", c)>> \o DeleteWork(c) \in Seq(Frame)
    BY <1>1, ConcatProperties DEF CallOp
  <1>4. \A op \in PlacedOp \cup {"drop"} : InPlace(F(op, c))'
    BY DEF Present, InPlace, F, PlacedOp, DialOp
  <1>5. Placed(<<>>) /\ Placed(DeleteWork(c))
    BY <1>4 DEF Placed, DeleteWork, PlacedOp, CallOp, DialOp, F
  <1>6. Placed(<<F("abort", c)>> \o DeleteWork(c))
    <2> DEFINE as == <<F("abort", c)>>
               fs == as \o DeleteWork(c)
    <2>1. /\ Len(fs) = 3 /\ fs[1] = F("abort", c) /\ fs[2] = F("tcpClose", c)
          /\ fs[3] = F("drop", c)
      <3>1. as \in Seq(Frame) /\ Len(as) = 1 /\ as[1] = F("abort", c)
        BY <1>1 DEF CallOp
      <3>2. /\ Len(DeleteWork(c)) = 2 /\ DeleteWork(c)[1] = F("tcpClose", c)
            /\ DeleteWork(c)[2] = F("drop", c)
        BY <1>2
      <3> HIDE DEF as
      <3>3. /\ Len(fs) = Len(as) + Len(DeleteWork(c))
            /\ \A k \in 1..(Len(as) + Len(DeleteWork(c))) :
                 fs[k] = IF k <= Len(as) THEN as[k] ELSE DeleteWork(c)[k - Len(as)]
        BY <1>1, <3>1, ConcatProperties
      <3> HIDE DEF fs
      <3>4. /\ Len(as) + Len(DeleteWork(c)) = 3
            /\ 1 \in 1..3 /\ 2 \in 1..3 /\ 3 \in 1..3 /\ 1 <= Len(as)
            /\ ~ (2 <= Len(as)) /\ 2 - Len(as) = 1 /\ ~ (3 <= Len(as)) /\ 3 - Len(as) = 2
        BY <3>1, <3>2
      <3> QED
        BY <3>1, <3>2, <3>3, <3>4
    <2>2. \A k \in 1..3 : InPlace(fs[k])'
      BY <1>4, <2>1 DEF PlacedOp, CallOp, DialOp
    <2>3. 2 \in 1..(3 - 1) /\ fs[2].op = "tcpClose" /\ fs[2].c = c /\ fs[3].c = c
      BY <2>1 DEF F
    <2>4. fs[1].op # "drop" /\ fs[2].op # "drop"
      BY <2>1 DEF F
    <2> HIDE DEF fs
    <2>5. Placed(fs)
      BY <2>1, <2>2, <2>3, <2>4 DEF Placed
    <2> QED
      BY <2>5 DEF fs, as
  <1>7. \A op \in PlacedOp : Placed(<<F(op, c)>>)
    BY <1>4 DEF Placed, PlacedOp, F
  <1>8. \A op, op2 \in PlacedOp : Placed(<<F(op, c), F(op2, c)>>)
    BY <1>4 DEF Placed, PlacedOp, F
  <1>9. ASSUME c \in Dialer, NEW op \in {"connect", "dial"}
        PROVE  Placed(<<F(op, c)>>)
    BY <1>9 DEF Placed, F, InPlace, Present
  <1>10. ASSUME c \in Dialer, NEW op \in {"tcpConnect", "dialFailed"}, NEW q \in Pcb, Dialled(q)'
         PROVE  Placed(<<FP(op, c, q)>>)
    <2>1. InPlace(FP(op, c, q))'
      BY <1>10 DEF FP, InPlace, Present
    <2> QED
      BY <1>10, <2>1 DEF Placed, FP
  <1> QED
    BY <1>1, <1>3, <1>5, <1>6, <1>7, <1>8, <1>9, <1>10 DEF PlacedOp, CallOp

LEMMA TopPlace ==
  ASSUME TypeOK, FramesInPlace, NEW t \in Task, todo[t] # <<>>
  PROVE  Top(t) \in Frame /\ InPlace(Top(t))
  <1>1. todo[t] \in Seq(Frame)
    BY DEF TypeOK
  <1>2. 1 \in 1..Len(todo[t]) /\ Top(t) = todo[t][1]
    BY <1>1, LenProperties, EmptySeq DEF Top
  <1> QED
    BY <1>2, TopType DEF FramesInPlace

-----------------------------------------------------------------------------
(***************************************************************************)
(* Steps that change nothing but a stack.                                   *)
(***************************************************************************)
LEMMA PairConcat ==
  ASSUME NEW S, NEW f \in S, NEW g \in S
  PROVE  <<f>> \o <<g>> = <<f, g>>
  <1> DEFINE fg == <<f, g>>
  <1>1. fg \in Seq(S) /\ Len(fg) = 2 /\ fg[1] = f /\ fg[2] = g
    OBVIOUS
  <1>2. <<f>> \in Seq(S) /\ <<g>> \in Seq(S) /\ Len(<<f>>) = 1 /\ Len(<<g>>) = 1
    OBVIOUS
  <1>3. /\ <<f>> \o <<g>> \in Seq(S)
        /\ Len(<<f>> \o <<g>>) = 2
        /\ (<<f>> \o <<g>>)[1] = f /\ (<<f>> \o <<g>>)[2] = g
    BY <1>2, ConcatProperties
  <1> HIDE DEF fg
  <1>4. \A i \in 1..2 : (<<f>> \o <<g>>)[i] = fg[i]
    BY <1>1, <1>3
  <1>5. <<f>> \o <<g>> = fg
    BY <1>1, <1>3, <1>4, SeqEqual
  <1> QED
    BY <1>5 DEF fg

LEMMA StateQuiet ==
  ASSUME TypeOK, StateInv,
         UNCHANGED <<pcb, arg, own, facade, impl, queue, accept, shown, lwip, disc>>
  PROVE  StateInv' /\ Forward
  <1>1. SameDials /\ OnlyLooseImpls
    BY DEF SameDials, OnlyLooseImpls
  <1>2. \A d \in Accepted : impl[d] = "none" =>
          d \notin shown' /\ lwip' # d /\ disc'[d] = 0 /\ queue'[d] = <<>>
    BY DEF StateInv, Unborn
  <1> QED
    BY <1>1, <1>2, StateKeeps DEF StateInv, Undelivered, HeldByFacade

LEMMA PcbQuiet ==
  ASSUME TypeOK, FramesInPlace, StateInv, NEW t \in Task,
         AbortCheck(t) \/ ErrorTail(t) \/ ServerDiscard(t) \/ ConnectCheck(t) \/ Destroy(t)
  PROVE  StateInv' /\ Forward /\ Settled(t)
  <1>1. StateInv' /\ Forward
    BY StateQuiet DEF AbortCheck, ErrorTail, ServerDiscard, ConnectCheck, Destroy
  <1>2. todo[t] # <<>>
    BY DEF At, AbortCheck, ErrorTail, ServerDiscard, ConnectCheck, Destroy
  <1>3. PICK c \in Client : c = Top(t).c
    BY <1>2, TopType
  <1>4. InPlace(Top(t))
    BY <1>2, TopPlace
  <1>5. Present(c)
    BY <1>3, <1>4 DEF InPlace, Present, AbortCheck, ErrorTail, ServerDiscard, ConnectCheck, Destroy
  <1>6. Closes(t)
    BY DEF Closes, At, Top, AbortCheck, ErrorTail, ServerDiscard, ConnectCheck, Destroy
  <1>7. \E fs \in Seq(Frame) : Return(t, fs) /\ Placed(fs)
    <2>1. CASE AbortCheck(t) \/ ErrorTail(t) \/ ServerDiscard(t)
      <3>1. \/ Return(t, <<>>) \/ Return(t, <<F("tcpAbort", c)>>)
            \/ Return(t, <<F("onDisconnect", c), F("serverDiscard", c)>>)
        BY <1>3, <2>1 DEF AbortCheck, ErrorTail, ServerDiscard
      <3> QED
        BY <1>5, <3>1, PlacedFrames DEF PlacedOp, UserOp, CallOp, DialOp
    <2>2. CASE ConnectCheck(t)
      <3>1. Return(t, <<>>) \/ Return(t, <<F("dial", c)>>)
        BY <1>3, <2>2 DEF ConnectCheck
      <3>2. c \in Dialer
        BY <1>3, <1>4, <2>2 DEF ConnectCheck, At, Top, InPlace, DialOp
      <3> QED
        BY <1>5, <3>1, <3>2, PlacedFrames
    <2>3. CASE Destroy(t)
      <3>1. \/ Return(t, <<>> \o <<F("destroyed", c)>>)
            \/ Return(t, <<F("tcpClose", c)>> \o <<F("destroyed", c)>>)
        BY <1>3, <2>3 DEF Destroy
      <3>2. /\ <<>> \o <<F("destroyed", c)>> = <<F("destroyed", c)>>
            /\ <<F("tcpClose", c)>> \o <<F("destroyed", c)>> = <<F("tcpClose", c), F("destroyed", c)>>
        <4>1. /\ F("tcpClose", c) \in Frame /\ F("destroyed", c) \in Frame
              /\ <<F("tcpClose", c)>> \in Seq(Frame) /\ <<F("destroyed", c)>> \in Seq(Frame)
          BY FrameType, PushedType DEF CallOp
        <4> QED
          BY <4>1, PairConcat, ConcatEmptySeq
      <3> QED
        BY <1>5, <3>1, <3>2, PlacedFrames DEF PlacedOp, CallOp, DialOp
    <2> QED
      BY <2>1, <2>2, <2>3
  <1> QED
    BY <1>1, <1>2, <1>6, <1>7, ReturnMoves DEF Settled

LEMMA PcbHandler ==
  ASSUME TypeOK, FramesInPlace, StateInv,
         HandleRecv \/ HandleFin \/ HandleSent \/ HandlePoll \/ HandleError
  PROVE  StateInv' /\ Forward /\ Settled(Async)
  <1>1. UNCHANGED <<pcb, arg, own, facade, impl, queue, accept, shown, lwip, disc>>
    BY DEF HandleRecv, HandleFin, HandleSent, HandlePoll, HandleError, Handler
  <1>2. StateInv' /\ Forward
    BY <1>1, StateQuiet
  <1>3. todo[Async] # <<>> /\ Top(Async).op # "tcpClose" /\ Async \in Task
    BY DEF HandleRecv, HandleFin, HandleSent, HandlePoll, HandleError, Handler, At, Top, Task
  <1>4. PICK c \in Client : c = Top(Async).c
    BY <1>3, TopType
  <1>5. Present(c)
    BY <1>1, <1>3, <1>4, TopPlace DEF InPlace, Present
  <1>6. Closes(Async)
    BY <1>3 DEF Closes
  <1>7. \/ Return(Async, <<>>)
        \/ \E op \in PlacedOp : Return(Async, <<F(op, c)>>)
        \/ Return(Async, <<F("onError", c), F("errorTail", c)>>)
    <2>1. CASE HandleRecv
      BY <1>4, <2>1 DEF HandleRecv, Handler, PlacedOp, UserOp, DialOp
    <2>2. CASE HandleFin
      BY <1>4, <2>2 DEF HandleFin, Handler, IfOwned, PlacedOp, CallOp, DialOp
    <2>3. CASE HandleSent
      BY <1>4, <2>3 DEF HandleSent, Handler, IfOwned, PlacedOp, UserOp, DialOp
    <2>4. CASE HandlePoll
      BY <1>4, <2>4 DEF HandlePoll, Handler, PlacedOp, UserOp, CallOp, DialOp
    <2>5. CASE HandleError
      BY <1>4, <2>5 DEF HandleError, Handler
    <2> QED
      BY <2>1, <2>2, <2>3, <2>4, <2>5
  <1>8. \E fs \in Seq(Frame) : Return(Async, fs) /\ Placed(fs)
    BY <1>5, <1>7, PlacedFrames DEF PlacedOp, UserOp, CallOp, DialOp
  <1> QED
    BY <1>2, <1>3, <1>6, <1>8, ReturnMoves DEF Settled

-----------------------------------------------------------------------------
(***************************************************************************)
(* The application's own steps: it acts on clients it was shown.            *)
(***************************************************************************)
LEMMA StateReaction ==
  ASSUME TypeOK, StateInv, UNCHANGED <<pcb, arg, own, impl, queue, accept, lwip>>,
         NEW c \in Client, facade[c] = "live",
         UNCHANGED facade \/ facade' = [facade EXCEPT ![c] = "cut"],
         c \notin accept, c \in Accepted => impl[c] # "none",
         \A d \in Accepted : d \in shown' =>
           impl[d] # "none" /\ d \notin accept,
         \A d \in Accepted : impl[d] = "none" => disc'[d] = 0
  PROVE  StateInv' /\ Forward
  <1>1. SameDials /\ OnlyLooseImpls
    BY DEF SameDials, OnlyLooseImpls
  <1>2. \A d \in Accepted : impl[d] = "none" =>
          d \notin shown' /\ lwip' # d /\ disc'[d] = 0 /\ queue'[d] = <<>>
    BY DEF StateInv, Unborn
  <1>3. \A d \in accept' : facade'[d] = facade[d] /\ d \notin shown'
    BY StateTypes
  <1>4. \A d \in Client : facade'[d] \in {"live", "cut"} <=> HeldByFacade(d)
    BY StateTypes DEF HeldByFacade
  <1>5. \A d \in Client : facade'[d] \in {"live", "cut"} => HeldByFacade(d)
    BY <1>4
  <1>6. \A d \in Accepted : own[d] # None /\ HeldByFacade(d) => facade'[d] \in {"live", "cut"}
    BY <1>4, StateTypes
  <1>7. accept' \subseteq accept
    OBVIOUS
  <1> QED
    BY <1>1, <1>2, <1>3, <1>5, <1>6, <1>7, StateKeeps

\* What the application pushes is in place.
LEMMA ReactionPlaced ==
  ASSUME TypeOK, NEW t \in Task, NEW c \in Client, Reaction(t, c, Base(t)), Present(c)
  PROVE  \E fs \in Seq(Frame) : Moves(t, fs) /\ Placed(fs)
  <1>1. PICK fs \in Seq(Frame) :
          /\ Moves(t, fs)
          /\ \/ \E op \in {"tcpClose", "abort"} : fs = <<F(op, c)>>
             \/ c \in Dialer /\ fs = <<F("connect", c)>>
             \/ fs = DeleteWork(c)
    BY ReactionMoves
  <1>2. Placed(fs)
    BY <1>1, PlacedFrames DEF PlacedOp, CallOp, DialOp
  <1> QED
    BY <1>1, <1>2

LEMMA PcbAppCall ==
  ASSUME TypeOK, StateInv, NEW t \in AppTask, NEW c \in Client, AppCall(t, c)
  PROVE  StateInv' /\ Forward /\ Settled(t)
  <1>1. /\ t \in Task /\ todo[t] = <<>> /\ Base(t) = <<>> /\ c \in shown
        /\ Reaction(t, c, Base(t))
        /\ UNCHANGED <<pcb, arg, own, impl, queue, accept, shown, lwip, disc>>
    BY DEF AppCall, Task, Base
  <1>2. \A d \in Accepted : d \in shown => impl[d] # "none" /\ d \notin accept
    BY DEF StateInv, Unborn, Undelivered
  <1>3. c \notin accept /\ (c \in Accepted => impl[c] # "none")
    BY <1>1, <1>2, StateTypes
  <1>4. facade[c] = "live" /\ (UNCHANGED facade \/ facade' = [facade EXCEPT ![c] = "cut"])
    BY <1>1, ReactionMoves
  <1>5. \A d \in Accepted : impl[d] = "none" => disc'[d] = 0
    BY <1>1 DEF StateInv, Unborn
  <1>6. StateInv' /\ Forward
    BY <1>1, <1>2, <1>3, <1>4, <1>5, StateReaction
  <1>7. Present(c)
    BY <1>1, <1>3 DEF Present
  <1> QED
    BY <1>1, <1>6, <1>7, ReactionPlaced DEF Settled, Closes

LEMMA PcbUserCallback ==
  ASSUME TypeOK, FramesInPlace, StateInv, NEW t \in Task, UserCallback(t)
  PROVE  StateInv' /\ Forward /\ Settled(t)
  <1>1. PICK c \in Client : c = Top(t).c
    BY TopType DEF UserCallback
  <1>2. /\ todo[t] # <<>> /\ Top(t).op \in UserOp
        /\ UNCHANGED <<pcb, arg, own, impl, queue, accept, lwip>>
        /\ shown' = shown \cup {c} \/ shown' = shown
        /\ disc' = disc \/ disc' = [disc EXCEPT ![c] = @ + 1]
    BY <1>1 DEF UserCallback
  <1>3. c \in Accepted => impl[c] # "none" /\ c \notin accept
    BY <1>1, <1>2, TopPlace DEF InPlace
  <1>4. \A d \in Accepted : d \in shown' => impl[d] # "none" /\ d \notin accept
    BY <1>2, <1>3 DEF StateInv, Unborn, Undelivered
  <1>5. \A d \in Accepted : impl[d] = "none" => disc'[d] = 0
    BY <1>2, <1>3, StateTypes DEF StateInv, Unborn, TypeOK
  <1>6. shown' \subseteq Client
    BY <1>2 DEF TypeOK
  <1>7. Closes(t)
    BY <1>2 DEF Closes, UserOp
  <1>8. CASE Return(t, <<>>) /\ UNCHANGED facade
    <2>1. SameDials /\ OnlyLooseImpls
      BY <1>2, <1>8 DEF SameDials, OnlyLooseImpls
    <2>2. \A d \in accept' : d \notin shown'
      BY <1>2, <1>4, StateTypes
    <2>3. \A d \in Accepted : impl[d] = "none" =>
            d \notin shown' /\ lwip' # d /\ disc'[d] = 0 /\ queue'[d] = <<>>
      BY <1>2, <1>4, <1>5 DEF StateInv, Unborn
    <2>4. StateInv' /\ Forward
      BY <1>2, <1>8, <2>1, <2>2, <2>3, StateKeeps DEF HeldByFacade
    <2>5. Moves(t, <<>>)
      BY <1>2, <1>8, ReturnMoves
    <2>6. Present(c)
      BY <1>2, <1>3 DEF Present
    <2> QED
      BY <1>7, <2>4, <2>5, <2>6, PlacedFrames DEF Settled
  <1>9. ASSUME NEW d \in shown', Reaction(t, d, Tail(todo[t]))
        PROVE  StateInv' /\ Forward /\ Settled(t)
    <2>1. d \in Client /\ Reaction(t, d, Base(t))
      BY <1>2, <1>6, <1>9 DEF Base
    <2>2. facade[d] = "live" /\ (UNCHANGED facade \/ facade' = [facade EXCEPT ![d] = "cut"])
      BY <2>1, ReactionMoves
    <2>3. d \notin accept /\ (d \in Accepted => impl[d] # "none")
      BY <1>4, <1>9, StateTypes
    <2>4. StateInv' /\ Forward
      BY <1>2, <1>4, <1>5, <2>1, <2>2, <2>3, StateReaction
    <2>5. Present(d)
      BY <1>2, <2>3 DEF Present
    <2> QED
      BY <1>7, <2>1, <2>4, <2>5, ReactionPlaced DEF Settled
  <1> QED
    BY <1>8, <1>9 DEF UserCallback

-----------------------------------------------------------------------------
(***************************************************************************)
(* The service task takes an event.                                         *)
(***************************************************************************)
LEMMA PcbTakeEvent ==
  ASSUME TypeOK, StateInv, NEW c \in Client, TakeEvent(c)
  PROVE  StateInv' /\ Forward /\ Settled(Async)
  <1>1. /\ todo[Async] = <<>> /\ queue[c] # <<>> /\ c \notin accept
        /\ queue' = [queue EXCEPT ![c] = Tail(@)]
        /\ UNCHANGED <<pcb, arg, own, facade, impl, accept, shown, lwip, disc>>
    BY DEF TakeEvent
  <1>2. c \in Accepted => impl[c] # "none"
    BY <1>1 DEF StateInv, Unborn
  <1>3. queue[c] \in Seq(Event)
    BY StateTypes
  <1> DEFINE e == Head(queue[c])
             fs == <<FP(e.kind, c, e.pcb), F("free", c)>>
  <1>4. e \in Event /\ e = queue[c][1] /\ 1 \in 1..Len(queue[c])
    BY <1>1, <1>3, LenProperties, EmptySeq, HeadTailProperties
  <1>5. /\ Len(Tail(queue[c])) = Len(queue[c]) - 1
        /\ \A i \in 1..Len(Tail(queue[c])) : Tail(queue[c])[i] = queue[c][i + 1]
    BY <1>1, <1>3, HeadTailProperties
  <1>6. SameDials
    <2> SUFFICES ASSUME NEW d \in Client, NEW i \in 1..Len(queue'[d])
        PROVE  \E k \in 1..Len(queue[d]) : queue[d][k] = queue'[d][i]
      BY DEF SameDials
    <2>1. CASE d = c
      <3>1. queue'[c] = Tail(queue[c])
        BY <1>1, StateTypes
      <3>2. i + 1 \in 1..Len(queue[c])
        BY <1>3, <1>5, <2>1, <3>1, LenProperties
      <3> QED
        BY <1>5, <2>1, <3>1, <3>2
    <2>2. CASE d # c
      BY <1>1, <2>2, StateTypes
    <2> QED
      BY <2>1, <2>2
  <1>7. OnlyLooseImpls
    BY <1>1 DEF OnlyLooseImpls
  <1>8. \A d \in Accepted : impl[d] = "none" =>
          d \notin shown' /\ lwip' # d /\ disc'[d] = 0 /\ queue'[d] = <<>>
    <2>1. \A d \in Accepted : impl[d] = "none" => d # c /\ queue'[d] = queue[d]
      BY <1>1, <1>2, StateTypes
    <2> QED
      BY <1>1, <2>1 DEF StateInv, Unborn
  <1>9. StateInv' /\ Forward
    <2>1. /\ \A d \in Client : facade'[d] \in {"live", "cut"} => HeldByFacade(d)
          /\ \A d \in Accepted : own[d] # None /\ HeldByFacade(d) => facade'[d] \in {"live", "cut"}
          /\ \A d \in accept' : facade'[d] = facade[d] /\ d \notin shown'
          /\ accept' \subseteq accept
      BY <1>1 DEF StateInv, Undelivered, HeldByFacade
    <2> QED
      BY <1>1, <1>6, <1>7, <1>8, <2>1, StateKeeps
  <1>10. fs \in Seq(Frame) /\ Moves(Async, fs)
    <2>1. e.kind \in EventKind /\ e.pcb \in Pcb \cup {None}
      BY <1>4 DEF Event
    <2>2. fs \in Seq(Frame)
      BY <2>1, PushedType DEF CallOp
    <2>3. todo' = [todo EXCEPT ![Async] = fs] /\ fs \o <<>> = fs
      BY <2>2, ConcatEmptySeq DEF TakeEvent
    <2> QED
      BY <1>1, <2>2, <2>3 DEF Moves, Base
  <1>11. Placed(fs)
    <2>1. e.kind = "CONNECTED" => c \in Dialer /\ Dialled(e.pcb)
      BY <1>4 DEF StateInv, DialsApart
    <2>3. e.kind \in EventKind
      BY <1>4 DEF Event
    <2>4. c \in Accepted => impl'[c] # "none" /\ c \notin accept'
      BY <1>1, <1>2
    <2>5. PICK k \in EventKind : k = e.kind
      BY <2>3
    <2>6. PICK q : q = e.pcb
      OBVIOUS
    <2>7. InPlace(FP(k, c, q))' /\ InPlace(F("free", c))'
      <3>1. k = "CONNECTED" => c \in Dialer /\ Dialled(q)'
        BY <1>1, <2>1, <2>5, <2>6 DEF Dialled
      <3> QED
        BY <2>4, <2>5, <3>1 DEF InPlace, FP, F, DialOp, EventKind
    <2>8. k # "drop"
      BY <2>5 DEF EventKind
    <2>9. Placed(<<FP(k, c, q), F("free", c)>>)
      BY <2>7, <2>8 DEF Placed, FP, F
    <2> QED
      BY <2>5, <2>6, <2>9
  <1> QED
    BY <1>1, <1>9, <1>10, <1>11 DEF Settled, Closes

LEMMA PcbTakeAccept ==
  ASSUME TypeOK, StateInv, NEW c \in Client, TakeAccept(c)
  PROVE  StateInv' /\ Forward /\ Settled(Async)
  <1>1. /\ todo[Async] = <<>> /\ Base(Async) = <<>> /\ c \in accept /\ accept' = accept \ {c}
        /\ UNCHANGED <<pcb, arg, own, impl, queue, shown, lwip, disc>>
        /\ UNCHANGED facade \/ facade' = [facade EXCEPT ![c] = "cut"]
    BY DEF TakeAccept, Base
  <1>2. c \in Accepted /\ impl[c] # "none" /\ facade[c] = "live"
    BY <1>1, StateTypes DEF StateInv, Unborn, Undelivered
  <1>3. SameDials /\ OnlyLooseImpls
    BY <1>1 DEF SameDials, OnlyLooseImpls
  <1>4. /\ \A d \in Client : facade'[d] \in {"live", "cut"} => HeldByFacade(d)
        /\ \A d \in Accepted : own[d] # None /\ HeldByFacade(d) => facade'[d] \in {"live", "cut"}
        /\ \A d \in accept' : facade'[d] = facade[d] /\ d \notin shown'
        /\ accept' \subseteq accept
    BY <1>1, <1>2, StateTypes DEF StateInv, Undelivered, HeldByFacade
  <1>5. \A d \in Accepted : impl[d] = "none" =>
          d \notin shown' /\ lwip' # d /\ disc'[d] = 0 /\ queue'[d] = <<>>
    BY <1>1 DEF StateInv, Unborn
  <1>6. StateInv' /\ Forward
    BY <1>1, <1>3, <1>4, <1>5, StateKeeps
  <1>7. Present(c)
    BY <1>1, <1>2 DEF Present
  <1>8. \E fs \in Seq(Frame) : todo' = [todo EXCEPT ![Async] = fs] /\ Placed(fs)
    <2>1. \/ todo' = [todo EXCEPT ![Async] = <<F("onClient", c)>>]
          \/ todo' = [todo EXCEPT ![Async] = <<F("abort", c)>> \o DeleteWork(c)]
      BY DEF TakeAccept
    <2> QED
      BY <1>2, <1>7, <2>1, PlacedFrames, StateTypes DEF PlacedOp, UserOp, DialOp
  <1>9. \A fs \in Seq(Frame) : todo' = [todo EXCEPT ![Async] = fs] => Moves(Async, fs)
    BY <1>1, ConcatEmptySeq DEF Moves
  <1> QED
    BY <1>1, <1>6, <1>8, <1>9 DEF Settled, Closes

-----------------------------------------------------------------------------
(***************************************************************************)
(* A pcb is released, or only the queue is cleared.                         *)
(***************************************************************************)
LEMMA StateRelease ==
  ASSUME TypeOK, StateInv, NEW c \in Client,
         own[c] # None => Release(c), own[c] = None => Forget(c),
         Reap(c), UNCHANGED <<facade, accept, shown, lwip, disc>>
  PROVE  StateInv' /\ Forward /\ own'[c] = None
  <1>1. \A d \in Client : own'[d] = IF d = c THEN None ELSE own[d]
    BY StateTypes DEF Release, Forget
  <1>2. \A d \in Client : queue'[d] = IF d = c THEN <<>> ELSE queue[d]
    BY StateTypes DEF Release, Forget, Purge
  <1>3. \A d \in Client :
          /\ HeldByFacade(d) \/ d # c => impl'[d] = impl[d]
          /\ impl'[d] = "none" <=> impl[d] = "none"
    BY StateTypes DEF Reap
  <1>4. \/ /\ own[c] \in Pcb /\ arg' = [arg EXCEPT ![own[c]] = None]
           /\ pcb' = [pcb EXCEPT ![own[c]] = "gone"]
        \/ own[c] = None /\ UNCHANGED <<arg, pcb>>
    BY StateTypes DEF Release, Forget
  <1>5. \A q \in Pcb :
          \/ q # own[c] /\ pcb'[q] = pcb[q] /\ arg'[q] = arg[q]
          \/ q = own[c] /\ pcb'[q] = "gone" /\ arg'[q] = None
    BY <1>4, StateTypes
  <1>6. \A q : Dialled(q) => Dialled(q)'
    BY <1>5, StateTypes DEF Dialled
  <1>7. Forward
    BY <1>1, <1>3, <1>6, StateTypes DEF Forward, Dialled
  <1>8. Unborn'
    BY <1>1, <1>2, <1>3, <1>5, StateTypes DEF StateInv, Unborn
  <1>9. Undelivered' /\ FacadeHolds' /\ OwnedIsHeld'
    BY <1>1, <1>3, StateTypes DEF StateInv, Undelivered, FacadeHolds, OwnedIsHeld, HeldByFacade
  <1>10. DialsApart'
    <2>1. \A q \in Pcb : pcb'[q] \in {"new", "syn"} => arg'[q] \notin Accepted
      BY <1>5 DEF StateInv, DialsApart
    <2>2. \A d \in Dialer : own'[d] # None => Dialled(own'[d])
      BY <1>1, ConstantsAssumption DEF StateInv, DialsApart
    <2>3. ASSUME NEW d \in Client, NEW i \in 1..Len(queue'[d]), queue'[d][i].kind = "CONNECTED"
          PROVE  d \in Dialer /\ Dialled(queue'[d][i].pcb)
      <3>1. queue'[d] = queue[d]
        BY <1>2, <2>3, EmptySeq
      <3> QED
        BY <2>3, <3>1 DEF StateInv, DialsApart
    <2>4. \A d \in Dialer : own'[d] # None => Dialled(own[d])'
      BY <1>6, <2>2 DEF Dialled
    <2>5. ASSUME NEW d \in Client, NEW i \in 1..Len(queue'[d]), queue'[d][i].kind = "CONNECTED"
          PROVE  d \in Dialer /\ Dialled(queue[d][i].pcb)'
      BY <1>6, <2>3, <2>5 DEF Dialled
    <2> QED
      BY <2>1, <2>4, <2>5 DEF DialsApart
  <1>11. OwnedPcbIsLive'
    <2> SUFFICES ASSUME NEW d \in Accepted, own'[d] # None
        PROVE  Live(own[d])' /\ arg'[own'[d]] = d
      BY DEF OwnedPcbIsLive
    <2>1. d # c /\ own'[d] = own[d] /\ own[d] \in Pcb
      BY <1>1, StateTypes
    <2>2. Live(own[d]) /\ arg[own[d]] = d
      BY <2>1 DEF StateInv, OwnedPcbIsLive
    <2>3. own[d] # own[c]
      <3> SUFFICES ASSUME own[d] = own[c] PROVE FALSE
        OBVIOUS
      <3>1. CASE c \in Accepted
        BY <2>1, <2>2, <3>1 DEF StateInv, OwnedPcbIsLive
      <3>2. CASE c \notin Accepted
        BY <2>1, <2>2, <3>2 DEF StateInv, DialsApart, Dialled, Accepted
      <3> QED
        BY <3>1, <3>2
    <2> QED
      BY <1>5, <2>1, <2>2, <2>3 DEF Live
  <1>12. CallbackReachesOwner'
    <2> SUFFICES ASSUME NEW q \in Pcb, Live(q)', arg'[q] \in Accepted
        PROVE  impl'[arg'[q]] = "live" /\ own'[arg'[q]] = q
      BY DEF CallbackReachesOwner
    <2>1. q # own[c] /\ pcb'[q] = pcb[q] /\ arg'[q] = arg[q]
      BY <1>5, StateTypes
    <2>2. PICK d \in Accepted : d = arg[q]
      BY <2>1
    <2>3. impl[d] = "live" /\ own[d] = q
      BY <2>1, <2>2 DEF StateInv, CallbackReachesOwner, Live
    <2>4. d # c /\ own'[d] = q /\ impl'[d] = "live"
      BY <1>1, <1>3, <2>1, <2>2, <2>3, StateTypes
    <2> QED
      BY <2>1, <2>2, <2>4
  <1> QED
    BY <1>1, <1>7, <1>8, <1>9, <1>10, <1>11, <1>12 DEF StateInv

LEMMA PcbRelease ==
  ASSUME TypeOK, FramesInPlace, StateInv, NEW t \in Task, TcpClose(t) \/ TcpAbort(t)
  PROVE  StateInv' /\ Forward /\ Settled(t)
  <1>1. todo[t] # <<>>
    BY DEF At, TcpClose, TcpAbort
  <1>2. PICK c \in Client : c = Top(t).c
    BY <1>1, TopType
  <1>3. StateInv' /\ Forward /\ own'[c] = None
    <2>1. (own[c] # None => Release(c)) /\ (own[c] = None => Forget(c))
      <3>1. own[Top(t).c] # None => Release(Top(t).c)
        BY DEF TcpClose, TcpAbort
      <3>2. own[Top(t).c] = None => Forget(Top(t).c)
        BY DEF TcpClose, TcpAbort
      <3>3. own[c] # None => Release(c)
        BY <1>2, <3>1 DEF Release, Purge
      <3>4. own[c] = None => Forget(c)
        BY <1>2, <3>2 DEF Forget, Purge
      <3> QED
        BY <3>3, <3>4
    <2>2. Reap(c)
      BY <1>2 DEF TcpClose, TcpAbort, Reap
    <2> QED
      BY <2>1, <2>2, StateRelease DEF TcpClose, TcpAbort
  <1>4. Closes(t)
    BY <1>2, <1>3 DEF Closes
  <1>5. Present(c)
    BY <1>1, <1>2, <1>3, TopPlace DEF Present, InPlace, Forward, TcpClose, TcpAbort
  <1>6. \/ Return(t, <<>>) \/ Return(t, <<F("onDisconnect", c), F("serverDiscard", c)>>)
        \/ Return(t, <<F("onError", c), F("errorTail", c)>>)
    BY <1>2 DEF TcpClose, TcpAbort
  <1>7. \E fs \in Seq(Frame) : Return(t, fs) /\ Placed(fs)
    BY <1>5, <1>6, PlacedFrames DEF PlacedOp, UserOp, CallOp, DialOp
  <1> QED
    BY <1>1, <1>3, <1>4, <1>7, ReturnMoves DEF Settled

-----------------------------------------------------------------------------
(***************************************************************************)
(* Owners let go, and the destructor runs.                                  *)
(***************************************************************************)
LEMMA StateLoose ==
  ASSUME TypeOK, StateInv, NEW c \in Client,
         UNCHANGED <<pcb, arg, own, queue, accept, shown, lwip, disc>>,
         facade' = facade \/ facade' = [facade EXCEPT ![c] = "gone"],
         \/ impl' = impl
         \/ /\ impl[c] # "none"
            /\ \E s \in {"dying", "dead"} : impl' = [impl EXCEPT ![c] = s]
            /\ facade'[c] \notin {"live", "cut"},
         c \in Accepted => impl[c] # "none" /\ c \notin accept,
         c \in Accepted => own[c] = None \/ UNCHANGED <<impl, facade>>
  PROVE  StateInv' /\ Forward
  <1>1. SameDials
    BY DEF SameDials
  <1>2. OnlyLooseImpls
    <2> SUFFICES ASSUME NEW d \in Client, impl'[d] # impl[d]
        PROVE  /\ impl[d] # "none" /\ impl'[d] # "none"
               /\ facade'[d] \notin {"live", "cut"}
               /\ d \in Accepted => own[d] = None
      BY DEF OnlyLooseImpls
    <2>1. d = c /\ impl' # impl /\ impl'[c] \in {"dying", "dead"}
      BY StateTypes
    <2> QED
      BY <2>1
  <1>3. \A d \in Client : facade'[d] \in {"live", "cut"} => HeldByFacade(d)
    BY StateTypes DEF HeldByFacade
  <1>4. \A d \in Accepted : own[d] # None /\ HeldByFacade(d) => facade'[d] \in {"live", "cut"}
    <2> SUFFICES ASSUME NEW d \in Accepted, own[d] # None, HeldByFacade(d)
        PROVE  facade'[d] \in {"live", "cut"}
      OBVIOUS
    <2>1. facade'[d] = facade[d]
      BY StateTypes
    <2> QED
      BY <2>1 DEF HeldByFacade
  <1>5. \A d \in accept' : facade'[d] = facade[d] /\ d \notin shown'
    <2> SUFFICES ASSUME NEW d \in accept PROVE facade'[d] = facade[d] /\ d \notin shown
      OBVIOUS
    <2>1. d # c
      BY StateTypes
    <2> QED
      BY <2>1, StateTypes DEF StateInv, Undelivered
  <1>6. \A d \in Accepted : impl[d] = "none" =>
          d \notin shown' /\ lwip' # d /\ disc'[d] = 0 /\ queue'[d] = <<>>
    BY DEF StateInv, Unborn
  <1>7. accept' \subseteq accept
    OBVIOUS
  <1> QED
    BY <1>1, <1>2, <1>3, <1>4, <1>5, <1>6, <1>7, StateKeeps

LEMMA PcbLetGo ==
  ASSUME PcbInv, NEW t \in Task, Drop(t) \/ FreeEvent(t) \/ Destroyed(t)
  PROVE  StateInv' /\ Forward /\ Settled(t)
  <1>1. /\ TypeOK /\ FramesInPlace /\ DropAfterClose /\ StateInv /\ DestroyedIsDying
        /\ todo[t] # <<>>
    BY DEF PcbInv, DispatchInv, At, Drop, FreeEvent, Destroyed
  <1>2. PICK c \in Client : c = Top(t).c
    BY <1>1, TopType
  <1>3. c \in Accepted => impl[c] # "none" /\ c \notin accept
    BY <1>1, <1>2, TopPlace DEF InPlace
  <1>4. /\ todo[t] \in Seq(Frame) /\ Top(t) = todo[t][1]
        /\ 1 \in 1..Len(todo[t]) /\ Len(todo[t]) \in Nat
    BY <1>1, EmptySeq, LenProperties DEF Top, TypeOK
  <1>5. UNCHANGED <<pcb, arg, own, queue, accept, shown, lwip, disc>>
    BY DEF Drop, FreeEvent, Destroyed
  <1>6. Closes(t)
    BY DEF Closes, At, Top, Drop, FreeEvent, Destroyed
  <1>7. ASSUME Drop(t)
        PROVE  StateInv' /\ Forward
    <2>1. c \in Accepted => own[c] = None
      <3> SUFFICES ASSUME c \in Accepted, own[c] # None PROVE FALSE
        OBVIOUS
      <3>1. todo[t][1].op = "drop" /\ todo[t][1].c = c
        BY <1>2, <1>4, <1>7 DEF Drop, At, Top
      <3>2. \E j \in 1..(1 - 1) : todo[t][j].op = "tcpClose" /\ todo[t][j].c = c
        BY <1>1, <1>4, <3>1 DEF DropAfterClose
      <3> QED
        BY <3>2
    <2>2. facade' = [facade EXCEPT ![c] = "gone"]
      BY <1>2, <1>7 DEF Drop
    <2>3. \/ impl' = impl /\ Return(t, <<>>)
          \/ /\ impl[c] = "live" /\ impl' = [impl EXCEPT ![c] = "dying"]
             /\ Return(t, <<F("destroy", c)>>)
      BY <1>2, <1>7 DEF Drop, LetGo
    <2>4. facade'[c] = "gone"
      BY <1>1, <2>2, StateTypes
    <2>5. \/ impl' = impl
          \/ /\ impl[c] # "none"
             /\ \E s \in {"dying", "dead"} : impl' = [impl EXCEPT ![c] = s]
             /\ facade'[c] \notin {"live", "cut"}
      BY <2>3, <2>4
    <2> QED
      BY <1>1, <1>3, <1>5, <2>1, <2>2, <2>5, StateLoose
  <1>8. ASSUME FreeEvent(t)
        PROVE  StateInv' /\ Forward
    <2>1. UNCHANGED facade
      BY <1>8 DEF FreeEvent
    <2>2. \/ impl' = impl /\ Return(t, <<>>)
          \/ /\ impl[c] = "live" /\ ~ HeldByFacade(c) /\ impl' = [impl EXCEPT ![c] = "dying"]
             /\ Return(t, <<F("destroy", c)>>)
      BY <1>2, <1>8 DEF FreeEvent, LetGo, HeldByFacade
    <2>3. impl' # impl => facade'[c] \notin {"live", "cut"} /\ (c \in Accepted => own[c] = None)
      BY <1>1, <2>1, <2>2 DEF HeldByFacade, StateInv, OwnedIsHeld
    <2>4. \/ impl' = impl
          \/ /\ impl[c] # "none"
             /\ \E s \in {"dying", "dead"} : impl' = [impl EXCEPT ![c] = s]
             /\ facade'[c] \notin {"live", "cut"}
      BY <2>2, <2>3
    <2>5. c \in Accepted => own[c] = None \/ UNCHANGED <<impl, facade>>
      BY <2>1, <2>3
    <2> QED
      BY <1>1, <1>3, <1>5, <2>1, <2>4, <2>5, StateLoose
  <1>9. ASSUME Destroyed(t)
        PROVE  StateInv' /\ Forward
    <2>1. UNCHANGED facade /\ impl' = [impl EXCEPT ![c] = "dead"] /\ Return(t, <<>>)
      BY <1>2, <1>9 DEF Destroyed
    <2>2. impl[c] \in {"dying", "dead"}
      BY <1>1, <1>2, <1>4, <1>9 DEF DestroyedIsDying, Destroyed, At, Top
    <2>3. facade'[c] \notin {"live", "cut"} /\ (c \in Accepted => own[c] = None)
      BY <1>1, <2>1, <2>2 DEF HeldByFacade, StateInv, OwnedIsHeld, FacadeHolds
    <2>4. /\ impl[c] # "none"
          /\ \E s \in {"dying", "dead"} : impl' = [impl EXCEPT ![c] = s]
      BY <2>1, <2>2
    <2> QED
      BY <1>1, <1>3, <1>5, <2>1, <2>3, <2>4, StateLoose
  <1>10. StateInv' /\ Forward
    BY <1>7, <1>8, <1>9
  <1>11. Present(c)
    BY <1>3, <1>5, <1>10 DEF Present, Forward
  <1>12. Return(t, <<>>) \/ Return(t, <<F("destroy", c)>>)
    BY <1>2 DEF Drop, FreeEvent, Destroyed, LetGo
  <1> QED
    BY <1>1, <1>6, <1>10, <1>11, <1>12, ReturnMoves, PlacedFrames
      DEF Settled, PlacedOp, CallOp, DialOp

-----------------------------------------------------------------------------
(***************************************************************************)
(* A dial touches its own pcb only.                                         *)
(***************************************************************************)
LEMMA StateDial ==
  ASSUME TypeOK, StateInv, NEW c \in Dialer, NEW p \in Pcb, pcb[p] = "free" \/ Dialled(p),
         NEW s \in {"new", "syn", "gone"}, NEW x \in {c, None, arg[p]},
         pcb[p] = "free" => x = c,
         pcb' = [pcb EXCEPT ![p] = s], arg' = [arg EXCEPT ![p] = x],
         UNCHANGED <<own, facade, accept, shown, lwip, disc>>,
         \/ UNCHANGED <<queue, impl>>
         \/ Reap(c) /\ queue' = Purge(queue, c)
  PROVE  StateInv' /\ Forward /\ Dialled(p)'
  <1>1. c \in Client /\ c \notin Accepted /\ None \notin Accepted
    BY ConstantsAssumption DEF Accepted
  <1>2. x \notin Accepted /\ x \in Client \cup {None}
    BY <1>1, StateTypes DEF Dialled
  <1>3. \A q \in Pcb : q # p => pcb'[q] = pcb[q] /\ arg'[q] = arg[q]
    BY StateTypes
  <1>4. pcb'[p] = s /\ arg'[p] = x
    BY StateTypes
  <1>5. \A q : Dialled(q) => Dialled(q)'
    BY <1>2, <1>3, <1>4 DEF Dialled
  <1>6. \A d \in Client : HeldByFacade(d) \/ d # c => impl'[d] = impl[d]
    BY <1>1, StateTypes DEF Reap
  <1>7. \A d \in Client : queue'[d] = queue[d] \/ queue'[d] = <<>>
    BY <1>1, StateTypes DEF Purge
  <1>8. \A d \in Accepted : impl'[d] = impl[d] /\ queue'[d] = queue[d] /\ d # c
    BY <1>1, StateTypes DEF Reap, Purge
  <1>9. Dialled(p)'
    BY <1>2, <1>4 DEF Dialled
  <1>10. Forward
    BY <1>5, <1>8 DEF Forward, Dialled
  <1>11. Unborn'
    BY <1>2, <1>3, <1>4, <1>8 DEF StateInv, Unborn
  <1>12. Undelivered' /\ FacadeHolds' /\ OwnedIsHeld'
    BY <1>6 DEF StateInv, Undelivered, FacadeHolds, OwnedIsHeld, HeldByFacade
  <1>13. DialsApart'
    <2>1. \A q \in Pcb : pcb'[q] \in {"new", "syn"} => arg'[q] \notin Accepted
      BY <1>2, <1>3, <1>4 DEF StateInv, DialsApart
    <2>2. \A d \in Dialer : own'[d] # None => Dialled(own'[d])
      BY DEF StateInv, DialsApart
    <2>3. ASSUME NEW d \in Client, NEW i \in 1..Len(queue'[d]), queue'[d][i].kind = "CONNECTED"
          PROVE  d \in Dialer /\ Dialled(queue'[d][i].pcb)
      <3>1. queue'[d] = queue[d]
        BY <1>7, <2>3, EmptySeq
      <3> QED
        BY <2>3, <3>1 DEF StateInv, DialsApart
    <2>4. \A d \in Dialer : own'[d] # None => Dialled(own[d])'
      BY <1>5, <2>2 DEF Dialled
    <2>5. ASSUME NEW d \in Client, NEW i \in 1..Len(queue'[d]), queue'[d][i].kind = "CONNECTED"
          PROVE  d \in Dialer /\ Dialled(queue[d][i].pcb)'
      BY <1>5, <2>3, <2>5 DEF Dialled
    <2> QED
      BY <2>1, <2>4, <2>5 DEF DialsApart
  <1>14. OwnedPcbIsLive'
    <2> SUFFICES ASSUME NEW d \in Accepted, own[d] # None
        PROVE  Live(own[d])' /\ arg'[own[d]] = d
      BY DEF OwnedPcbIsLive
    <2>1. Live(own[d]) /\ arg[own[d]] = d /\ own[d] \in Pcb
      BY StateTypes DEF StateInv, OwnedPcbIsLive
    <2>2. own[d] # p
      BY <2>1 DEF Live, LiveState, Dialled
    <2> QED
      BY <1>3, <2>1, <2>2 DEF Live
  <1>15. CallbackReachesOwner'
    <2> SUFFICES ASSUME NEW q \in Pcb, Live(q)', arg'[q] \in Accepted
        PROVE  impl'[arg'[q]] = "live" /\ own'[arg'[q]] = q
      BY DEF CallbackReachesOwner
    <2>1. q # p /\ Live(q) /\ arg'[q] = arg[q]
      BY <1>2, <1>3, <1>4 DEF Live
    <2> QED
      BY <1>8, <2>1 DEF StateInv, CallbackReachesOwner
  <1> QED
    BY <1>9, <1>10, <1>11, <1>12, <1>13, <1>14, <1>15 DEF StateInv

LEMMA PcbDial ==
  ASSUME TypeOK, FramesInPlace, StateInv, NEW t \in Task,
         Dial(t) \/ TcpConnect(t) \/ DialFailed(t)
  PROVE  StateInv' /\ Forward /\ Settled(t)
  <1>1. todo[t] # <<>>
    BY DEF At, Dial, TcpConnect, DialFailed
  <1>2. PICK c \in Client : c = Top(t).c
    BY <1>1, TopType
  <1>3. PICK p : p = Top(t).pcb
    OBVIOUS
  <1>4. InPlace(Top(t))
    BY <1>1, TopPlace
  <1>5. c \in Dialer
    BY <1>2, <1>4 DEF InPlace, DialOp, Dial, TcpConnect, DialFailed, At, Top
  <1>6. c \notin Accepted
    BY <1>5 DEF Accepted
  <1>7. Present(c)
    BY <1>6 DEF Present
  <1>8. Closes(t)
    BY DEF Closes, At, Top, Dial, TcpConnect, DialFailed
  <1>9. UNCHANGED <<own, facade, accept, shown, lwip, disc>>
    BY DEF Dial, TcpConnect, DialFailed
  <1>10. CASE Dial(t)
    <2>1. UNCHANGED <<impl, queue>>
      BY <1>10 DEF Dial
    <2>2. ASSUME NEW q \in Pcb, pcb[q] = "free", pcb' = [pcb EXCEPT ![q] = "new"],
                 arg' = [arg EXCEPT ![q] = c], Return(t, <<FP("tcpConnect", c, q)>>)
          PROVE  StateInv' /\ Forward /\ Settled(t)
      <3>1. StateInv' /\ Forward /\ Dialled(q)'
        BY <1>5, <1>9, <2>1, <2>2, StateDial
      <3> QED
        BY <1>1, <1>5, <1>7, <1>8, <2>2, <3>1, PlacedFrames, ReturnMoves DEF Settled
    <2>3. CASE Return(t, <<>>) /\ UNCHANGED <<pcb, arg>>
      <3>1. StateInv' /\ Forward
        BY <1>9, <2>1, <2>3, StateQuiet
      <3> QED
        BY <1>1, <1>7, <1>8, <2>3, <3>1, PlacedFrames, ReturnMoves DEF Settled
    <2> QED
      BY <1>2, <1>10, <2>2, <2>3 DEF Dial
  <1>11. CASE TcpConnect(t)
    <2>1. UNCHANGED <<arg, impl, queue>>
      BY <1>11 DEF TcpConnect
    <2>2. Dialled(p) /\ p \in Pcb
      BY <1>3, <1>4, <1>11 DEF TcpConnect, At, Top, InPlace, Dialled
    <2>3. CASE pcb' = [pcb EXCEPT ![p] = "syn"] /\ Return(t, <<>>)
      <3>1. arg' = [arg EXCEPT ![p] = arg[p]]
        BY <2>1, StateTypes
      <3>2. pcb[p] # "free"
        BY <2>2 DEF Dialled
      <3>3. StateInv' /\ Forward
        BY <1>5, <1>9, <2>1, <2>2, <2>3, <3>1, <3>2, StateDial
      <3> QED
        BY <1>1, <1>7, <1>8, <2>3, <3>3, PlacedFrames, ReturnMoves DEF Settled
    <2>4. CASE Return(t, <<FP("dialFailed", c, p)>>) /\ UNCHANGED pcb
      <3>1. StateInv' /\ Forward
        BY <1>9, <2>1, <2>4, StateQuiet
      <3>2. Dialled(p)'
        BY <2>1, <2>2, <2>4 DEF Dialled
      <3> QED
        BY <1>1, <1>5, <1>7, <1>8, <2>2, <2>4, <3>1, <3>2, PlacedFrames, ReturnMoves DEF Settled
    <2> QED
      BY <1>2, <1>3, <1>11, <2>3, <2>4 DEF TcpConnect
  <1>12. CASE DialFailed(t)
    <2>1. Dialled(p) /\ p \in Pcb /\ pcb[p] # "free"
      BY <1>3, <1>4, <1>12 DEF DialFailed, At, Top, InPlace, Dialled
    <2>2. arg' = [arg EXCEPT ![p] = None] /\ pcb' = [pcb EXCEPT ![p] = "gone"] /\ Return(t, <<>>)
      BY <1>3, <1>12 DEF DialFailed
    <2>3. Reap(c) /\ queue' = Purge(queue, c)
      BY <1>2, <1>12 DEF DialFailed, Reap, Purge
    <2>4. StateInv' /\ Forward
      BY <1>5, <1>9, <2>1, <2>2, <2>3, StateDial
    <2> QED
      BY <1>1, <1>7, <1>8, <2>2, <2>4, PlacedFrames, ReturnMoves DEF Settled
  <1> QED
    BY <1>10, <1>11, <1>12

LEMMA PcbConnected ==
  ASSUME TypeOK, FramesInPlace, StateInv, HandleConnected
  PROVE  StateInv' /\ Forward /\ Settled(Async)
  <1>1. /\ todo[Async] # <<>> /\ Async \in Task /\ Top(Async).op = "CONNECTED"
        /\ UNCHANGED <<pcb, arg, facade, impl, queue, accept, shown, lwip, disc>>
    BY DEF HandleConnected, Handler, At, Top, Task
  <1>2. PICK c \in Client : c = Top(Async).c
    BY <1>1, TopType
  <1>3. PICK p : p = Top(Async).pcb
    OBVIOUS
  <1>4. c \in Dialer /\ Dialled(p) /\ c \notin Accepted
    BY <1>1, <1>2, <1>3, TopPlace DEF InPlace, DialOp, Accepted
  <1>5. own' = [own EXCEPT ![c] = p]
    BY <1>2, <1>3 DEF HandleConnected
  <1>6. \A d \in Client : own'[d] = IF d = c THEN p ELSE own[d]
    BY <1>5, StateTypes
  <1>7. \A d \in Accepted : own'[d] = own[d]
    BY <1>4, <1>6, StateTypes
  <1>8. Forward /\ Unborn' /\ Undelivered' /\ FacadeHolds' /\ OwnedIsHeld'
    BY <1>1, <1>7, StateTypes
      DEF Forward, StateInv, Unborn, Undelivered, FacadeHolds, OwnedIsHeld, HeldByFacade
  <1>9. DialsApart'
    <2>1. \A q : Dialled(q) <=> Dialled(q)'
      BY <1>1 DEF Dialled
    <2>2. \A d \in Dialer : own'[d] # None => Dialled(own'[d])
      BY <1>4, <1>6, ConstantsAssumption DEF StateInv, DialsApart
    <2>3. \A d \in Dialer : own'[d] # None => Dialled(own[d])'
      BY <1>1, <2>2 DEF Dialled
    <2>4. ASSUME NEW d \in Client, NEW i \in 1..Len(queue'[d]), queue'[d][i].kind = "CONNECTED"
          PROVE  d \in Dialer /\ Dialled(queue[d][i].pcb)'
      BY <1>1, <2>4 DEF StateInv, DialsApart, Dialled
    <2> QED
      BY <1>1, <2>3, <2>4 DEF StateInv, DialsApart
  <1>10. OwnedPcbIsLive' /\ CallbackReachesOwner'
    BY <1>1, <1>7 DEF StateInv, OwnedPcbIsLive, CallbackReachesOwner, Live
  <1>11. Present(c) /\ Closes(Async)
    BY <1>1, <1>4 DEF Present, Closes
  <1>12. Return(Async, <<>>) \/ Return(Async, <<F("onConnect", c)>>)
    BY <1>2 DEF HandleConnected, Handler
  <1>13. Settled(Async)
    BY <1>1, <1>11, <1>12, ReturnMoves, PlacedFrames DEF Settled, PlacedOp, UserOp, DialOp
  <1> QED
    BY <1>8, <1>9, <1>10, <1>13 DEF StateInv

-----------------------------------------------------------------------------
(***************************************************************************)
(* The invariant.                                                           *)
(***************************************************************************)
LEMMA PcbInit == Init => PcbInv
  <1> SUFFICES ASSUME Init PROVE PcbInv
    OBVIOUS
  <1>1. /\ \A t \in Task : todo[t] = <<>> /\ Len(todo[t]) = 0
        /\ \A c \in Client : queue[c] = <<>> /\ Len(queue[c]) = 0 /\ own[c] = None /\ disc[c] = 0
        /\ \A p \in Pcb : pcb[p] = "free" /\ arg[p] = None
        /\ accept = {} /\ shown = Dialer /\ lwip = None
        /\ \A c \in Client : facade[c] = impl[c]
        /\ \A c \in Client : facade[c] \in {"live", "none"}
    BY DEF Init
  <1>2. FramesInPlace /\ DropAfterClose
    BY <1>1 DEF FramesInPlace, DropAfterClose
  <1>3. Unborn /\ Undelivered /\ FacadeHolds /\ OwnedIsHeld
    BY <1>1, ConstantsAssumption
      DEF Unborn, Undelivered, FacadeHolds, OwnedIsHeld, HeldByFacade, Accepted
  <1>4. DialsApart /\ OwnedPcbIsLive /\ CallbackReachesOwner
    BY <1>1, ConstantsAssumption
      DEF DialsApart, OwnedPcbIsLive, CallbackReachesOwner, Live, LiveState, Accepted
  <1> QED
    BY <1>2, <1>3, <1>4, DispatchInit DEF PcbInv, StateInv

LEMMA PcbNext ==
  ASSUME PcbInv, [Next]_vars
  PROVE  PcbInv'
  <1>1. TypeOK /\ FramesInPlace /\ DropAfterClose /\ StateInv /\ Async \in Task
    BY DEF PcbInv, DispatchInv, Task
  <1>2. DispatchInv'
    BY DispatchNext DEF PcbInv
  <1>3. CASE LwipStep
    <2>1. StateInv' /\ Forward
      BY <1>1, <1>3, PcbLwip
    <2>2. UNCHANGED todo
      BY <1>3 DEF LwipStep, TcpAccept, TcpConnected, TcpRecv, TcpFin, TcpSent, TcpPoll, TcpError,
        TcpErrorQueue
    <2>3. FramesInPlace'
      BY <1>1, <2>1, <2>2 DEF FramesInPlace, InPlace, Dialled, Forward
    <2>4. DropAfterClose'
      <3> SUFFICES ASSUME NEW t \in Task, NEW i \in 1..Len(todo[t]),
                          todo[t][i].op = "drop", todo[t][i].c \in Accepted
          PROVE  \/ own'[todo[t][i].c] = None
                 \/ \E j \in 1..(i - 1) :
                      todo[t][j].op = "tcpClose" /\ todo[t][j].c = todo[t][i].c
        BY <2>2 DEF DropAfterClose
      <3>1. impl[todo[t][i].c] # "none"
        BY <1>1 DEF FramesInPlace, InPlace
      <3> QED
        BY <1>1, <2>1, <3>1 DEF DropAfterClose, Forward
    <2> QED
      BY <1>2, <2>1, <2>3, <2>4 DEF PcbInv
  <1>4. ASSUME NEW t \in Task, StateInv', Forward, Settled(t)
        PROVE  PcbInv'
    BY <1>2, <1>4, PcbMove
  <1>5. ASSUME NEW t \in AppTask, NEW c \in Client, AppCall(t, c)
        PROVE  PcbInv'
    <2>1. t \in Task
      BY DEF Task
    <2> QED
      BY <1>1, <1>4, <1>5, <2>1, PcbAppCall
  <1>6. ASSUME NEW t \in Task, FrameStep(t)
        PROVE  PcbInv'
    <2>1. CASE UserCallback(t)
      BY <1>1, <1>4, <2>1, PcbUserCallback
    <2>2. CASE TcpClose(t) \/ TcpAbort(t)
      BY <1>1, <1>4, <2>2, PcbRelease
    <2>3. CASE Drop(t) \/ FreeEvent(t) \/ Destroyed(t)
      BY <1>4, <2>3, PcbLetGo
    <2>4. CASE AbortCheck(t) \/ ErrorTail(t) \/ ServerDiscard(t) \/ ConnectCheck(t) \/ Destroy(t)
      BY <1>1, <1>4, <2>4, PcbQuiet
    <2>5. CASE Dial(t) \/ TcpConnect(t) \/ DialFailed(t)
      BY <1>1, <1>4, <2>5, PcbDial
    <2> QED
      BY <1>6, <2>1, <2>2, <2>3, <2>4, <2>5 DEF FrameStep
  <1>7. CASE HandlerStep
    BY <1>1, <1>4, <1>7, PcbHandler, PcbConnected DEF HandlerStep
  <1>8. ASSUME NEW c \in Client, TakeEvent(c) \/ TakeAccept(c)
        PROVE  PcbInv'
    BY <1>1, <1>4, <1>8, PcbTakeEvent, PcbTakeAccept
  <1>9. CASE UNCHANGED vars
    <2>1. StateInv'
      BY <1>1, <1>9, StateQuiet DEF vars
    <2>2. FramesInPlace' /\ DropAfterClose'
      BY <1>1, <1>9 DEF vars, FramesInPlace, DropAfterClose, InPlace, Dialled
    <2> QED
      BY <1>2, <2>1, <2>2 DEF PcbInv
  <1> QED
    BY <1>3, <1>5, <1>6, <1>7, <1>8, <1>9 DEF Next

LEMMA PcbInvariant == Spec => []PcbInv
  BY PcbInit, PcbNext, PTL DEF Spec

\* No call of a server connection follows a pcb lwIP has freed: whatever the peer's
\* errors, close(), abort() and delete on any number of tasks do in between, a non-null
\* _pcb is a live connection bound to that very client.
THEOREM OwnedAlive == Spec => []OwnedPcbIsLive
  BY PcbInvariant, PTL DEF PcbInv, StateInv

\* And whatever lwIP calls back for a server connection reaches the impl that owns the
\* pcb, which exists: the raw pointer in tcp_arg never dangles there.
THEOREM CallbacksReach == Spec => []CallbackReachesOwner
  BY PcbInvariant, PTL DEF PcbInv, StateInv

-----------------------------------------------------------------------------
(***************************************************************************)
(* The frames that carry the end of a connection.                           *)
(***************************************************************************)
Carrier(f, c) == f.op \in CarrierOp /\ f.c = c

\* If c's end is carried at all, it is by the top frame of t.
Topmost(t, c) ==
  \A u \in Task : \A k \in 1..Len(todo[u]) : Carrier(todo[u][k], c) => u = t /\ k = 1

\* Nothing is left of c but its end.
Over(c) == own[c] = None /\ queue[c] = <<>> /\ lwip # c

StaysOver == \A c \in Accepted : impl[c] # "none" /\ Over(c) => Over(c)'

\* Of the pushed frames fs at most one carries the end of c, which no other frame does.
Fresh(t, fs) ==
  \A i \in 1..Len(fs), c \in Accepted : Carrier(fs[i], c) =>
    /\ \A j \in 1..Len(fs) : Carrier(fs[j], c) => j = i
    /\ Topmost(t, c) /\ Over(c)' /\ disc'[c] = 0

LEMMA CarriersMove ==
  ASSUME TypeOK, FramesInPlace, CarrierIsAlone, CarrierIsLast,
         NEW t \in Task, NEW fs \in Seq(Frame), Moves(t, fs), StaysOver, Fresh(t, fs),
         \A c \in Accepted : disc'[c] = disc[c] \/ Topmost(t, c)
  PROVE  CarrierIsAlone' /\ CarrierIsLast'
  <1>1. \A u \in Task : Len(todo[u]) \in Nat /\ Len(todo'[u]) \in Nat
    <2>1. \A u \in Task : todo[u] \in Seq(Frame)
      BY DEF TypeOK
    <2>2. fs \o Base(t) \in Seq(Frame)
      <3>1. Base(t) \in Seq(Frame)
        BY <2>1, HeadTailProperties, EmptySeq DEF Base
      <3> QED
        BY <3>1, ConcatProperties
    <2>3. \A u \in Task : todo'[u] \in Seq(Frame)
      BY <2>1, <2>2 DEF Moves, TypeOK
    <2> QED
      BY <2>1, <2>3, LenProperties
  <1>2. \A u \in Task : \A i \in 1..Len(todo'[u]) :
          \/ u = t /\ i \in 1..Len(fs) /\ todo'[u][i] = fs[i]
          \/ \E k : Kept(u, i, k) /\ ~ (u = t /\ k = 1)
    BY MovesElements
  <1>3. ASSUME NEW u \in Task, NEW i \in 1..Len(todo'[u]), NEW c \in Accepted,
               Carrier(todo'[u][i], c)
        PROVE  \/ u = t /\ i \in 1..Len(fs) /\ Carrier(fs[i], c)
               \/ \E k \in 1..Len(todo[u]) :
                    /\ Carrier(todo[u][k], c) /\ ~ (u = t /\ k = 1)
                    /\ Len(todo'[u]) - i = Len(todo[u]) - k
    BY <1>2, <1>3 DEF Kept
  <1>4. ASSUME NEW u \in Task, NEW i \in 1..Len(todo'[u]), NEW c \in Accepted,
               Carrier(todo'[u][i], c)
        PROVE  Over(c)' /\ disc'[c] = 0
    <2>1. CASE u = t /\ i \in 1..Len(fs) /\ Carrier(fs[i], c)
      BY <2>1 DEF Fresh
    <2>2. ASSUME NEW k \in 1..Len(todo[u]), Carrier(todo[u][k], c), ~ (u = t /\ k = 1)
          PROVE  Over(c)' /\ disc'[c] = 0
      <3>1. Over(c) /\ disc[c] = 0
        BY <2>2 DEF CarrierIsLast, Carrier, Over
      <3>2. impl[c] # "none"
        BY <2>2 DEF FramesInPlace, InPlace, Carrier
      <3>3. ~ Topmost(t, c)
        BY <2>2 DEF Topmost
      <3> QED
        BY <3>1, <3>2, <3>3 DEF StaysOver
    <2> QED
      BY <1>3, <1>4, <2>1, <2>2
  <1>5. CarrierIsLast'
    BY <1>4 DEF CarrierIsLast, Carrier, Over
  <1>6. ASSUME NEW u \in Task, NEW v \in Task, NEW c \in Accepted,
               NEW i \in 1..Len(todo'[u]), NEW j \in 1..Len(todo'[v]),
               Carrier(todo'[u][i], c), Carrier(todo'[v][j], c)
        PROVE  u = v /\ i = j
    <2>1. CASE /\ u = t /\ i \in 1..Len(fs) /\ Carrier(fs[i], c)
               /\ v = t /\ j \in 1..Len(fs) /\ Carrier(fs[j], c)
      BY <2>1 DEF Fresh
    <2>2. ASSUME NEW k \in 1..Len(todo[u]), Carrier(todo[u][k], c),
                 NEW l \in 1..Len(todo[v]), Carrier(todo[v][l], c),
                 Len(todo'[u]) - i = Len(todo[u]) - k, Len(todo'[v]) - j = Len(todo[v]) - l
          PROVE  u = v /\ i = j
      <3>1. /\ todo[u][k].op \in CarrierOp /\ todo[v][l].op \in CarrierOp
            /\ todo[u][k].c = todo[v][l].c /\ todo[u][k].c \in Accepted
        BY <2>2 DEF Carrier
      <3>2. u = v /\ k = l
        BY <2>2, <3>1 DEF CarrierIsAlone
      <3> QED
        BY <1>1, <2>2, <3>2
    <2>3. ASSUME NEW n \in 1..Len(fs), Carrier(fs[n], c)
          PROVE  Topmost(t, c)
      BY <2>3 DEF Fresh
    <2> DEFINE New(w, h) == w = t /\ h \in 1..Len(fs) /\ Carrier(fs[h], c)
               Old(w, h) == \E k \in 1..Len(todo[w]) :
                              /\ Carrier(todo[w][k], c) /\ ~ (w = t /\ k = 1)
                              /\ Len(todo'[w]) - h = Len(todo[w]) - k
    <2>4. (New(u, i) \/ Old(u, i)) /\ (New(v, j) \/ Old(v, j))
      BY <1>3, <1>6
    <2>5. ASSUME NEW w \in Task, NEW h, Old(w, h)
          PROVE  ~ Topmost(t, c)
      BY <2>5 DEF Topmost
    <2>6. CASE New(u, i) /\ New(v, j)
      BY <2>1, <2>6
    <2>7. CASE Old(u, i) /\ Old(v, j)
      BY <2>2, <2>7
    <2>8. CASE (New(u, i) /\ Old(v, j)) \/ (Old(u, i) /\ New(v, j))
      <3>1. Topmost(t, c)
        BY <2>3, <2>8
      <3>2. ~ Topmost(t, c)
        <4> HIDE DEF New, Old
        <4> QED
          BY <2>5, <2>8
      <3> QED
        BY <3>1, <3>2
    <2> HIDE DEF New, Old
    <2> QED
      BY <2>4, <2>6, <2>7, <2>8
  <1>7. CarrierIsAlone'
    BY <1>6 DEF CarrierIsAlone, Carrier
  <1> QED
    BY <1>5, <1>7

\* The end is carried by the top frame of t.
LEMMA TopCarrier ==
  ASSUME TypeOK, CarrierIsAlone, CarrierIsLast, NEW t \in Task, todo[t] # <<>>,
         NEW c \in Accepted, Carrier(Top(t), c)
  PROVE  Topmost(t, c) /\ Over(c) /\ disc[c] = 0
  <1>1. todo[t] \in Seq(Frame)
    BY DEF TypeOK
  <1>2. Top(t) = todo[t][1] /\ 1 \in 1..Len(todo[t])
    BY <1>1, LenProperties, EmptySeq DEF Top
  <1>3. Topmost(t, c)
    BY <1>2 DEF Topmost, CarrierIsAlone, Carrier
  <1> QED
    BY <1>2, <1>3 DEF CarrierIsLast, Carrier, Over

\* The end of a connection of which something is left is not carried.
LEMMA NoCarrier ==
  ASSUME CarrierIsLast, NEW c \in Accepted, ~ Over(c), NEW t \in Task
  PROVE  Topmost(t, c)
  BY DEF CarrierIsLast, Carrier, Over, Topmost

-----------------------------------------------------------------------------
(***************************************************************************)
(* Which frames steps push.                                                 *)
(***************************************************************************)
Meek(fs) == \A i \in 1..Len(fs) : fs[i].op \notin CarrierOp

LEMMA MeekFresh ==
  ASSUME NEW t \in Task, NEW fs, Meek(fs)
  PROVE  Fresh(t, fs)
  BY DEF Meek, Fresh, Carrier

MeekOp == (EventKind \cup UserOp \cup CallOp) \ CarrierOp

LEMMA MeekFrames ==
  ASSUME NEW c \in Client
  PROVE  /\ <<>> \in Seq(Frame) /\ Meek(<<>>)
         /\ DeleteWork(c) \in Seq(Frame) /\ Meek(DeleteWork(c))
         /\ <<F("abort", c)>> \o DeleteWork(c) \in Seq(Frame)
         /\ Meek(<<F("abort", c)>> \o DeleteWork(c))
         /\ \A op \in MeekOp : <<F(op, c)>> \in Seq(Frame) /\ Meek(<<F(op, c)>>)
         /\ \A op, op2 \in MeekOp :
              <<F(op, c)>> \o <<F(op2, c)>> \in Seq(Frame) /\ Meek(<<F(op, c)>> \o <<F(op2, c)>>)
         /\ \A op \in MeekOp, p \in Pcb \cup {None} :
              <<FP(op, c, p)>> \in Seq(Frame) /\ Meek(<<FP(op, c, p)>>)
  <1>1. /\ <<>> \in Seq(Frame) /\ DeleteWork(c) \in Seq(Frame)
        /\ \A op \in MeekOp, q \in Pcb \cup {None} :
             <<FP(op, c, q)>> \in Seq(Frame) /\ <<F(op, c)>> \in Seq(Frame)
    BY PushedType DEF MeekOp
  <1>2. Meek(<<>>) /\ Meek(DeleteWork(c))
    BY DEF Meek, DeleteWork, F, CarrierOp
  <1>3. \A op \in MeekOp, p \in Pcb \cup {None} : Meek(<<F(op, c)>>) /\ Meek(<<FP(op, c, p)>>)
    BY DEF Meek, MeekOp, F, FP
  <1>4. ASSUME NEW fs \in Seq(Frame), NEW gs \in Seq(Frame), Meek(fs), Meek(gs)
        PROVE  fs \o gs \in Seq(Frame) /\ Meek(fs \o gs)
    <2>1. /\ fs \o gs \in Seq(Frame)
          /\ Len(fs \o gs) = Len(fs) + Len(gs)
          /\ \A i \in 1..(Len(fs) + Len(gs)) :
               (fs \o gs)[i] = IF i <= Len(fs) THEN fs[i] ELSE gs[i - Len(fs)]
      BY ConcatProperties
    <2>2. Len(fs) \in Nat /\ Len(gs) \in Nat
      BY LenProperties
    <2> QED
      BY <1>4, <2>1, <2>2 DEF Meek
  <1>5. "abort" \in MeekOp
    BY DEF MeekOp, CallOp, CarrierOp
  <1> QED
    BY <1>1, <1>2, <1>3, <1>4, <1>5

\* The end of c changes hands: the pair f, g has one frame that carries it.
LEMMA PairFresh ==
  ASSUME NEW t \in Task, NEW c \in Client, NEW f \in Frame, NEW g \in Frame, f.c = c, g.c = c,
         ~ (f.op \in CarrierOp /\ g.op \in CarrierOp),
         c \in Accepted => Topmost(t, c) /\ Over(c)' /\ disc'[c] = 0
  PROVE  <<f, g>> \in Seq(Frame) /\ Fresh(t, <<f, g>>)
  <1> DEFINE fs == <<f, g>>
  <1>1. fs \in Seq(Frame) /\ Len(fs) = 2 /\ fs[1] = f /\ fs[2] = g
    OBVIOUS
  <1> HIDE DEF fs
  <1>2. Fresh(t, fs)
    <2> SUFFICES ASSUME NEW i \in 1..2, NEW d \in Accepted, Carrier(fs[i], d)
        PROVE  /\ \A j \in 1..2 : Carrier(fs[j], d) => j = i
               /\ Topmost(t, d) /\ Over(d)' /\ disc'[d] = 0
      BY <1>1 DEF Fresh
    <2>1. d = c
      BY <1>1 DEF Carrier
    <2> QED
      BY <1>1, <2>1 DEF Carrier
  <1> QED
    BY <1>1, <1>2 DEF fs

Carries(t) == \E fs \in Seq(Frame) : Moves(t, fs) /\ Fresh(t, fs)

-----------------------------------------------------------------------------
(***************************************************************************)
(* The invariant about the end, step by step.                               *)
(***************************************************************************)
EndCore == CarrierIsAlone /\ CarrierIsLast /\ OneErrorQueued /\ AtMostOneDisconnect

\* Steps that touch nothing of a server connection but the stacks.
SameEnds ==
  /\ \A c \in Accepted : own'[c] = own[c] /\ queue'[c] = queue[c] /\ disc'[c] = disc[c]
  /\ lwip' = lwip

LEMMA EndIdle ==
  ASSUME TypeOK, FramesInPlace, EndCore, NEW t \in Task, SameEnds, Carries(t)
  PROVE  EndCore'
  <1>1. PICK fs \in Seq(Frame) : Moves(t, fs) /\ Fresh(t, fs)
    BY DEF Carries
  <1>2. StaysOver
    BY DEF SameEnds, StaysOver, Over
  <1>3. CarrierIsAlone' /\ CarrierIsLast'
    BY <1>1, <1>2, CarriersMove DEF EndCore, SameEnds
  <1>4. OneErrorQueued'
    BY DEF EndCore, OneErrorQueued, SameEnds
  <1>5. AtMostOneDisconnect'
    BY DEF EndCore, AtMostOneDisconnect, SameEnds
  <1> QED
    BY <1>3, <1>4, <1>5 DEF EndCore

LEMMA EndIdleSteps ==
  ASSUME TypeOK, FramesInPlace, EndCore, NEW t \in Task,
         \/ AbortCheck(t) \/ ServerDiscard(t) \/ ConnectCheck(t) \/ Destroy(t)
         \/ Drop(t) \/ FreeEvent(t) \/ Destroyed(t) \/ Dial(t) \/ TcpConnect(t) \/ DialFailed(t)
  PROVE  EndCore'
  <1>1. todo[t] # <<>>
    BY DEF At, AbortCheck, ServerDiscard, ConnectCheck, Destroy, Drop, FreeEvent, Destroyed,
      Dial, TcpConnect, DialFailed
  <1>2. PICK c \in Client : c = Top(t).c
    BY <1>1, TopType
  <1>3. Top(t).pcb \in Pcb \cup {None}
    BY <1>1, TopType
  <1>4. SameEnds
    <2>1. CASE DialFailed(t)
      <3>1. c \notin Accepted
        BY <1>1, <1>2, <2>1, TopPlace DEF InPlace, DialOp, DialFailed, At, Top, Accepted
      <3> QED
        BY <1>2, <2>1, <3>1, StateTypes DEF DialFailed, Purge, SameEnds
    <2>2. CASE ~ DialFailed(t)
      BY <2>2 DEF SameEnds, AbortCheck, ServerDiscard, ConnectCheck, Destroy, Drop, FreeEvent,
        Destroyed, Dial, TcpConnect
    <2> QED
      BY <2>1, <2>2
  <1>5. \E fs \in Seq(Frame) : Return(t, fs) /\ Meek(fs)
    <2>1. CASE AbortCheck(t) \/ ServerDiscard(t) \/ ConnectCheck(t) \/ DialFailed(t)
      <3>1. Return(t, <<>>) \/ Return(t, <<F("tcpAbort", c)>>) \/ Return(t, <<F("dial", c)>>)
        BY <1>2, <2>1 DEF AbortCheck, ServerDiscard, ConnectCheck, DialFailed
      <3> QED
        BY <3>1, MeekFrames DEF MeekOp, CallOp, CarrierOp
    <2>2. CASE Drop(t) \/ FreeEvent(t) \/ Destroyed(t)
      <3>1. Return(t, <<>>) \/ Return(t, <<F("destroy", c)>>)
        BY <1>2, <2>2 DEF Drop, FreeEvent, Destroyed, LetGo
      <3> QED
        BY <3>1, MeekFrames DEF MeekOp, CallOp, CarrierOp
    <2>3. CASE Destroy(t)
      <3>1. \/ Return(t, <<>> \o <<F("destroyed", c)>>)
            \/ Return(t, <<F("tcpClose", c)>> \o <<F("destroyed", c)>>)
        BY <1>2, <2>3 DEF Destroy
      <3>2. <<>> \o <<F("destroyed", c)>> = <<F("destroyed", c)>>
        BY PushedType, ConcatEmptySeq DEF CallOp
      <3> QED
        BY <3>1, <3>2, MeekFrames DEF MeekOp, CallOp, CarrierOp
    <2>4. CASE Dial(t) \/ TcpConnect(t)
      <3>1. \/ Return(t, <<>>)
            \/ \E op \in {"tcpConnect", "dialFailed"}, q \in Pcb \cup {None} :
                 Return(t, <<FP(op, c, q)>>)
        BY <1>2, <1>3, <2>4 DEF Dial, TcpConnect
      <3> QED
        BY <3>1, MeekFrames DEF MeekOp, CallOp, CarrierOp
    <2> QED
      BY <2>1, <2>2, <2>3, <2>4
  <1>6. Carries(t)
    BY <1>1, <1>5, ReturnMoves, MeekFresh DEF Carries
  <1> QED
    BY <1>4, <1>6, EndIdle

\* The carrier frames that hand the end on: ERROR to errorTail, errorTail to onDisconnect.
LEMMA EndHandOn ==
  ASSUME TypeOK, FramesInPlace, EndCore, NEW t \in Task, ErrorTail(t) \/ (t = Async /\ HandleError)
  PROVE  EndCore'
  <1>1. /\ todo[t] # <<>> /\ Top(t).op \in CarrierOp
        /\ UNCHANGED <<pcb, arg, own, facade, impl, queue, accept, shown, lwip, disc>>
    BY DEF ErrorTail, HandleError, Handler, At, Top, CarrierOp
  <1>2. PICK c \in Client : c = Top(t).c
    BY <1>1, TopType
  <1>3. c \in Accepted => Topmost(t, c) /\ Over(c) /\ disc[c] = 0
    BY <1>1, <1>2, TopCarrier DEF EndCore, Carrier
  <1>4. SameEnds
    BY <1>1 DEF SameEnds
  <1>5. c \in Accepted => Topmost(t, c) /\ Over(c)' /\ disc'[c] = 0
    BY <1>1, <1>3 DEF Over
  <1>6. \/ Return(t, <<>>) \/ Return(t, <<F("onDisconnect", c), F("serverDiscard", c)>>)
        \/ Return(t, <<F("onError", c), F("errorTail", c)>>)
    BY <1>2 DEF ErrorTail, HandleError, Handler
  <1>7. /\ F("onDisconnect", c) \in Frame /\ F("serverDiscard", c) \in Frame
        /\ F("onError", c) \in Frame /\ F("errorTail", c) \in Frame
    BY FrameType DEF UserOp, CallOp
  <1>8. \E fs \in Seq(Frame) : Return(t, fs) /\ Fresh(t, fs)
    <2>1. CASE Return(t, <<>>)
      BY <2>1, MeekFrames, MeekFresh
    <2>2. CASE Return(t, <<F("onDisconnect", c), F("serverDiscard", c)>>)
      <3>1. /\ F("onDisconnect", c).c = c /\ F("serverDiscard", c).c = c
            /\ F("serverDiscard", c).op \notin CarrierOp
        BY DEF F, CarrierOp
      <3> QED
        BY <1>5, <1>7, <2>2, <3>1, PairFresh
    <2>3. CASE Return(t, <<F("onError", c), F("errorTail", c)>>)
      <3>1. /\ F("onError", c).c = c /\ F("errorTail", c).c = c
            /\ F("onError", c).op \notin CarrierOp
        BY DEF F, CarrierOp
      <3> QED
        BY <1>5, <1>7, <2>3, <3>1, PairFresh
    <2> QED
      BY <1>6, <2>1, <2>2, <2>3
  <1>9. Carries(t)
    BY <1>1, <1>8, ReturnMoves DEF Carries
  <1> QED
    BY <1>4, <1>9, EndIdle

LEMMA EndHandler ==
  ASSUME TypeOK, FramesInPlace, EndCore, HandlerStep
  PROVE  EndCore'
  <1>1. todo[Async] # <<>> /\ Async \in Task
    BY DEF HandlerStep, HandleRecv, HandleFin, HandleSent, HandlePoll, HandleError,
      HandleConnected, Handler, At, Task
  <1>2. PICK c \in Client : c = Top(Async).c
    BY <1>1, TopType
  <1>3. CASE HandleError
    BY <1>1, <1>3, EndHandOn
  <1>4. CASE HandleRecv \/ HandleFin \/ HandleSent \/ HandlePoll \/ HandleConnected
    <2>1. SameEnds
      <3>1. CASE HandleConnected
        <4>1. c \notin Accepted
          BY <1>1, <1>2, <3>1, TopPlace
            DEF InPlace, DialOp, HandleConnected, Handler, At, Top, Accepted
        <4> QED
          BY <1>2, <3>1, <4>1, StateTypes DEF HandleConnected, Handler, SameEnds
      <3>2. CASE ~ HandleConnected
        BY <1>4, <3>2 DEF HandleRecv, HandleFin, HandleSent, HandlePoll, Handler, SameEnds
      <3> QED
        BY <3>1, <3>2
    <2>2. Return(Async, <<>>) \/ \E op \in MeekOp : Return(Async, <<F(op, c)>>)
      <3>1. CASE HandleRecv \/ HandleConnected
        BY <1>2, <3>1 DEF HandleRecv, HandleConnected, Handler, MeekOp, UserOp, CarrierOp
      <3>2. CASE HandleFin \/ HandleSent
        BY <1>2, <3>2 DEF HandleFin, HandleSent, Handler, IfOwned, MeekOp, UserOp, CallOp, CarrierOp
      <3>3. CASE HandlePoll
        BY <1>2, <3>3 DEF HandlePoll, Handler, MeekOp, UserOp, CallOp, CarrierOp
      <3> QED
        BY <1>4, <3>1, <3>2, <3>3
    <2>3. \E fs \in Seq(Frame) : Return(Async, fs) /\ Meek(fs)
      BY <2>2, MeekFrames
    <2>4. Carries(Async)
      BY <1>1, <2>3, ReturnMoves, MeekFresh DEF Carries
    <2> QED
      BY <1>1, <2>1, <2>4, EndIdle
  <1> QED
    BY <1>3, <1>4 DEF HandlerStep

\* What the application pushes carries nothing.
LEMMA EndReaction ==
  ASSUME NEW t \in Task, NEW c \in Client, Reaction(t, c, Base(t))
  PROVE  \E fs \in Seq(Frame) : Moves(t, fs) /\ Meek(fs)
  <1>1. PICK fs \in Seq(Frame) :
          /\ Moves(t, fs)
          /\ fs \in {<<F(op, c)>> : op \in {"tcpClose", "abort", "connect"}} \cup {DeleteWork(c)}
    BY ReactionMoves
  <1>2. Meek(fs)
    BY <1>1, MeekFrames DEF MeekOp, CallOp, CarrierOp
  <1> QED
    BY <1>1, <1>2

LEMMA EndAppCall ==
  ASSUME TypeOK, FramesInPlace, EndCore, NEW t \in AppTask, NEW c \in Client, AppCall(t, c)
  PROVE  EndCore'
  <1>1. t \in Task /\ Reaction(t, c, Base(t)) /\ SameEnds
    BY DEF AppCall, Task, Base, SameEnds
  <1>2. Carries(t)
    BY <1>1, EndReaction, MeekFresh DEF Carries
  <1> QED
    BY <1>1, <1>2, EndIdle

\* The end is told: the frame that carried it is gone, the count is one.
LEMMA EndUserCallback ==
  ASSUME TypeOK, FramesInPlace, EndCore, NEW t \in Task, UserCallback(t)
  PROVE  EndCore'
  <1>1. PICK c \in Client : c = Top(t).c
    BY TopType DEF UserCallback
  <1>2. /\ todo[t] # <<>> /\ UNCHANGED <<pcb, arg, own, impl, queue, accept, lwip>>
        /\ \/ disc' = disc
           \/ Top(t).op = "onDisconnect" /\ disc' = [disc EXCEPT ![c] = @ + 1]
        /\ shown' = shown \cup {c} \/ shown' = shown
    BY <1>1 DEF UserCallback
  <1>3. Carries(t)
    <2>1. CASE Return(t, <<>>)
      BY <1>2, <2>1, ReturnMoves, MeekFrames, <1>1, MeekFresh DEF Carries
    <2>2. ASSUME NEW d \in shown', Reaction(t, d, Tail(todo[t]))
          PROVE  Carries(t)
      <3>1. d \in Client /\ Reaction(t, d, Base(t))
        BY <1>2, <2>2 DEF Base, TypeOK
      <3> QED
        BY <3>1, EndReaction, MeekFresh DEF Carries
    <2> QED
      BY <2>1, <2>2 DEF UserCallback
  <1>4. CASE disc' = disc
    <2>1. SameEnds
      BY <1>2, <1>4 DEF SameEnds
    <2> QED
      BY <1>3, <2>1, EndIdle
  <1>5. CASE Top(t).op = "onDisconnect" /\ disc' = [disc EXCEPT ![c] = @ + 1]
    <2>1. c \in Accepted => Topmost(t, c) /\ Over(c) /\ disc[c] = 0
      BY <1>1, <1>2, <1>5, TopCarrier DEF EndCore, Carrier, CarrierOp
    <2>2. \A d \in Accepted : d # c => disc'[d] = disc[d]
      BY <1>5, StateTypes DEF TypeOK
    <2>3. c \in Accepted => disc'[c] = 1
      BY <1>5, <2>1, StateTypes DEF TypeOK
    <2>4. StaysOver
      BY <1>2 DEF StaysOver, Over
    <2>5. PICK fs \in Seq(Frame) : Moves(t, fs) /\ Fresh(t, fs)
      BY <1>3 DEF Carries
    <2>6. \A d \in Accepted : disc'[d] = disc[d] \/ Topmost(t, d)
      BY <2>1, <2>2
    <2>7. CarrierIsAlone' /\ CarrierIsLast'
      BY <2>4, <2>5, <2>6, CarriersMove DEF EndCore
    <2>8. OneErrorQueued'
      BY <1>2, <2>1, <2>2, <2>3 DEF EndCore, OneErrorQueued, Over
    <2>9. AtMostOneDisconnect'
      BY <2>2, <2>3 DEF EndCore, AtMostOneDisconnect
    <2> QED
      BY <2>7, <2>8, <2>9 DEF EndCore
  <1> QED
    BY <1>2, <1>4, <1>5

\* close() and abort(): whatever was left of c, its pcb or its queued events, gives way
\* to the frame that carries its end.
LEMMA EndRelease ==
  ASSUME TypeOK, FramesInPlace, EndCore, NEW t \in Task, TcpClose(t) \/ TcpAbort(t)
  PROVE  EndCore'
  <1>1. todo[t] # <<>> /\ UNCHANGED <<facade, accept, shown, lwip, disc>>
    BY DEF At, TcpClose, TcpAbort
  <1>2. PICK c \in Client : c = Top(t).c
    BY <1>1, TopType
  <1>3. /\ \A d \in Client : own'[d] = IF d = c THEN None ELSE own[d]
        /\ \A d \in Client : queue'[d] = IF d = c THEN <<>> ELSE queue[d]
    BY <1>2, StateTypes DEF TcpClose, TcpAbort, Release, Forget, Purge
  <1>4. StaysOver
    BY <1>1, <1>3, StateTypes DEF StaysOver, Over
  <1>5. EndsSomething(c) /\ c \in Accepted => ~ Over(c) /\ lwip # c /\ disc[c] = 0
    BY DEF EndsSomething, Over, EndCore, OneErrorQueued
  <1>6. EndsSomething(c) /\ c \in Accepted => Topmost(t, c) /\ Over(c)' /\ disc'[c] = 0
    BY <1>1, <1>3, <1>5, NoCarrier DEF Over, EndCore
  <1>7. \/ Return(t, <<>>)
        \/ EndsSomething(c) /\ Return(t, <<F("onDisconnect", c), F("serverDiscard", c)>>)
        \/ EndsSomething(c) /\ Return(t, <<F("onError", c), F("errorTail", c)>>)
    BY <1>2 DEF TcpClose, TcpAbort, EndsSomething
  <1>8. /\ F("onDisconnect", c) \in Frame /\ F("serverDiscard", c) \in Frame
        /\ F("onError", c) \in Frame /\ F("errorTail", c) \in Frame
    BY FrameType DEF UserOp, CallOp
  <1>9. \E fs \in Seq(Frame) : Return(t, fs) /\ Fresh(t, fs)
    <2>1. CASE Return(t, <<>>)
      BY <2>1, MeekFrames, MeekFresh
    <2>2. CASE EndsSomething(c) /\ Return(t, <<F("onDisconnect", c), F("serverDiscard", c)>>)
      <3>1. /\ F("onDisconnect", c).c = c /\ F("serverDiscard", c).c = c
            /\ F("serverDiscard", c).op \notin CarrierOp
        BY DEF F, CarrierOp
      <3> QED
        BY <1>6, <1>8, <2>2, <3>1, PairFresh
    <2>3. CASE EndsSomething(c) /\ Return(t, <<F("onError", c), F("errorTail", c)>>)
      <3>1. /\ F("onError", c).c = c /\ F("errorTail", c).c = c
            /\ F("onError", c).op \notin CarrierOp
        BY DEF F, CarrierOp
      <3> QED
        BY <1>6, <1>8, <2>3, <3>1, PairFresh
    <2> QED
      BY <1>7, <2>1, <2>2, <2>3
  <1>10. PICK fs \in Seq(Frame) : Moves(t, fs) /\ Fresh(t, fs)
    BY <1>1, <1>9, ReturnMoves
  <1>11. CarrierIsAlone' /\ CarrierIsLast'
    BY <1>1, <1>4, <1>10, CarriersMove DEF EndCore
  <1>12. OneErrorQueued' /\ AtMostOneDisconnect'
    <2>1. \A d \in Accepted : own'[d] # None => d # c
      BY <1>3, StateTypes
    <2>2. \A d \in Accepted : lwip'= d => queue'[d] = <<>> /\ own'[d] = None
      BY <1>1, <1>3, StateTypes DEF EndCore, OneErrorQueued
    <2>3. \A d \in Accepted : d # c => own'[d] = own[d] /\ queue'[d] = queue[d]
      BY <1>3, StateTypes
    <2>4. c \in Accepted => own'[c] = None /\ queue'[c] = <<>>
      BY <1>3
    <2> QED
      BY <1>1, <2>2, <2>3, <2>4 DEF EndCore, OneErrorQueued, AtMostOneDisconnect
  <1> QED
    BY <1>11, <1>12 DEF EndCore

\* An ERROR event is taken when it is all that is left of its client.
LEMMA EndTakeEvent ==
  ASSUME TypeOK, FramesInPlace, EndCore, NEW c \in Client, TakeEvent(c)
  PROVE  EndCore'
  <1>1. /\ todo[Async] = <<>> /\ queue[c] # <<>> /\ Async \in Task
        /\ queue' = [queue EXCEPT ![c] = Tail(@)]
        /\ UNCHANGED <<pcb, arg, own, facade, impl, accept, shown, lwip, disc>>
    BY DEF TakeEvent, Task
  <1>2. queue[c] \in Seq(Event)
    BY StateTypes
  <1>3. PICK e \in Event : e = Head(queue[c])
    BY <1>1, <1>2, HeadTailProperties
  <1>4. e = queue[c][1] /\ 1 \in 1..Len(queue[c])
    BY <1>1, <1>2, <1>3, LenProperties, EmptySeq
  <1>5. /\ Tail(queue[c]) \in Seq(Event) /\ Len(Tail(queue[c])) = Len(queue[c]) - 1
        /\ \A i \in 1..Len(Tail(queue[c])) : Tail(queue[c])[i] = queue[c][i + 1]
    BY <1>1, <1>2, HeadTailProperties
  <1>6. \A d \in Client : queue'[d] = IF d = c THEN Tail(queue[c]) ELSE queue[d]
    BY <1>1, StateTypes
  <1>7. c \in Accepted => ~ Over(c) /\ lwip # c /\ disc[c] = 0
    BY <1>1 DEF Over, EndCore, OneErrorQueued
  <1>8. ASSUME c \in Accepted, own[c] = None
        PROVE  e.kind = "ERROR" /\ queue'[c] = <<>>
    <2>1. queue[c] = <<Ev("ERROR", None)>>
      BY <1>1, <1>8 DEF EndCore, OneErrorQueued
    <2>2. Tail(queue[c]) = <<>>
      BY <2>1
    <2> QED
      BY <1>4, <1>6, <2>1, <2>2 DEF Ev
  <1>9. c \in Accepted /\ own[c] # None => e.kind # "ERROR"
    BY <1>4 DEF EndCore, OneErrorQueued
  <1>10. StaysOver
    BY <1>1, <1>6, StateTypes DEF StaysOver, Over
  <1>11. c \in Accepted => Topmost(Async, c) /\ (own[c] = None => Over(c)' /\ disc'[c] = 0)
    BY <1>1, <1>7, <1>8, NoCarrier DEF Over, EndCore
  <1>12. \E fs \in Seq(Frame) : Moves(Async, fs) /\ Fresh(Async, fs)
    <2> DEFINE f == FP(e.kind, c, e.pcb)
               g == F("free", c)
               fs == <<f, g>>
    <2>1. f \in Frame /\ g \in Frame /\ f.c = c /\ g.c = c /\ g.op \notin CarrierOp
      BY FrameType DEF F, FP, CallOp, Event, CarrierOp
    <2>2. fs \in Seq(Frame) /\ fs \o <<>> = fs
      BY <2>1, ConcatEmptySeq
    <2>3. todo' = [todo EXCEPT ![Async] = fs]
      BY <1>3 DEF TakeEvent
    <2>4. Moves(Async, fs)
      BY <1>1, <2>2, <2>3 DEF Moves, Base
    <2>5. Fresh(Async, fs)
      <3>1. CASE c \in Accepted /\ own[c] # None
        <4>1. e.kind \notin CarrierOp
          BY <1>9, <3>1 DEF CarrierOp, Event, EventKind
        <4>2. Meek(fs)
          BY <4>1, <2>1 DEF Meek, FP
        <4> QED
          BY <1>1, <4>2, MeekFresh
      <3>2. CASE ~ (c \in Accepted /\ own[c] # None)
        BY <1>1, <1>11, <2>1, <3>2, PairFresh
      <3> QED
        BY <3>1, <3>2
    <2> QED
      BY <2>2, <2>4, <2>5
  <1>13. CarrierIsAlone' /\ CarrierIsLast'
    BY <1>1, <1>10, <1>12, CarriersMove DEF EndCore
  <1>14. OneErrorQueued'
    <2>1. \A d \in Accepted : d # c => own'[d] = own[d] /\ queue'[d] = queue[d]
      BY <1>1, <1>6, StateTypes
    <2>2. ASSUME c \in Accepted, own[c] # None
          PROVE  \A i \in 1..Len(queue'[c]) : queue'[c][i].kind # "ERROR"
      <3> SUFFICES ASSUME NEW i \in 1..Len(queue'[c])
          PROVE  queue'[c][i].kind # "ERROR"
        OBVIOUS
      <3>1. i \in 1..Len(Tail(queue[c])) /\ queue'[c][i] = queue[c][i + 1]
        BY <1>5, <1>6
      <3>2. i + 1 \in 1..Len(queue[c])
        BY <1>2, <1>5, <3>1, LenProperties
      <3> QED
        BY <2>2, <3>1, <3>2 DEF EndCore, OneErrorQueued
    <2> QED
      BY <1>1, <1>7, <1>8, <2>1, <2>2 DEF EndCore, OneErrorQueued
  <1>15. AtMostOneDisconnect'
    BY <1>1 DEF EndCore, AtMostOneDisconnect
  <1> QED
    BY <1>13, <1>14, <1>15 DEF EndCore

LEMMA EndTakeAccept ==
  ASSUME TypeOK, FramesInPlace, EndCore, NEW c \in Client, TakeAccept(c)
  PROVE  EndCore'
  <1>1. todo[Async] = <<>> /\ Base(Async) = <<>> /\ Async \in Task /\ SameEnds
    BY DEF TakeAccept, Base, Task, SameEnds
  <1>2. \E fs \in Seq(Frame) : todo' = [todo EXCEPT ![Async] = fs] /\ Meek(fs)
    <2>1. \/ todo' = [todo EXCEPT ![Async] = <<F("onClient", c)>>]
          \/ todo' = [todo EXCEPT ![Async] = <<F("abort", c)>> \o DeleteWork(c)]
      BY DEF TakeAccept
    <2> QED
      BY <2>1, MeekFrames DEF MeekOp, UserOp, CarrierOp
  <1>3. \A fs \in Seq(Frame) : todo' = [todo EXCEPT ![Async] = fs] => Moves(Async, fs)
    BY <1>1, ConcatEmptySeq DEF Moves
  <1>4. Carries(Async)
    BY <1>1, <1>2, <1>3, MeekFresh DEF Carries
  <1> QED
    BY <1>1, <1>4, EndIdle

\* lwIP's callbacks leave the stacks alone.
LEMMA EndUnmoved ==
  ASSUME TypeOK, FramesInPlace, EndCore, UNCHANGED <<todo, disc>>, StaysOver, OneErrorQueued'
  PROVE  EndCore'
  <1>1. CarrierIsAlone'
    BY DEF EndCore, CarrierIsAlone
  <1>2. CarrierIsLast'
    <2> SUFFICES ASSUME NEW t \in Task, NEW i \in 1..Len(todo[t]), NEW c \in Accepted,
                        todo[t][i].op \in CarrierOp, todo[t][i].c = c
        PROVE  Over(c)' /\ disc'[c] = 0
      BY DEF CarrierIsLast, Over
    <2>1. Over(c) /\ disc[c] = 0
      BY DEF EndCore, CarrierIsLast, Over
    <2>2. impl[c] # "none"
      BY DEF FramesInPlace, InPlace
    <2> QED
      BY <2>1, <2>2 DEF StaysOver
  <1>3. AtMostOneDisconnect'
    BY DEF EndCore, AtMostOneDisconnect
  <1> QED
    BY <1>1, <1>2, <1>3 DEF EndCore

LEMMA EndAccept ==
  ASSUME TypeOK, FramesInPlace, StateInv, EndCore, NEW c \in Client, TcpAccept(c)
  PROVE  EndCore'
  <1>1. /\ c \in Accepted /\ impl[c] = "none" /\ lwip = None
        /\ UNCHANGED <<queue, shown, todo, disc>>
    BY DEF TcpAccept, CoreFree
  <1>2. PICK p \in Pcb :
          \/ own' = [own EXCEPT ![c] = p] /\ UNCHANGED lwip
          \/ lwip' = c /\ UNCHANGED own
    BY DEF TcpAccept
  <1>3. own[c] = None /\ queue[c] = <<>> /\ disc[c] = 0
    BY <1>1 DEF StateInv, Unborn
  <1>4. \A d \in Accepted : d # c => own'[d] = own[d] /\ (lwip' # d \/ lwip' = lwip)
    BY <1>2, StateTypes
  <1>5. \/ own'[c] = p /\ p # None /\ lwip' # c
        \/ own'[c] = None /\ lwip' = c
    BY <1>1, <1>2, <1>3, StateTypes
  <1>6. StaysOver
    BY <1>1, <1>2, <1>4, StateTypes DEF StaysOver, Over
  <1>7. OneErrorQueued'
    <2> SUFFICES ASSUME NEW d \in Accepted
        PROVE  /\ own'[d] = None => queue'[d] = <<>> \/ queue'[d] = <<Ev("ERROR", None)>>
               /\ own'[d] = None /\ queue'[d] # <<>> => disc'[d] = 0
               /\ own'[d] # None => disc'[d] = 0
               /\ own'[d] # None => \A i \in 1..Len(queue'[d]) : queue'[d][i].kind # "ERROR"
               /\ lwip' = d => own'[d] = None /\ queue'[d] = <<>> /\ disc'[d] = 0
      BY DEF OneErrorQueued, Ev
    <2>1. CASE d = c
      <3>1. queue'[d] = <<>> /\ disc'[d] = 0 /\ Len(queue'[d]) = 0
        BY <1>1, <1>3, <2>1
      <3> QED
        BY <1>5, <2>1, <3>1
    <2>2. CASE d # c
      BY <1>1, <1>4, <2>2 DEF EndCore, OneErrorQueued
    <2> QED
      BY <2>1, <2>2
  <1> QED
    BY <1>1, <1>6, <1>7, EndUnmoved

LEMMA EndNotify ==
  ASSUME TypeOK, FramesInPlace, StateInv, EndCore, NEW p \in Pcb, NEW kind \in EventKind,
         kind # "ERROR", Notify(p, kind), Live(p), UNCHANGED <<own, todo, lwip, disc>>
  PROVE  EndCore'
  <1>1. PICK c \in Client : c = arg[p]
    BY StateTypes DEF Notify
  <1>2. queue' = Send(queue, c, Ev(kind, p)) \/ queue' = queue
    BY <1>1 DEF Notify, Send
  <1>3. c \in Accepted => own[c] = p /\ own[c] # None
    BY <1>1, StateTypes DEF StateInv, CallbackReachesOwner
  <1>4. \A d \in Client : d # c => queue'[d] = queue[d]
    BY <1>2, StateTypes DEF Send
  <1>5. StaysOver
    BY <1>3, <1>4, StateTypes DEF StaysOver, Over
  <1>6. OneErrorQueued'
    <2>1. ASSUME c \in Accepted, NEW i \in 1..Len(queue'[c])
          PROVE  queue'[c][i].kind # "ERROR"
      <3>1. queue[c] \in Seq(Event)
        BY StateTypes
      <3>2. queue'[c] = queue[c] \/ queue'[c] = Append(queue[c], Ev(kind, p))
        BY <1>2, StateTypes DEF Send
      <3>3. \/ i \in 1..Len(queue[c]) /\ queue'[c][i] = queue[c][i]
            \/ queue'[c][i] = Ev(kind, p)
        BY <2>1, <3>1, <3>2
      <3>4. CASE i \in 1..Len(queue[c]) /\ queue'[c][i] = queue[c][i]
        BY <1>3, <2>1, <3>4 DEF EndCore, OneErrorQueued
      <3>5. CASE queue'[c][i] = Ev(kind, p)
        BY <3>5 DEF Ev
      <3> QED
        BY <3>3, <3>4, <3>5
    <2> QED
      BY <1>3, <1>4, <2>1, StateTypes DEF EndCore, OneErrorQueued
  <1> QED
    BY <1>5, <1>6, EndUnmoved

LEMMA EndError ==
  ASSUME TypeOK, FramesInPlace, StateInv, EndCore, NEW p \in Pcb, TcpError(p)
  PROVE  EndCore'
  <1>1. PICK c \in Client : c = arg[p]
    BY StateTypes DEF TcpError
  <1>2. /\ Live(p) /\ lwip = None /\ lwip' = c /\ UNCHANGED <<todo, disc>>
        /\ own' = [own EXCEPT ![c] = None]
        /\ queue' = IF own[c] # None THEN Purge(queue, c) ELSE queue
    BY <1>1 DEF TcpError, CoreFree, Detach, Purge
  <1>3. c \in Accepted => own[c] # None /\ disc[c] = 0
    BY <1>1, <1>2, StateTypes
      DEF StateInv, CallbackReachesOwner, EndCore, OneErrorQueued
  <1>4. own'[c] = None /\ (c \in Accepted => queue'[c] = <<>>)
    BY <1>2, <1>3, StateTypes DEF Purge
  <1>5. \A d \in Client : d # c => own'[d] = own[d] /\ queue'[d] = queue[d] /\ lwip' # d
    BY <1>2, StateTypes DEF Purge
  <1>6. StaysOver
    BY <1>3, <1>5, StateTypes DEF StaysOver, Over
  <1>7. OneErrorQueued'
    BY <1>2, <1>3, <1>4, <1>5, StateTypes DEF EndCore, OneErrorQueued
  <1> QED
    BY <1>2, <1>6, <1>7, EndUnmoved

LEMMA EndErrorQueue ==
  ASSUME TypeOK, FramesInPlace, StateInv, EndCore, TcpErrorQueue
  PROVE  EndCore'
  <1>1. PICK c \in Client : c = lwip
    BY StateTypes DEF TcpErrorQueue
  <1>2. UNCHANGED <<own, todo, disc>> /\ lwip' = None
    BY DEF TcpErrorQueue
  <1>3. queue' = Send(queue, c, Ev("ERROR", None)) \/ queue' = queue
    BY <1>1 DEF TcpErrorQueue
  <1>4. c \in Accepted => own[c] = None /\ queue[c] = <<>> /\ disc[c] = 0
    BY <1>1 DEF EndCore, OneErrorQueued
  <1>5. \A d \in Client : d # c => queue'[d] = queue[d]
    BY <1>3, StateTypes DEF Send
  <1>6. c \in Accepted => queue'[c] = <<>> \/ queue'[c] = <<Ev("ERROR", None)>>
    <2>1. Append(<<>>, Ev("ERROR", None)) = <<Ev("ERROR", None)>>
      OBVIOUS
    <2> QED
      BY <1>3, <1>4, <2>1, StateTypes DEF Send
  <1>7. StaysOver
    BY <1>1, <1>2, <1>5, StateTypes DEF StaysOver, Over
  <1>8. OneErrorQueued'
    BY <1>2, <1>4, <1>5, <1>6, StateTypes DEF EndCore, OneErrorQueued, Ev
  <1> QED
    BY <1>2, <1>7, <1>8, EndUnmoved

LEMMA EndLwip ==
  ASSUME TypeOK, FramesInPlace, StateInv, EndCore, LwipStep
  PROVE  EndCore'
  <1>1. ASSUME NEW p \in Pcb, TcpConnected(p)
        PROVE  EndCore'
    BY <1>1, EndNotify DEF TcpConnected, EventKind, Live, LiveState
  <1>2. ASSUME NEW p \in Pcb, TcpRecv(p)
        PROVE  EndCore'
    BY <1>2, EndNotify DEF TcpRecv, EventKind, Live, LiveState
  <1>3. ASSUME NEW p \in Pcb, TcpFin(p)
        PROVE  EndCore'
    BY <1>3, EndNotify DEF TcpFin, EventKind, Live, LiveState
  <1>4. ASSUME NEW p \in Pcb, TcpSent(p)
        PROVE  EndCore'
    BY <1>4, EndNotify DEF TcpSent, EventKind, Live, LiveState
  <1>5. ASSUME NEW p \in Pcb, TcpPoll(p)
        PROVE  EndCore'
    BY <1>5, EndNotify DEF TcpPoll, EventKind, Live, LiveState
  <1> QED
    BY <1>1, <1>2, <1>3, <1>4, <1>5, EndAccept, EndError, EndErrorQueue DEF LwipStep

-----------------------------------------------------------------------------
(***************************************************************************)
(* The invariant.                                                           *)
(***************************************************************************)
LEMMA NothingAfter ==
  ASSUME PcbInv, EndCore
  PROVE  NothingAfterDisconnect
  BY StateTypes
    DEF NothingAfterDisconnect, PcbInv, DispatchInv, StateInv, CallbackReachesOwner, EndCore,
      OneErrorQueued

LEMMA EndInit == Init => EndInv
  <1> SUFFICES ASSUME Init PROVE EndInv
    OBVIOUS
  <1>1. /\ \A t \in Task : todo[t] = <<>> /\ Len(todo[t]) = 0
        /\ \A c \in Client : queue[c] = <<>> /\ own[c] = None /\ disc[c] = 0
        /\ lwip = None
    BY DEF Init
  <1>2. CarrierIsAlone /\ CarrierIsLast
    BY <1>1 DEF CarrierIsAlone, CarrierIsLast
  <1>3. OneErrorQueued /\ AtMostOneDisconnect
    BY <1>1, ConstantsAssumption DEF OneErrorQueued, AtMostOneDisconnect, Accepted
  <1>4. PcbInv
    BY PcbInit
  <1>5. NothingAfterDisconnect
    BY <1>2, <1>3, <1>4, NothingAfter DEF EndCore
  <1> QED
    BY <1>2, <1>3, <1>4, <1>5 DEF EndInv

LEMMA EndNext ==
  ASSUME EndInv, [Next]_vars
  PROVE  EndInv'
  <1>1. PcbInv /\ EndCore /\ TypeOK /\ FramesInPlace /\ StateInv /\ Async \in Task
    BY DEF EndInv, EndCore, PcbInv, DispatchInv, Task
  <1>2. EndCore'
    <2>1. CASE LwipStep
      BY <1>1, <2>1, EndLwip
    <2>2. ASSUME NEW t \in AppTask, NEW c \in Client, AppCall(t, c)
          PROVE  EndCore'
      BY <1>1, <2>2, EndAppCall
    <2>3. ASSUME NEW t \in Task, FrameStep(t)
          PROVE  EndCore'
      BY <1>1, <2>3, EndUserCallback, EndRelease, EndHandOn, EndIdleSteps DEF FrameStep
    <2>4. CASE HandlerStep
      BY <1>1, <2>4, EndHandler
    <2>5. ASSUME NEW c \in Client, TakeEvent(c) \/ TakeAccept(c)
          PROVE  EndCore'
      BY <1>1, <2>5, EndTakeEvent, EndTakeAccept
    <2>6. CASE UNCHANGED vars
      <3>1. StaysOver /\ OneErrorQueued'
        BY <1>1, <2>6 DEF vars, StaysOver, Over, EndCore, OneErrorQueued
      <3> QED
        BY <1>1, <2>6, <3>1, EndUnmoved DEF vars
    <2> QED
      BY <2>1, <2>2, <2>3, <2>4, <2>5, <2>6 DEF Next
  <1>3. PcbInv'
    BY <1>1, PcbNext
  <1>4. NothingAfterDisconnect'
    <2>1. (PcbInv /\ EndCore => NothingAfterDisconnect)'
      BY NothingAfter, PTL
    <2> QED
      BY <1>2, <1>3, <2>1
  <1> QED
    BY <1>2, <1>3, <1>4 DEF EndInv, EndCore

\* Everything the safety properties of server connections rest on holds in every
\* reachable state, for any number of clients, pcbs and tasks.
THEOREM EndInvariant == Spec => []EndInv
  BY EndInit, EndNext, PTL DEF Spec

\* However the peer's error, its FIN, close(), abort() and delete race, at most one of
\* them leads to an onDisconnect.
THEOREM DisconnectedOnce == Spec => []AtMostOneDisconnect
  BY EndInvariant, PTL DEF EndInv

\* After it no event of that connection is queued and lwIP has no callback for it.
THEOREM DisconnectIsLast == Spec => []NothingAfterDisconnect
  BY EndInvariant, PTL DEF EndInv

-----------------------------------------------------------------------------
(***************************************************************************)
(* Nothing is called after the report, when all calls come from callbacks.  *)
(***************************************************************************)
Silent(fs) == \A i \in 1..Len(fs) : fs[i].op \notin TellOp

\* What a step may put on top of a stack.
Quietly(fs) ==
  \A i \in 1..Len(fs) : fs[i].op \in TellOp =>
    i = 1 /\ (fs[i].c \in Accepted => disc'[fs[i].c] = 0)

LEMMA QuietMove ==
  ASSUME TypeOK, AppTask = {}, TellersAreQuiet, NEW fs \in Seq(Frame), Moves(Async, fs), Quietly(fs)
  PROVE  TellersAreQuiet'
  <1>1. Task = {Async} /\ Async \in Task /\ Len(fs) \in Nat
    BY LenProperties DEF Task
  <1> SUFFICES ASSUME NEW i \in 1..Len(todo'[Async]), todo'[Async][i].op \in TellOp
      PROVE  i = 1 /\ (todo'[Async][i].c \in Accepted => disc'[todo'[Async][i].c] = 0)
    BY <1>1 DEF TellersAreQuiet
  <1>2. \/ i \in 1..Len(fs) /\ todo'[Async][i] = fs[i]
        \/ \E k : k >= 2 /\ Kept(Async, i, k)
    BY <1>1, MovesElements
  <1>3. ASSUME NEW k, k >= 2, Kept(Async, i, k)
        PROVE  FALSE
    BY <1>1, <1>3 DEF Kept, TellersAreQuiet
  <1> QED
    BY <1>2, <1>3 DEF Quietly

LEMMA SilentFrames ==
  ASSUME NEW c \in Client
  PROVE  /\ <<>> \in Seq(Frame) /\ Silent(<<>>)
         /\ DeleteWork(c) \in Seq(Frame) /\ Silent(DeleteWork(c))
         /\ <<F("abort", c)>> \o DeleteWork(c) \in Seq(Frame)
         /\ Silent(<<F("abort", c)>> \o DeleteWork(c))
         /\ \A op \in CallOp : <<F(op, c)>> \in Seq(Frame) /\ Silent(<<F(op, c)>>)
         /\ \A op, op2 \in CallOp :
              <<F(op, c)>> \o <<F(op2, c)>> \in Seq(Frame) /\ Silent(<<F(op, c)>> \o <<F(op2, c)>>)
         /\ \A op \in CallOp, p \in Pcb \cup {None} :
              <<FP(op, c, p)>> \in Seq(Frame) /\ Silent(<<FP(op, c, p)>>)
  <1>1. /\ <<>> \in Seq(Frame) /\ DeleteWork(c) \in Seq(Frame)
        /\ \A op \in CallOp, q \in Pcb \cup {None} :
             <<FP(op, c, q)>> \in Seq(Frame) /\ <<F(op, c)>> \in Seq(Frame)
    BY PushedType
  <1>2. \A op \in CallOp : op \notin TellOp
    BY DEF CallOp, TellOp, EventKind, UserOp
  <1>3. Silent(<<>>) /\ Silent(DeleteWork(c))
    BY <1>2 DEF Silent, DeleteWork, F, CallOp
  <1>4. \A op \in CallOp, p \in Pcb \cup {None} : Silent(<<F(op, c)>>) /\ Silent(<<FP(op, c, p)>>)
    BY <1>2 DEF Silent, F, FP
  <1>5. ASSUME NEW fs \in Seq(Frame), NEW gs \in Seq(Frame), Silent(fs), Silent(gs)
        PROVE  fs \o gs \in Seq(Frame) /\ Silent(fs \o gs)
    <2>1. /\ fs \o gs \in Seq(Frame)
          /\ Len(fs \o gs) = Len(fs) + Len(gs)
          /\ \A i \in 1..(Len(fs) + Len(gs)) :
               (fs \o gs)[i] = IF i <= Len(fs) THEN fs[i] ELSE gs[i - Len(fs)]
      BY ConcatProperties
    <2>2. Len(fs) \in Nat /\ Len(gs) \in Nat
      BY LenProperties
    <2> QED
      BY <1>5, <2>1, <2>2 DEF Silent
  <1>6. "abort" \in CallOp
    BY DEF CallOp
  <1> QED
    BY <1>1, <1>3, <1>4, <1>5, <1>6

\* The pair of a user callback about c and what follows it.
LEMMA TellingPair ==
  ASSUME NEW c \in Client, NEW op \in EventKind \cup UserOp, NEW op2 \in CallOp,
         NEW p \in Pcb \cup {None}, c \in Accepted => disc'[c] = 0
  PROVE  /\ <<FP(op, c, p), F(op2, c)>> \in Seq(Frame) /\ Quietly(<<FP(op, c, p), F(op2, c)>>)
         /\ <<F(op, c)>> \in Seq(Frame) /\ Quietly(<<F(op, c)>>)
  <1>1. op2 \notin TellOp
    BY DEF CallOp, TellOp, EventKind, UserOp
  <1>2. <<F(op, c)>> \in Seq(Frame) /\ <<FP(op, c, p), F(op2, c)>> \in Seq(Frame)
    BY PushedType
  <1> QED
    BY <1>1, <1>2 DEF Quietly, F, FP

Hushes == \E fs \in Seq(Frame) : Moves(Async, fs) /\ Quietly(fs)

LEMMA SilentHushes ==
  ASSUME NEW fs \in Seq(Frame), Moves(Async, fs), Silent(fs)
  PROVE  Hushes
  BY DEF Hushes, Silent, Quietly

LEMMA ReactionHushes ==
  ASSUME NEW c \in Client, Reaction(Async, c, Base(Async))
  PROVE  Hushes
  <1>1. PICK fs \in Seq(Frame) :
          /\ Moves(Async, fs)
          /\ fs \in {<<F(op, c)>> : op \in {"tcpClose", "abort", "connect"}} \cup {DeleteWork(c)}
    BY ReactionMoves DEF Task
  <1>2. Silent(fs)
    BY <1>1, SilentFrames DEF CallOp
  <1> QED
    BY <1>1, <1>2, SilentHushes

\* A connection that still has something to end was not reported.
LEMMA UnendedIsQuiet ==
  ASSUME EndCore, NEW c \in Accepted, EndsSomething(c)
  PROVE  disc[c] = 0
  BY DEF EndCore, OneErrorQueued, EndsSomething

LEMMA QuietFrame ==
  ASSUME EndInv, FrameStep(Async), ~ UserCallback(Async)
  PROVE  Hushes
  <1>1. TypeOK /\ FramesInPlace /\ EndCore /\ Async \in Task
    BY DEF EndInv, EndCore, PcbInv, DispatchInv, Task
  <1>2. todo[Async] # <<>> /\ UNCHANGED disc
    BY DEF FrameStep, At, AbortCheck, ServerDiscard, ConnectCheck, Destroy, Drop, FreeEvent,
      Destroyed, Dial, TcpConnect, DialFailed, TcpClose, TcpAbort, ErrorTail
  <1>3. PICK c \in Client : c = Top(Async).c
    BY <1>1, <1>2, TopType
  <1>4. Top(Async).pcb \in Pcb \cup {None}
    BY <1>1, <1>2, TopType
  <1>5. ASSUME NEW fs \in Seq(Frame), Return(Async, fs), Silent(fs)
        PROVE  Hushes
    BY <1>2, <1>5, ReturnMoves, SilentHushes
  <1>6. ASSUME NEW op \in UserOp, NEW op2 \in CallOp, Return(Async, <<F(op, c), F(op2, c)>>),
               c \in Accepted => disc[c] = 0
        PROVE  Hushes
    <2> DEFINE fs == <<F(op, c), F(op2, c)>>
    <2>1. fs = <<FP(op, c, None), F(op2, c)>>
      BY DEF F, FP
    <2>2. fs \in Seq(Frame) /\ Quietly(fs)
      BY <1>2, <1>6, <2>1, TellingPair
    <2>3. Moves(Async, fs)
      BY <1>2, <1>6, ReturnMoves
    <2> QED
      BY <2>2, <2>3 DEF Hushes
  <1>7. CASE \/ AbortCheck(Async) \/ ServerDiscard(Async) \/ ConnectCheck(Async)
             \/ DialFailed(Async)
    <2>1. \/ Return(Async, <<>>) \/ Return(Async, <<F("tcpAbort", c)>>)
          \/ Return(Async, <<F("dial", c)>>)
      BY <1>3, <1>7 DEF AbortCheck, ServerDiscard, ConnectCheck, DialFailed
    <2> QED
      BY <1>5, <2>1, SilentFrames DEF CallOp
  <1>8. CASE Drop(Async) \/ FreeEvent(Async) \/ Destroyed(Async)
    <2>1. Return(Async, <<>>) \/ Return(Async, <<F("destroy", c)>>)
      BY <1>3, <1>8 DEF Drop, FreeEvent, Destroyed, LetGo
    <2> QED
      BY <1>5, <2>1, SilentFrames DEF CallOp
  <1>9. CASE Destroy(Async)
    <2>1. \/ Return(Async, <<>> \o <<F("destroyed", c)>>)
          \/ Return(Async, <<F("tcpClose", c)>> \o <<F("destroyed", c)>>)
      BY <1>3, <1>9 DEF Destroy
    <2>2. <<>> \o <<F("destroyed", c)>> = <<F("destroyed", c)>>
      BY PushedType, ConcatEmptySeq DEF CallOp
    <2> QED
      BY <1>5, <2>1, <2>2, SilentFrames DEF CallOp
  <1>10. CASE Dial(Async) \/ TcpConnect(Async)
    <2>1. \/ Return(Async, <<>>)
          \/ \E op \in {"tcpConnect", "dialFailed"}, q \in Pcb \cup {None} :
               Return(Async, <<FP(op, c, q)>>)
      BY <1>3, <1>4, <1>10 DEF Dial, TcpConnect
    <2> QED
      BY <1>5, <2>1, SilentFrames DEF CallOp
  <1>11. CASE TcpClose(Async)
    <2>1. CASE EndsSomething(c)
      <3>1. Return(Async, <<F("onDisconnect", c), F("serverDiscard", c)>>)
        BY <1>3, <1>11, <2>1 DEF TcpClose
      <3> QED
        BY <1>1, <1>6, <2>1, <3>1, UnendedIsQuiet DEF UserOp, CallOp
    <2>2. CASE ~ EndsSomething(c)
      <3>1. Return(Async, <<>>)
        BY <1>3, <1>11, <2>2 DEF TcpClose
      <3> QED
        BY <1>5, <3>1, SilentFrames
    <2> QED
      BY <2>1, <2>2
  <1>12. CASE TcpAbort(Async)
    <2>1. CASE EndsSomething(c)
      <3>1. Return(Async, <<F("onError", c), F("errorTail", c)>>)
        BY <1>3, <1>12, <2>1 DEF TcpAbort
      <3> QED
        BY <1>1, <1>6, <2>1, <3>1, UnendedIsQuiet DEF UserOp, CallOp
    <2>2. CASE ~ EndsSomething(c)
      <3>1. Return(Async, <<>>)
        BY <1>3, <1>12, <2>2 DEF TcpAbort
      <3> QED
        BY <1>5, <3>1, SilentFrames
    <2> QED
      BY <2>1, <2>2
  <1>13. CASE ErrorTail(Async)
    <2>1. c \in Accepted => disc[c] = 0
      BY <1>1, <1>2, <1>3, <1>13, TopCarrier
        DEF EndCore, Carrier, CarrierOp, ErrorTail, At, Top
    <2>2. Return(Async, <<>>) \/ Return(Async, <<F("onDisconnect", c), F("serverDiscard", c)>>)
      BY <1>3, <1>13 DEF ErrorTail
    <2> QED
      BY <1>5, <1>6, <2>1, <2>2, SilentFrames DEF UserOp, CallOp
  <1> QED
    BY <1>7, <1>8, <1>9, <1>10, <1>11, <1>12, <1>13 DEF FrameStep

LEMMA QuietCallback ==
  ASSUME EndInv, UserCallback(Async)
  PROVE  Hushes
  <1>1. TypeOK /\ Async \in Task /\ todo[Async] # <<>>
    BY DEF EndInv, PcbInv, DispatchInv, Task, UserCallback
  <1>2. PICK c \in Client : c = Top(Async).c
    BY <1>1, TopType
  <1>3. shown' \subseteq Client
    BY <1>1, <1>2 DEF UserCallback, TypeOK
  <1>4. CASE Return(Async, <<>>)
    BY <1>1, <1>2, <1>4, ReturnMoves, SilentFrames, SilentHushes
  <1>5. ASSUME NEW d \in shown', Reaction(Async, d, Tail(todo[Async]))
        PROVE  Hushes
    BY <1>1, <1>3, <1>5, ReactionHushes DEF Base
  <1> QED
    BY <1>4, <1>5 DEF UserCallback

\* The handlers call for the connection whose event was taken, or not at all.
LEMMA QuietHandler ==
  ASSUME EndInv, TellersAreQuiet, HandlerStep
  PROVE  Hushes
  <1>1. TypeOK /\ Async \in Task /\ todo[Async] # <<>> /\ UNCHANGED disc
    BY DEF EndInv, PcbInv, DispatchInv, Task, HandlerStep, HandleRecv, HandleFin, HandleSent,
      HandlePoll, HandleError, HandleConnected, Handler, At
  <1>2. PICK c \in Client : c = Top(Async).c
    BY <1>1, TopType
  <1>3. Top(Async).op \in EventKind
    BY DEF HandlerStep, HandleRecv, HandleFin, HandleSent, HandlePoll, HandleError,
      HandleConnected, Handler, At, Top, EventKind
  <1>4. c \in Accepted => disc'[c] = 0
    <2>1. Top(Async) = todo[Async][1] /\ 1 \in 1..Len(todo[Async])
      <3>1. todo[Async] \in Seq(Frame)
        BY <1>1 DEF TypeOK
      <3> QED
        BY <1>1, <3>1, HeadTailProperties, EmptySeq, LenProperties DEF Top
    <2> QED
      BY <1>1, <1>2, <1>3, <2>1 DEF TellersAreQuiet, TellOp
  <1>5. \/ Return(Async, <<>>)
        \/ Return(Async, <<F("tcpClose", c)>>)
        \/ \E op \in {"onData", "onAck", "onPoll", "onConnect"} : Return(Async, <<F(op, c)>>)
        \/ Return(Async, <<F("onError", c), F("errorTail", c)>>)
    BY <1>2 DEF HandlerStep, HandleRecv, HandleFin, HandleSent, HandlePoll, HandleError,
      HandleConnected, Handler, IfOwned
  <1>6. CASE Return(Async, <<>>) \/ Return(Async, <<F("tcpClose", c)>>)
    BY <1>1, <1>6, ReturnMoves, SilentFrames, SilentHushes DEF CallOp
  <1>7. ASSUME NEW op \in {"onData", "onAck", "onPoll", "onConnect"}, Return(Async, <<F(op, c)>>)
        PROVE  Hushes
    <2>1. op \in EventKind \cup UserOp /\ "errorTail" \in CallOp
      BY DEF UserOp, CallOp
    <2>2. <<F(op, c)>> \in Seq(Frame) /\ Quietly(<<F(op, c)>>)
      BY <1>4, <2>1, TellingPair
    <2> QED
      BY <1>1, <1>7, <2>2, ReturnMoves DEF Hushes
  <1>8. CASE Return(Async, <<F("onError", c), F("errorTail", c)>>)
    <2>1. <<F("onError", c), F("errorTail", c)>> = <<FP("onError", c, None), F("errorTail", c)>>
      BY DEF F, FP
    <2>2. <<F("onError", c), F("errorTail", c)>> \in Seq(Frame)
          /\ Quietly(<<F("onError", c), F("errorTail", c)>>)
      BY <1>4, <2>1, TellingPair DEF UserOp, CallOp
    <2> QED
      BY <1>1, <1>8, <2>2, ReturnMoves DEF Hushes
  <1> QED
    BY <1>5, <1>6, <1>7, <1>8

LEMMA QuietTake ==
  ASSUME EndInv, \A d \in accept : disc[d] = 0, NEW c \in Client, TakeEvent(c) \/ TakeAccept(c)
  PROVE  Hushes
  <1>1. TypeOK /\ EndCore /\ Async \in Task /\ todo[Async] = <<>> /\ UNCHANGED disc
        /\ Base(Async) = <<>>
    BY DEF EndInv, EndCore, PcbInv, DispatchInv, Task, TakeEvent, TakeAccept, Base
  <1>2. ASSUME NEW fs \in Seq(Frame), todo' = [todo EXCEPT ![Async] = fs]
        PROVE  Moves(Async, fs)
    <2>1. fs \o <<>> = fs
      BY ConcatEmptySeq
    <2> QED
      BY <1>1, <1>2, <2>1 DEF Moves
  <1>3. CASE TakeEvent(c)
    <2> DEFINE fs == <<FP(Head(queue[c]).kind, c, Head(queue[c]).pcb), F("free", c)>>
    <2>1. Head(queue[c]).kind \in EventKind /\ Head(queue[c]).pcb \in Pcb \cup {None}
      BY <1>1, <1>3, HeadTailProperties, EventType DEF TypeOK, TakeEvent
    <2>2. c \in Accepted => disc'[c] = 0
      BY <1>1, <1>3, UnendedIsQuiet DEF TakeEvent, EndsSomething
    <2>3. fs \in Seq(Frame) /\ Quietly(fs)
      BY <2>1, <2>2, TellingPair DEF CallOp
    <2>4. todo' = [todo EXCEPT ![Async] = fs]
      BY <1>3 DEF TakeEvent
    <2> HIDE DEF fs
    <2> QED
      BY <1>2, <2>3, <2>4 DEF Hushes
  <1>4. CASE TakeAccept(c)
    <2>1. CASE todo' = [todo EXCEPT ![Async] = <<F("onClient", c)>>]
      <3>1. c \in Accepted => disc'[c] = 0
        BY <1>1, <1>4 DEF TakeAccept
      <3>2. <<F("onClient", c)>> \in Seq(Frame) /\ Quietly(<<F("onClient", c)>>)
        BY <3>1, TellingPair DEF UserOp, CallOp
      <3> QED
        BY <1>2, <2>1, <3>2 DEF Hushes
    <2>2. CASE todo' = [todo EXCEPT ![Async] = <<F("abort", c)>> \o DeleteWork(c)]
      BY <1>2, <2>2, SilentFrames, SilentHushes
    <2> QED
      BY <1>4, <2>1, <2>2 DEF TakeAccept
  <1> QED
    BY <1>3, <1>4

\* A connection whose ACCEPT is queued is unknown to the application, and not reported.
LEMMA AcceptIsQuiet ==
  ASSUME EndInv, [Next]_vars, \A d \in accept : disc[d] = 0
  PROVE  \A d \in accept' : disc'[d] = 0
  <1>1. TypeOK /\ StateInv
    BY DEF EndInv, PcbInv, DispatchInv
  <1>2. CASE accept' \subseteq accept /\ UNCHANGED disc
    BY <1>2
  <1>3. ASSUME NEW c \in Client, TcpAccept(c)
        PROVE  \A d \in accept' : disc'[d] = 0
    BY <1>1, <1>3 DEF TcpAccept, StateInv, Unborn
  <1>4. ASSUME NEW t \in Task, UserCallback(t)
        PROVE  \A d \in accept' : disc'[d] = 0
    <2>1. UNCHANGED accept /\ \A d \in Client : d \notin shown => disc'[d] = disc[d]
      BY <1>1, <1>4, StateTypes DEF UserCallback, TypeOK
    <2>2. \A d \in accept : d \in Client /\ d \notin shown
      BY <1>1 DEF StateInv, Undelivered, TypeOK, Accepted
    <2> QED
      BY <2>1, <2>2
  <1> QED
    BY <1>2, <1>3, <1>4
      DEF Next, vars, LwipStep, TcpConnected, TcpRecv, TcpFin, TcpSent, TcpPoll, TcpError,
        TcpErrorQueue, AppCall, FrameStep, TcpClose, AbortCheck, TcpAbort, ErrorTail, ServerDiscard,
        Drop, FreeEvent, Destroy, Destroyed, ConnectCheck, Dial, TcpConnect, DialFailed, HandlerStep,
        HandleRecv, HandleFin, HandleSent, HandlePoll, HandleError, HandleConnected, Handler,
        TakeEvent, TakeAccept

LEMMA QuietNext ==
  ASSUME AppTask = {}, QuietInv, EndInv', [Next]_vars
  PROVE  QuietInv'
  <1>1. EndInv /\ TypeOK /\ TellersAreQuiet /\ \A d \in accept : disc[d] = 0
    BY DEF QuietInv, EndInv, PcbInv, DispatchInv
  <1>2. Task = {Async}
    BY DEF Task
  <1>3. Hushes \/ UNCHANGED <<todo, disc>>
    <2>1. CASE LwipStep
      BY <2>1 DEF LwipStep, TcpAccept, TcpConnected, TcpRecv, TcpFin, TcpSent, TcpPoll, TcpError,
        TcpErrorQueue
    <2>2. CASE \E t \in AppTask, c \in Client : AppCall(t, c)
      BY <2>2
    <2>3. ASSUME NEW t \in Task, FrameStep(t)
          PROVE  Hushes
      BY <1>1, <1>2, <2>3, QuietFrame, QuietCallback
    <2>4. CASE UNCHANGED vars
      BY <2>4 DEF vars
    <2> QED
      BY <1>1, <2>1, <2>2, <2>3, <2>4, QuietHandler, QuietTake DEF Next
  <1>4. TellersAreQuiet'
    <2>1. CASE UNCHANGED <<todo, disc>>
      BY <1>1, <2>1 DEF TellersAreQuiet
    <2> QED
      BY <1>1, <1>3, <2>1, QuietMove DEF Hushes
  <1>5. \A d \in accept' : disc'[d] = 0
    BY <1>1, AcceptIsQuiet
  <1> QED
    BY <1>4, <1>5 DEF QuietInv

\* When every call comes from a callback, no callback of a connection runs after its
\* onDisconnect: an event is taken only while the connection has something to end, and no
\* other task can end it before the handler calls.
THEOREM QuietWithoutTasks == ASSUME AppTask = {} PROVE Spec => []QuietAfterDisconnect
  <1>1. Init => QuietInv
    <2> SUFFICES ASSUME Init PROVE QuietInv
      OBVIOUS
    <2>1. (\A t \in Task : todo[t] = <<>> /\ Len(todo[t]) = 0) /\ accept = {}
      BY DEF Init
    <2>2. TellersAreQuiet
      BY <2>1 DEF TellersAreQuiet
    <2> QED
      BY <2>1, <2>2, EndInit DEF QuietInv
  <1>2. QuietInv /\ [Next]_vars => QuietInv'
    BY EndNext, QuietNext DEF QuietInv
  <1>3. QuietInv => QuietAfterDisconnect
    <2> SUFFICES ASSUME QuietInv, NEW t \in Task, todo[t] # <<>>, Top(t).op \in UserOp,
                        Top(t).c \in Accepted
        PROVE  disc[Top(t).c] = 0
      BY DEF QuietAfterDisconnect
    <2>1. todo[t] \in Seq(Frame)
      BY DEF QuietInv, EndInv, PcbInv, DispatchInv, TypeOK
    <2>2. Top(t) = todo[t][1] /\ 1 \in 1..Len(todo[t])
      BY <2>1, HeadTailProperties, EmptySeq, LenProperties DEF Top
    <2> QED
      BY <2>2 DEF QuietInv, TellersAreQuiet, TellOp
  <1> QED
    BY <1>1, <1>2, <1>3, PTL DEF Spec

-----------------------------------------------------------------------------
(***************************************************************************)
(* ClientLife implements Connection.                                        *)
(***************************************************************************)

\* No step but tcp_accept makes an impl.
BornAlike == \A c \in Accepted : impl'[c] = "none" <=> impl[c] = "none"

LEMMA BornSteps ==
  ASSUME PcbInv, NEW t \in Task, FrameStep(t)
  PROVE  BornAlike
  <1>1. TypeOK /\ DestroyedIsDying /\ todo[t] # <<>>
    BY DEF PcbInv, DispatchInv, FrameStep, At, UserCallback, TcpClose, AbortCheck, TcpAbort,
      ErrorTail, ServerDiscard, Drop, FreeEvent, Destroy, Destroyed, ConnectCheck, Dial,
      TcpConnect, DialFailed
  <1>2. PICK c \in Client : c = Top(t).c
    BY <1>1, TopType
  <1>3. CASE TcpClose(t) \/ TcpAbort(t) \/ DialFailed(t)
    BY <1>1, <1>2, <1>3, StateTypes DEF TcpClose, TcpAbort, DialFailed, Reap, BornAlike
  <1>4. CASE Drop(t) \/ FreeEvent(t)
    <2>1. impl' = impl \/ (impl[c] = "live" /\ impl' = [impl EXCEPT ![c] = "dying"])
      <3>1. CASE Drop(t)
        BY <1>2, <3>1 DEF Drop, LetGo
      <3>2. CASE FreeEvent(t)
        BY <1>2, <3>2 DEF FreeEvent, LetGo
      <3> QED
        BY <1>4, <3>1, <3>2
    <2> QED
      BY <1>1, <2>1, StateTypes DEF BornAlike
  <1>5. CASE Destroyed(t)
    <2>1. todo[t] \in Seq(Frame)
      BY <1>1 DEF TypeOK
    <2>2. Top(t) = todo[t][1] /\ 1 \in 1..Len(todo[t])
      BY <1>1, <2>1, LenProperties, EmptySeq DEF Top
    <2>3. impl[c] \in {"dying", "dead"} /\ impl' = [impl EXCEPT ![c] = "dead"]
      BY <1>1, <1>2, <1>5, <2>2 DEF DestroyedIsDying, Destroyed, At, Top
    <2> QED
      BY <1>1, <2>3, StateTypes DEF BornAlike
  <1>6. CASE UNCHANGED impl
    BY <1>6 DEF BornAlike
  <1> QED
    BY <1>3, <1>4, <1>5, <1>6
      DEF FrameStep, UserCallback, AbortCheck, ErrorTail, ServerDiscard, Destroy, ConnectCheck,
        Dial, TcpConnect

LEMMA ContractSame ==
  ASSUME BornAlike, \A c \in Accepted : own'[c] = own[c] /\ disc'[c] = disc[c]
  PROVE  UNCHANGED Contract!vars
  BY DEF Contract!vars, BornAlike, Phase

\* A step that takes the pcb of at most the client c.
LEMMA ContractEnd ==
  ASSUME BornAlike, StateInv, NEW c \in Client, own'[c] = None,
         \A d \in Accepted : disc'[d] = disc[d] /\ (d # c => own'[d] = own[d])
  PROVE  [Contract!Next]_Contract!vars
  <1>1. CASE c \notin Accepted \/ own[c] = None
    BY <1>1, ContractSame
  <1>2. CASE c \in Accepted /\ own[c] # None
    <2>1. impl[c] # "none"
      BY <1>2 DEF StateInv, Unborn
    <2>2. Phase(c) = "open" /\ Phase(c)' = "ended"
      BY <1>2, <2>1 DEF Phase, BornAlike
    <2>3. \A d \in Accepted : d # c => Phase(d)' = Phase(d)
      BY DEF Phase, BornAlike
    <2>4. Contract!End(c)
      BY <1>2, <2>2, <2>3 DEF Contract!End
    <2> QED
      BY <1>2, <2>4 DEF Contract!Next
  <1> QED
    BY <1>1, <1>2

LEMMA ContractAccept ==
  ASSUME TypeOK, StateInv, NEW c \in Client, TcpAccept(c)
  PROVE  [Contract!Next]_Contract!vars
  <1>1. /\ c \in Accepted /\ impl[c] = "none" /\ impl' = [impl EXCEPT ![c] = "live"]
        /\ UNCHANGED disc
    BY DEF TcpAccept
  <1>2. \A d \in Client : d # c => own'[d] = own[d] /\ impl'[d] = impl[d]
    BY <1>1, StateTypes DEF TcpAccept
  <1>3. Phase(c) = "absent" /\ Phase(c)' \in {"open", "ended"}
    BY <1>1, StateTypes DEF Phase
  <1>4. \A d \in Accepted : d # c => Phase(d)' = Phase(d)
    BY <1>2, StateTypes DEF Phase
  <1>5. Contract!Begin(c)
    BY <1>1, <1>3, <1>4 DEF Contract!Begin
  <1> QED
    BY <1>1, <1>5 DEF Contract!Next

LEMMA ContractTell ==
  ASSUME EndInv, NEW t \in Task, UserCallback(t)
  PROVE  [Contract!Next]_Contract!vars
  <1>1. TypeOK /\ FramesInPlace /\ EndCore
    BY DEF EndInv, EndCore, PcbInv, DispatchInv
  <1>2. PICK c \in Client : c = Top(t).c
    BY <1>1, TopType DEF UserCallback
  <1>3. /\ todo[t] # <<>> /\ UNCHANGED <<own, impl>>
        /\ \/ disc' = disc
           \/ Top(t).op = "onDisconnect" /\ disc' = [disc EXCEPT ![c] = @ + 1]
    BY <1>2 DEF UserCallback
  <1>4. BornAlike /\ \A d \in Accepted : Phase(d)' = Phase(d)
    BY <1>3 DEF BornAlike, Phase
  <1>5. CASE c \notin Accepted \/ disc' = disc
    <2>1. \A d \in Accepted : disc'[d] = disc[d]
      BY <1>1, <1>3, <1>5, StateTypes DEF TypeOK
    <2> QED
      BY <1>3, <1>4, <2>1, ContractSame
  <1>6. CASE c \in Accepted /\ Top(t).op = "onDisconnect" /\ disc' = [disc EXCEPT ![c] = @ + 1]
    <2>1. Over(c) /\ disc[c] = 0
      BY <1>1, <1>2, <1>3, <1>6, TopCarrier DEF EndCore, Carrier, CarrierOp
    <2>2. impl[c] # "none"
      BY <1>1, <1>2, <1>3, <1>6, TopPlace DEF InPlace
    <2>3. Phase(c) = "ended"
      BY <2>1, <2>2 DEF Phase, Over
    <2>4. disc'[c] = 1 /\ \A d \in Accepted : d # c => disc'[d] = disc[d]
      BY <1>1, <1>6, <2>1, StateTypes DEF TypeOK
    <2>5. Contract!Tell(c)
      BY <1>4, <1>6, <2>1, <2>3, <2>4 DEF Contract!Tell
    <2> QED
      BY <1>6, <2>5 DEF Contract!Next
  <1> QED
    BY <1>3, <1>5, <1>6

LEMMA ContractFrame ==
  ASSUME EndInv, NEW t \in Task, FrameStep(t)
  PROVE  [Contract!Next]_Contract!vars
  <1>1. TypeOK /\ FramesInPlace /\ StateInv /\ BornAlike
    BY BornSteps DEF EndInv, PcbInv, DispatchInv
  <1>2. CASE UserCallback(t)
    BY <1>2, ContractTell
  <1>3. CASE TcpClose(t) \/ TcpAbort(t)
    <2>1. todo[t] # <<>> /\ UNCHANGED disc
      BY <1>3 DEF At, TcpClose, TcpAbort
    <2>2. PICK c \in Client : c = Top(t).c
      BY <1>1, <2>1, TopType
    <2>3. \A d \in Client : own'[d] = IF d = c THEN None ELSE own[d]
      BY <1>1, <1>3, <2>2, StateTypes DEF TcpClose, TcpAbort, Release, Forget
    <2> QED
      BY <1>1, <2>1, <2>3, StateTypes, ContractEnd
  <1>4. CASE ~ (UserCallback(t) \/ TcpClose(t) \/ TcpAbort(t))
    <2>1. UNCHANGED <<own, disc>>
      BY <1>4 DEF FrameStep, AbortCheck, ErrorTail, ServerDiscard, Drop, FreeEvent, Destroy,
        Destroyed, ConnectCheck, Dial, TcpConnect, DialFailed
    <2> QED
      BY <1>1, <2>1, ContractSame
  <1> QED
    BY <1>2, <1>3, <1>4

LEMMA ContractLwip ==
  ASSUME EndInv, LwipStep
  PROVE  [Contract!Next]_Contract!vars
  <1>1. TypeOK /\ StateInv
    BY DEF EndInv, PcbInv, DispatchInv
  <1>2. ASSUME NEW p \in Pcb, TcpError(p)
        PROVE  [Contract!Next]_Contract!vars
    <2>1. PICK c \in Client : c = arg[p]
      BY <1>1, <1>2, StateTypes DEF TcpError
    <2>2. own' = [own EXCEPT ![c] = None] /\ UNCHANGED disc /\ impl[c] = "live"
      BY <1>2, <2>1 DEF TcpError, Detach
    <2>3. BornAlike
      BY <1>1, <1>2, <2>1, StateTypes DEF TcpError, Reap, BornAlike
    <2>4. own'[c] = None /\ \A d \in Accepted : d # c => own'[d] = own[d]
      BY <1>1, <2>2, StateTypes
    <2> QED
      BY <1>1, <2>2, <2>3, <2>4, ContractEnd
  <1>3. CASE UNCHANGED <<own, disc, impl>>
    <2>1. BornAlike
      BY <1>3 DEF BornAlike
    <2> QED
      BY <1>3, <2>1, ContractSame
  <1> QED
    BY <1>1, <1>2, <1>3, ContractAccept
      DEF LwipStep, TcpConnected, TcpRecv, TcpFin, TcpSent, TcpPoll, TcpErrorQueue

LEMMA ContractNext ==
  ASSUME EndInv, [Next]_vars
  PROVE  [Contract!Next]_Contract!vars
  <1>1. TypeOK /\ FramesInPlace /\ Async \in Task
    BY DEF EndInv, PcbInv, DispatchInv, Task
  <1>2. UNCHANGED impl => BornAlike
    BY DEF BornAlike
  <1>3. CASE HandlerStep
    <2>1. PICK c \in Client : c = Top(Async).c
      BY <1>1, <1>3, TopType DEF HandlerStep, HandleRecv, HandleFin, HandleSent, HandlePoll,
        HandleError, HandleConnected, Handler, At
    <2>2. UNCHANGED <<impl, disc>>
      BY <1>3 DEF HandlerStep, HandleRecv, HandleFin, HandleSent, HandlePoll, HandleError,
        HandleConnected, Handler
    <2>3. CASE HandleConnected
      <3>1. c \notin Accepted
        BY <1>1, <2>1, <2>3, TopPlace
          DEF InPlace, DialOp, HandleConnected, Handler, At, Top, Accepted
      <3>2. \A d \in Accepted : own'[d] = own[d]
        BY <1>1, <2>1, <2>3, <3>1, StateTypes DEF HandleConnected
      <3> QED
        BY <1>2, <2>2, <3>2, ContractSame
    <2>4. CASE ~ HandleConnected
      <3>1. UNCHANGED own
        BY <1>3, <2>4 DEF HandlerStep, HandleRecv, HandleFin, HandleSent, HandlePoll, HandleError
      <3> QED
        BY <1>2, <2>2, <3>1, ContractSame
    <2> QED
      BY <2>3, <2>4
  <1>4. CASE \/ \E t \in AppTask, c \in Client : AppCall(t, c)
             \/ \E c \in Client : TakeEvent(c) \/ TakeAccept(c)
             \/ UNCHANGED vars
    <2>1. UNCHANGED <<own, impl, disc>>
      BY <1>4 DEF AppCall, TakeEvent, TakeAccept, vars
    <2> QED
      BY <1>2, <2>1, ContractSame
  <1> QED
    BY <1>3, <1>4, ContractFrame, ContractLwip DEF Next

LEMMA ContractInit == Init => Contract!Init
  <1> SUFFICES ASSUME Init PROVE Contract!Init
    OBVIOUS
  <1>1. \A c \in Accepted : impl[c] = "none" /\ disc[c] = 0
    BY DEF Init, Accepted
  <1> QED
    BY <1>1 DEF Contract!Init, Phase

\* Whatever the tasks, the callbacks and lwIP do, the application sees connections that
\* begin once, end once and for good, and whose end is told at most once and never early.
THEOREM Implements == Spec => ContractHolds
  BY ContractInit, ContractNext, EndInvariant, PTL DEF Spec, Contract!Spec, ContractHolds

=============================================================================
