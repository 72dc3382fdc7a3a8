----------------------------- MODULE EventQueue -----------------------------
(***************************************************************************)
(* The global event queue, from lwIP's callbacks to the handlers.          *)
(*                                                                         *)
(* On FreeRTOS ("task") a mutex guards the list, and a service task sleeps *)
(* until it is notified.  On the ESP8266 ("coop") everything runs in one   *)
(* thread and the first event put into an empty list schedules a function, *)
(* which handles one event and schedules itself while there are more.      *)
(*                                                                         *)
(* Events that the queue treats alike are "DATA".                          *)
(***************************************************************************)
EXTENDS IntrusiveList

CONSTANTS
  Platforms,   \* those explored
  Client,
  QueueSize,   \* CONFIG_ASYNC_TCP_QUEUE_SIZE
  FnMax,       \* how many functions can be scheduled
  FnOthers,    \* how many of them the application takes
  Sends        \* bound: events of one client

ASSUME ConstantsAssumption ==
  /\ Platforms \subseteq {"task", "coop"}
  /\ IsFiniteSet(Node) /\ Null \notin Node /\ HeadLink \notin Node
  /\ {QueueSize, FnMax, FnOthers, Sends} \subseteq Nat
  /\ 0 < QueueSize /\ FnOthers < FnMax

VARIABLES
  list,     \* _async_queue
  pkt,      \* the event in each packet, Free if it is not allocated
  lwip,     \* where lwIP's thread is between two critical sections
  client,   \* per client: new, bound (its callbacks are set), gone, or refused when
            \* it was accepted and there was no memory to say so; events left
  work      \* the service task, or the scheduled functions

vars == <<list, pkt, lwip, client, work>>

Free == [kind |-> "free"]

Init ==
  /\ list = Empty
  /\ pkt = [n \in Node |-> Free]
  /\ lwip = [at |-> "idle"]
  /\ client = [c \in Client |-> [st |-> "new", left |-> Sends]]
  /\ work \in [plat : Platforms,
               at : {"idle"},     \* idle: about to take; wait: about to sleep; handle
               cur : {Null},      \* the packet being handled
               note : {FALSE},    \* a notification is pending
               fns : {0},         \* _process_async_event is scheduled so many times
               told : {{}}]       \* history: the clients whose ACCEPT was handled

-----------------------------------------------------------------------------
(* Putting events in.                                                      *)

\* schedule_function: it may find no place, and nobody looks at the result.
Schedule(w) == [w EXCEPT !.fns = IF @ + FnOthers < FnMax THEN @ + 1 ELSE @]

\* Mutant of Signal: the function is scheduled when there is something already.
SignalLater(l) ==
  IF work.plat = "task" THEN [work EXCEPT !.note = TRUE]
  ELSE IF l.size = 2 THEN Schedule(work) ELSE work

\* After l became the list: notify, or schedule when it has its first event.
Signal(l) ==
  IF work.plat = "task" THEN [work EXCEPT !.note = TRUE]
  ELSE IF l.size = 1 THEN Schedule(work) ELSE work

\* A packet is allocated and goes to one end of the list, or there is no memory.
Fresh == {n \in Node : pkt[n] = Free}
Enqueue(end, kind, c) ==
  IF Fresh = {} THEN UNCHANGED <<list, pkt, work>>
  ELSE LET n == CHOOSE x \in Fresh : TRUE
           m == [list EXCEPT !.next[n] = Null]
           l == IF end = "front" THEN PushFront(m, n) ELSE PushBack(m, n)
       IN /\ pkt' = [pkt EXCEPT ![n] = [kind |-> kind, client |-> c]]
          /\ list' = l /\ work' = Signal(l)

\* _free_event: l is the list, the packets of S are free and their links void.
Release(l, S) ==
  /\ list' = [l EXCEPT !.next = [n \in Node |-> IF n \in S THEN Null ELSE @[n]]]
  /\ pkt' = [n \in Node |-> IF n \in S THEN Free ELSE pkt[n]]

\* The events of client c, by the impl they hold: an ACCEPT holds none.
EventsOf(c) == {n \in Node : pkt[n] # Free /\ pkt[n].client = c /\ pkt[n].kind # "ACCEPT"}

\* Mutant of Purge: the list forgets the ACCEPT of the client as well.
PurgeAll(c) ==
  LET gone == {n \in Range(Chain(list)) : pkt[n].client = c}
  IN Release(RemoveIf(list, gone), gone)

\* _remove_events_for_client: what is being handled is not in the list.
Purge(c) ==
  LET gone == EventsOf(c) \ {work.cur}
  IN Release(RemoveIf(list, gone), gone)

-----------------------------------------------------------------------------
(* lwIP's callbacks.  Spend bounds them.                                   *)

Spend(c, st) == client' = [client EXCEPT ![c] = [st |-> st, left |-> @.left - 1]]
CanSend(c) == lwip.at = "idle" /\ client[c].st = "bound" /\ client[c].left > 0

\* tcp_accept: the ACCEPT overtakes what waits.  Without a packet for it (one
\* allocation may fail and the next succeed) the pcb is aborted with its
\* callbacks set, and tcp_error, which finds _pcb null, has only to queue the
\* ERROR of a client nobody was told of.
TcpAccept(c) ==
  /\ lwip.at = "idle" /\ client[c].st = "new" /\ client[c].left > 0
  /\ \/ /\ Fresh # {}
        /\ Enqueue("front", "ACCEPT", c)
        /\ Spend(c, "bound")
        /\ UNCHANGED lwip
     \/ /\ Spend(c, "refused")
        /\ lwip' = [at |-> "error", client |-> c]
        /\ UNCHANGED <<list, pkt, work>>

\* tcp_recv, tcp_sent, _tcp_connected.
TcpEvent(c) ==
  /\ CanSend(c)
  /\ Enqueue("back", "DATA", c)
  /\ Spend(c, "bound")
  /\ UNCHANGED lwip

\* tcp_poll: one critical section decides by the length and a random number,
\* another one puts the event in.
TcpPoll(c) ==
  /\ CanSend(c)
  /\ Spend(c, "bound")
  /\ \E r \in 0 .. QueueSize - 1 :
       lwip' = IF list.size > r \div 2 + QueueSize \div 4 THEN lwip
               ELSE [at |-> "poll", client |-> c]
  /\ UNCHANGED <<list, pkt, work>>

\* tcp_error: the client's events go, then its ERROR comes.
TcpError(c) ==
  /\ CanSend(c)
  /\ Purge(c)
  /\ Spend(c, "gone")
  /\ lwip' = [at |-> "error", client |-> c]
  /\ UNCHANGED work

SecondSection ==
  /\ lwip.at # "idle"
  /\ Enqueue("back", IF lwip.at = "poll" THEN "POLL" ELSE "DATA", lwip.client)
  /\ lwip' = [at |-> "idle"]
  /\ UNCHANGED client

\* close(), abort(), the destructor: with lwIP's core lock, so between callbacks.
\* What is queued goes whether or not the client still has a pcb.
Close(c) ==
  /\ lwip.at = "idle" /\ client[c].st \in {"bound", "gone"}
  /\ Purge(c)
  /\ client' = [client EXCEPT ![c].st = "gone"]
  /\ UNCHANGED <<lwip, work>>

-----------------------------------------------------------------------------
(* Taking events out.                                                      *)

\* One round of _get_async_event takes the first packet, and if that is a poll
\* all that follow of its client.
Polls(l, c) == {n \in Range(Chain(l)) : pkt[n] = [kind |-> "POLL", client |-> c]}
\* Mutant of Following: whatever follows of the client is taken for a poll.
FollowingAny(l, c) ==
  LET w == Chain(l)
      stops == {i \in 1 .. Len(w) : pkt[w[i]].client # c}
  IN IF stops = {} THEN Len(w) ELSE (CHOOSE i \in stops : \A j \in stops : i <= j) - 1

Following(l, c) ==
  LET w == Chain(l)
      stops == {i \in 1 .. Len(w) : w[i] \notin Polls(l, c)}
  IN IF stops = {} THEN Len(w) ELSE (CHOOSE i \in stops : \A j \in stops : i <= j) - 1
PopN(l, k) == FoldLeft(LAMBDA m, i : PopFront(m), l, [i \in 1 .. k |-> i])
Round(l) ==
  LET n == l.head
      k == IF n # Null /\ pkt[n].kind = "POLL" THEN Following(PopFront(l), pkt[n].client) ELSE 0
  IN [n |-> n, l |-> PopN(l, k + 1), freed |-> Range(SubSeq(Chain(l), 2, k + 1))]

\* A poll is dropped when the list is long, by a random number, and the next
\* round follows: what _get_async_event may return.
Discards(r) == r.n # Null /\ pkt[r.n].kind = "POLL" /\ r.l.size > (QueueSize * 3) \div 4
MayKeep(r) == r.l.size <= (QueueSize - 1) \div 4 + (QueueSize * 3) \div 4
Gets ==
  LET more(r) == LET t == Round(r.l) IN [t EXCEPT !.freed = @ \cup r.freed \cup {r.n}]
      rounds[k \in 0 .. Cardinality(Node)] ==
        IF k = 0 THEN {Round(list)}
        ELSE {more(r) : r \in {x \in rounds[k - 1] : Discards(x)}}
  IN {r \in UNION {rounds[k] : k \in 0 .. Cardinality(Node)} : ~Discards(r) \/ MayKeep(r)}

Told(w, n) == IF n # Null /\ pkt[n].kind = "ACCEPT" THEN w.told \cup {pkt[n].client} ELSE w.told

\* The service task takes an event, or sees none and goes to sleep.
TaskTake ==
  /\ work.plat = "task" /\ work.at = "idle"
  /\ \E r \in Gets :
       /\ Release(r.l, r.freed)
       /\ work' = [work EXCEPT !.at = IF r.n = Null THEN "wait" ELSE "handle",
                               !.cur = r.n, !.told = Told(work, r.n)]
  /\ UNCHANGED <<lwip, client>>

\* ulTaskNotifyTake: it returns when there is a notification, and clears it.
TaskWake ==
  /\ work.plat = "task" /\ work.at = "wait" /\ work.note
  /\ work' = [work EXCEPT !.at = "idle", !.note = FALSE]
  /\ UNCHANGED <<list, pkt, lwip, client>>

Again(w, l) == IF w.plat = "coop" /\ l.size > 0 THEN Schedule(w) ELSE w

\* The scheduled function, up to the handler; lwIP's callbacks run in the same
\* thread and are never half way.
CoopTake ==
  /\ work.plat = "coop" /\ work.at = "idle" /\ work.fns > 0 /\ lwip.at = "idle"
  /\ \E r \in Gets :
       /\ Release(r.l, r.freed)
       /\ LET w == [work EXCEPT !.fns = @ - 1, !.cur = r.n, !.told = Told(work, r.n)]
          IN work' = IF r.n = Null THEN Again(w, r.l) ELSE [w EXCEPT !.at = "handle"]
  /\ UNCHANGED <<lwip, client>>

\* Mutant of Handled: the function does not schedule itself.
HandledOnce ==
  /\ work.at = "handle" /\ (work.plat = "task" \/ lwip.at = "idle")
  /\ Release(list, {work.cur})
  /\ work' = [work EXCEPT !.at = "idle", !.cur = Null]
  /\ UNCHANGED <<lwip, client>>

\* The handler returns and the packet is freed.
Handled ==
  /\ work.at = "handle" /\ (work.plat = "task" \/ lwip.at = "idle")
  /\ Release(list, {work.cur})
  /\ work' = Again([work EXCEPT !.at = "idle", !.cur = Null], list)
  /\ UNCHANGED <<lwip, client>>

-----------------------------------------------------------------------------

Worker == TaskTake \/ TaskWake \/ CoopTake \/ Handled
Callback == \/ \E c \in Client : TcpAccept(c) \/ TcpEvent(c) \/ TcpPoll(c) \/ TcpError(c)
            \/ SecondSection
Next == Worker \/ Callback \/ \E c \in Client : Close(c)

\* The service task runs on, and a scheduled function is called.
Spec == Init /\ [][Next]_vars /\ WF_vars(Worker) /\ WF_vars(SecondSection)

-----------------------------------------------------------------------------
(* Properties.                                                             *)

\* The list is sound whatever was put in at either end, taken out, coalesced or
\* purged: validate_tail holds, the count is right, and a packet is in it
\* exactly if it is allocated and not being handled: none leaks, none is used
\* after it was freed.
ListSound ==
  /\ TailValid(list) /\ list.size = Len(Chain(list))
  /\ Range(Chain(list)) = {n \in Node : pkt[n] # Free} \ {work.cur}
  /\ work.cur # Null => pkt[work.cur] # Free

\* The service task does not sleep, unnotified, over a list with an event, and
\* on the ESP8266 the function is scheduled as long as there is one.
NoLostWakeup ==
  IF work.plat = "task" THEN work.at = "wait" /\ list.head # Null => work.note
  ELSE work.at = "idle" /\ list.head # Null => work.fns > 0

\* An application is handed a connection before anything that happens to it,
\* even if it was reset, and its events purged, while it waited.  The only
\* events handled before are the ERRORs of refused clients, and a refused client
\* is never handed out, nor has it more than that one event.
AcceptFirst ==
  /\ work.cur # Null =>
       \/ pkt[work.cur].client \in work.told
       \/ client[pkt[work.cur].client].st = "refused"
  /\ \A c \in Client : client[c].st = "refused" =>
       /\ c \notin work.told
       /\ \A m, n \in {x \in Node : pkt[x] # Free} :
            pkt[m].client = c /\ pkt[n].client = c => m = n

\* The pointers, the coalescing and the dropping implement EventOrder.
Order == INSTANCE EventOrder
           WITH q <- [i \in 1 .. Len(Chain(list)) |-> pkt[Chain(list)[i]]],
                at <- IF work.cur = Null THEN << >> ELSE <<pkt[work.cur]>>
OrderKept == Order!Spec

\* Every event is handled or dropped: the queue runs empty again and again.
Drained == []<>(list.head = Null /\ work.cur = Null)
=============================================================================
