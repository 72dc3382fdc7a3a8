# Verification of AsyncTCP

TLA+ models, TLC runs and TLAPS proofs for the library in `src/src/`: asynchronous
TCP over lwIP for ESP32/LibreTiny (FreeRTOS: the `tcpip` thread, the `async_tcp`
service task, application tasks; mbedTLS) and ESP8266 (one cooperative context;
BearSSL). The repository has no tests; the code and its comments are the
reference.

## 1. Inventory

| Component | State | Operations | Correct when |
|---|---|---|---|
| Client life cycle: `AsyncClient` (facade), `AsyncClientImpl` (`AsyncTCP.cpp` 1029-1270, 1344-1554) | `_pcb`, `_facade`, `_dead`, callbacks, `_cb_ctx`, the `shared_ptr` count | `connect`, `close`, `abort`, delete, the dispatched handlers `_connected _recv _fin _sent _poll _error` | `_pcb` never names a freed pcb; lwIP never calls back a destroyed object; one report of the end; nothing after it |
| lwIP callbacks (500-625) | run on `tcpip` with the core lock | `tcp_accept tcp_recv tcp_sent tcp_poll tcp_error _tcp_connected` | each queues one event for the client in `tcp_arg`; `tcp_error` also detaches |
| Event queue and service task (186-431, `AsyncTCPSimpleIntrusiveList.h`) | intrusive list, mutex, task notification | push back, push front (ACCEPT), pop with poll coalescing and discarding, purge of a client's events | FIFO per client, ACCEPT first, no event lost but polls, no dispatch against a dead impl |
| API wrappers (665-914) | message with `tcp_pcb**` | `_tcp_close _tcp_abort _tcp_connect _tcp_write _tcp_output _tcp_recved` | the pcb is tested under the core lock; ERR_OK/ERR_ABRT/ERR_CONN say whether something ended |
| Listener: `AsyncServerImpl` (1938-2094) | listening pcb, `_session` | `begin`, `end`, `tcp_accept`, `_accepted` | an ACCEPT of an earlier session is never delivered |
| Receive acknowledgement (1237-1252, 1317-1342, 1428-1474) | `_rx_ack_len`, the chain of callback contexts | `ack ackLater ackPacket`, `close` in a callback | each byte is acknowledged at most once, and all of them in the end |
| Poll timers (1504-1543) | millisecond stamps, 32 bit | receive and ack timeout | a live connection is not closed for a wrap |
| Name resolution (197-202, 627-654, 1192-1235, 1545-1554) | `_dns_token`, lookup context | `connect(host)`, `_tcp_dns_found`, `_dns_found` | a superseded answer never dials |
| TLS admission (`AsyncSecureServer.cpp`, `AsyncTCPParkQueue.h`) | park list and pool, live-session count | park, stage bytes, shed, promote, serve | budget kept, every parked pcb served or shed, no slot lost |
| Secure client hooks (`AsyncSecureClient.cpp`) | session pointer | `onConnected onRecv onSent onPoll onWrite onClosing onError` | session released once, while or after the pcb |
| Sessions (`AsyncSecureSession.cpp`): mbedTLS (ESP32) and BearSSL engine (ESP8266) | receive buffer, held pbufs, handshake flag; output ring, slab, pump state | feed, handshake, read, write, pump, ack | wire order, each byte acknowledged once, no stall |
| Logging, version, macros; examples | none | | not modelled |

**Interactions.** lwIP calls back on the `tcpip` thread with the raw pointer in
`tcp_arg`; the callback appends an event that holds a `shared_ptr` to the impl;
the service task pops it, runs the handler (which runs user callbacks), and frees
it. User callbacks and application tasks call back into the client; whatever
touches a pcb goes through `tcpip_api_call`, which takes the core lock. A TLS hook
intercepts the handlers; the server's discard hook runs after `onDisconnect` and
promotes parked connections.

**What is hard.** Three kinds of task change `_pcb`, the queue and the ownership of
the impl, each under a different lock or none; user callbacks re-enter the library
at every depth and may delete the object whose method is running; the end of a
connection can come from lwIP (an error), from the peer (FIN), from a timeout, from
any task (`close`, `abort`, delete) and from several at once, and must be told once.
Packet allocation can fail at each callback. `PROJECT.json` lists the hazards at
their lines.

## 2. Modules

| Module | What it is |
|---|---|
| `Connection` | The contract: each server connection opens once, ends once and for good, is reported at most once and only after its end. |
| `ClientLife` | The code: clients, pcbs, events, tasks with stacks of pending work. |
| `ClientLifeInv` | The inductive invariants `DispatchInv`, `PcbInv`, `EndInv`. |
| `MCClientLife` | Instance for TLC; the `Life*.cfg` files give the constants. |
| `ClientLifeProofs` | Theorems and proofs. |
| `EventOrder` | What the event queue promises: order, connections announced first, only polls lost. |
| `IntrusiveList` | The singly linked list with its tail pointer. |
| `EventQueue` | The queue on that list, on both platforms: packets, coalescing, discarding, purge, wake-up. It implements `EventOrder`. |
| `EventQueueProofs` | Theorems: the list is sound, no wake-up is lost, ACCEPT comes first, the order is kept. |
| `RecvCredit` | The receive window: callback contexts, `ack`, `ackLater`, `ackPacket`, `close`, a second connection of the same client. |
| `RecvCreditProofs` | Theorems: the window is conserved and a close is graceful. |
| `SequenceLemmas` | Induction and recursion over sets and functions, folds, `FlattenSeq`, sums and their prefixes: for `EventQueueProofs`, `RecvCreditProofs`, `MbedTlsProofs` and `BearTlsProofs`. |
| `PollTimers`, `PollTimersProofs` | The receive and the ack timeout in wrapping arithmetic; theorems. |
| `Admission`, `AdmissionProofs` | TLS listeners (ESP32): admission, park line and slot pool, promotion, ACCEPT events and the listener session; theorems. |
| `MbedTls`, `MbedTlsProofs` | TLS on the ESP32: one connection, its session and its hooks, between three threads; theorems. |
| `BearTls`, `BearTlsProofs` | TLS on the ESP8266: admission, session, engine pump, record ring and hooks, in one thread; theorems. |

All but `ClientLife` are checked as they stand, by the cfg of the same name.
`ClientLife` leaves to the others what an event carries and when it is due:
`EventQueue` justifies its per-client queues, `PollTimers` its free choice of
the receive timeout, `RecvCredit` and `MbedTls` are what `_recv` does inside a dispatch.

### ClientLife and the code

| Variable | In the code |
|---|---|
| `pcb` | what lwIP has: `free`, `new` (tcp_new), `syn`, `est`, `fin` (peer's FIN received), `gone` (freed or handed back) |
| `arg` | `tcp_arg` of a pcb, a raw `AsyncClientImpl*` |
| `own` | `AsyncClientImpl::_pcb` |
| `facade` | `none`, `live`, `cut` (`~AsyncClient` has begun: `_facade` is null), `gone` |
| `impl` | `none`, `live`, `dying` (destructor running), `dead` |
| `queue` | the queued events of each client, oldest first |
| `accept` | clients whose ACCEPT event is queued |
| `shown` | clients the application has a pointer to |
| `todo` | per task, the stack of calls in progress, top first |
| `lwip` | a client whose `tcp_error` has detached it and not yet queued ERROR |
| `disc` | history: calls of `onDisconnect` |

One step is one critical section, or the code between two reads of shared state.
What runs under the core lock (`_tcp_close_api`, `_tcp_abort_api`, the lwIP
callbacks) is one step; `tcp_error` is two, because the service task takes only the
queue mutex and runs between `_pcb = nullptr` and the queueing of ERROR. `_tcp_abort`
is two (`AbortCheck`, `TcpAbort`): it tests `_pcb` before it takes the lock.
Everything a call still has to do is a frame on its task's stack: `close()` is
`tcpClose`; if that ended something it becomes `onDisconnect`, `serverDiscard`; a
user callback is a frame that returns or calls back into any client the application
knows. A dispatched event has `free` at the bottom of the stack, which is the
`shared_ptr` the event holds until `_free_event`.

Reference counting is not a counter: an impl is held by its facade, by its queued
events and by the dispatched event (`HeldBy...`), and the step that removes the last
of these runs the destructor.

The application is arbitrary, with two limits: it deletes a client only if no other
application task is inside a call on it (what the service task does it cannot
know), and it deletes it once.

### Admission and the code

| Variable | In the code |
|---|---|
| `at` | where a connection is: `parked` (the pcb's callbacks are the hooks' `_s_...`), `offered` or, if it was parked before, `promoted` (an `AsyncClient` whose ACCEPT is queued), `checked` (its ACCEPT passed the session test), `open`, `ending` (its discard hook is still to run), `ended`, `gone` |
| `slot` | `pending_pool[i].pcb`, one pool for all listeners |
| `line`, `parked` | `_secureCtx.pending` and `_secureCtx.parked` of a listener |
| `accepts` | the ACCEPT events, which stand at the front of the queue, last arrived first |
| `live` | the `AsyncSecureSession` objects (`_active_count`) |
| `session`, `listening` | `AsyncServerImpl::_session`; the listener has a pcb |
| `lost` | clients whose pcb failed before their ACCEPT was dispatched |
| `stale` | history: connections not yet delivered when `end()` was called |

Everything the hooks do runs under the core lock and is one step. Dispatch of an
ACCEPT is two (`TakeAccept` reads `_session`, `Accepted` builds the session), and so
is the end of a served client: `ConnDone` is the discard hook, which promotes;
`Destroy` is `~AsyncClientImpl`, which deletes the session. In between the client
still counts as live. Time is left open: a poll may find the idle time of a parked
connection over or not. The life of a served client is `ClientLife`'s.

### EventQueue and the code

| Variable | In the code |
|---|---|
| `list` | `_async_queue`: `head`, `tail` (the address of the last link, `HeadLink` for the head's), `next` of each packet, `size` |
| `pkt` | `lwip_tcp_event_packet_t` by address, or free memory |
| `lwip` | the lwIP thread between two critical sections of `tcp_poll` or `tcp_error` |
| `client` | whether a client's callbacks are bound, or it was `refused`: no packet for its ACCEPT; a bound on its events |
| `work` | the service task with its notification, or the scheduled `_process_async_event` |

A step is one hold of the queue's mutex. A packet is reused as soon as it is free,
so a stale pointer in the list shows. What `_get_async_event` may return, with its
rounds of coalescing and its random discards, is the set `Gets`.

### RecvCredit and the code

`net` is lwIP's side (pcb, window left to the peer, RECV events as chains of pbufs),
`rcv` the position in the loop of `_recv` with the callback context on top
(`later` is its `ack_later`, `ackLen` what it counts), `ackLen` is `_rx_ack_len`, `held` the pbufs
an `onPacket` callback kept. `hist.close` records how lwIP answered the last close:
a FIN when its window was whole; a reset for bytes the application never got or kept
(`rst`); and `cut`, a reset although everything was delivered and given back or put off.

### PollTimers and the code

`now` is `millis()` modulo `Wrap`; `stamp` holds `_rx_last_packet`, `_tx_last_packet`
and `_rx_last_ack`; `poll` is the position in `_poll` with the `now` it read; `out` is a
`send()` between writing its stamp and taking it back. `past` keeps the true times,
which the code does not have.

### MbedTls and the code

| Variable | In the code |
|---|---|
| `net` | lwIP: pcb, units sent, RECV events (chains of pbufs), window, what was handed to `tcp_write` |
| `bio` | `_ssl_rx_buf_capacity`, the bytes in `_ssl_rx_buf` up to `_ssl_rx_buf_len`, `_ssl_rx_pos`, `_pending_pbufs` |
| `tls` | the mbedTLS context: units read, records encrypted, `out_left`, whether it is in error |
| `ses` | `_pcb`, `_handshake_done`, `_have_ca_cert`, `handshake_start_time` of the session; who is between `onClosing` and `tcp_close` |
| `pc` | where the service task is in `SecureClientHooks::onRecv` |

Each call into mbedTLS that can be followed by another thread's step is a step:
one flight sent, one message read, one record decrypted. Bytes are numbered units, so
that order and loss are visible; mbedTLS reads to the end of a record and repeats a
send that was refused.

### BearTls and the code

`s[c]` is a connection: lwIP's side (`sent`, `rxq`, `win`, `wire`, `acks`, and `lost`, the history of
units whose SENT event found no memory), the
`tcp_ssl_pcb` (`pend`, `off`, the ring's `next`, `pinned`, `acked`, `len`, `rec`, `defer`, `stall`,
`pump`, `hs`), the BearSSL engine (`fed`, `app`, `st`, `out`) and the session (`done`).
`run` is the run of `process_ssl_engine` in progress. The engine yields between passes, and lwIP
and scheduled functions run then: a pass is a step. Everything else runs to its end
in the loop. A unit on `wire` names the ring slot that lwIP would send it from again and
the record it must be; slot 0 begins at the engine's own output buffer (`Built`).

## 3. Runs

| Run | Question | Properties |
|---|---|---|
| `life_tasks` | Two accepted connections; the loop task closes, aborts and deletes both, in and out of callbacks, while lwIP delivers, errors and the service task dispatches; allocation may fail. | `EndInv`, `OwnedPcbIsLive`, `CallbackReachesOwner`, `AtMostOneDisconnect`, `NothingAfterDisconnect`, refinement `ContractHolds` |
| `life_callbacks` | Two accepted connections used from their callbacks only. | `QuietAfterDisconnect`, `EndIsReported` |
| `life_dial` | One outgoing client, two pcbs, the loop task dials, redials, closes, aborts, deletes. | `TypeOK`, `NeverDispatchDead`, `DialAnswered` |
| `life_dangling` | Violation: comment at `AsyncTCP.h:473`. | `LwipHoldsImpl` |
| `event_queue` | Two clients, four packets: events put in at both ends, coalesced, discarded, purged, on both platforms. | `ListSound`, `NoLostWakeup`, `AcceptFirst`, refinement `OrderKept`, `Drained` |
| `recv_credit` | `onData` and `onPacket`, every mix of acknowledgements, closes and resets, two connections. | `TypeOK`, `CreditConserved`, `CloseIsGraceful`, `WindowReopens` |
| `poll_timers` | Both timeouts from every value of the clock, on both platforms. | `TypeOK`, `SilenceIsClosed`, `OnlySilenceCloses`, `TimeoutIsRight` |
| `admission` | One TLS listener, four connections, two slots, a budget of one session; the listener is ended and begun; allocation may fail. | `TypeOK`, `SlotsMatch`, `ParkAllocHits`, `ParkedLeaves`, `NoStaleAccept` |
| `mbed_tls` | One TLS connection in both roles; the peer, the service task, and a task that writes and closes. | `WireOrder`, `CreditMatches`, `RecordsInOrder`, `HandshakeEnds` |
| `mbed_dial` | Violation: comment at `AsyncSecureSession.h:676`. | `HandshakeStarts` |
| `bear_tls` | Two accepted TLS connections, one after the other, and an outgoing one. | `TypeOK`, `RingMatchesWire`, `WindowConserved`, `ConnectBeforeData`, `PumpArmed`, `AllFed`, `RecordLeaves` |
| `bear_outbuf` | Violation: comment at `AsyncSecureSession.cpp:599`. | `SlotIntact` |

**Bounds, life.** Every action touches one client, and clients interact only through the
service task (which serves one event at a time) and through callbacks of one that
close another: two clients show both. `MaxQueue = 2` leaves room for an event before
ERROR and one behind it, and the purge of more than one event. `MaxDepth = 5` admits
a callback inside a callback inside a dispatch, each with its remaining work (a
delete inside `onError` inside an `abort` inside a dispatch is five frames). A pcb is
used once, which leaves out the reuse of an address by lwIP's allocator.
`life_dial` has `MaxQueue = 1` and `MaxDepth = 1`: the loop task makes its calls
from an empty stack, and callbacks return at once; the calls made inside callbacks
are `life_tasks`' and `life_callbacks`' subject.

`QuietAfterDisconnect` and `EndIsReported` are checked with `AppTask = {}`. With
another task the first does not hold of the code, and cannot: an event already
popped when that task closes the client still runs its callback. `EndIsReported`
takes `MayFail = FALSE`: when the ERROR packet cannot be allocated the code gives up.

`life_tasks` checks safety only and uses the symmetry of clients and of pcbs, which
no definition tells apart.

**Bounds, the rest.**
- `admission`: one connection lives, two wait and the fourth is refused; two slots are
  the least for a line whose head and tail differ, and for an orphan (the error of one
  parked connection while another waits). Three sessions are one begin, one end, one
  begin again.
- `event_queue`: four packets, so that an event can stand before, between and behind
  those that a purge or a coalescing takes, and memory can run out; a queue size of 3,
  so that every threshold of `tcp_poll` and `_get_async_event` is crossed; three events of a client
  make two polls in a row and one event behind them. One of three places for scheduled
  functions is the application's: a place is always found, see `NoLostWakeup` in section 5.
- `recv_credit`: a window of four units and pbufs of one or two: two pbufs in delivery, one put off
  and one queued. Two connections show what the first leaves to the second: a count, or
  packets that the application still holds.
- `poll_timers`: a clock of six values with a day of two and timeouts of two is the smallest
  in which both timeouts, the day's window and the wrap are told apart. `PollEvery` says how late a
  POLL may be handled; the theorems hold for every value of these.
- `mbed_tls`: a buffer of two units that may grow to three, a window of four: pbufs must
  be held back, compacted and retried. Five places on the wire hold the two flights and
  three records or repetitions.
- `bear_tls`: two ring slots and records of one or two segments, a send buffer of three:
  records wait for a slot, for room, and for an ACK that covers half of one. Two passes a
  run let a run end with work left. Two units may lose their SENT (`Losses`), the least that can pin both
  slots for good. Accepted connections follow one another on the shared
  engine, and the outgoing one shares nothing with them and is explored apart. `bear_outbuf`
  has one slot, which gives the shortest behaviour.

**Fairness.** In `ClientLife`: FreeRTOS runs every ready task, so a stack
of pending work and the rest of `tcp_error` go on (weak fairness). The queue is FIFO
and the service task never stops, so each client's head event is taken although
others come in between: per client that is strong fairness. lwIP ends every SYN by
an answer or a timeout (strong fairness, because the queue bound can disable it for
a while). Nothing is assumed of the application or the peer. `Admission` assumes that
a bound pcb is polled past its idle time (weak fairness of `ShedParked`: lwIP polls
it every two seconds, and `millis()` goes on), and nothing of promotions.
`EventQueue`: the service task runs on, a scheduled function is called, and lwIP's
callback goes on to its second section. `RecvCredit`: the service task goes on, and the
application acknowledges what it put off and the packets it kept, which the API asks of
it; without that no window reopens. `MbedTls`: the service task, lwIP's poll of an open pcb
and the second half of a close go on. `BearTls`: the loop ends its runs and serves what is
scheduled and queued, lwIP polls open connections and gets an ACK for what is on the wire
or gives the peer up. These two state fairness by the change that an action makes,
which TLC evaluates faster; `FairSpec` of `MbedTls` is the usual form.
`PollTimers` has none: its bounds on time are safety.

**Deadlock** is not checked: with every connection used and every stack empty the system
rests, as the program does.

## 4. Proofs

Checked by tlapm for every value of the constants, from the `ConstantsAssumption` of each
module alone.

**Client life.** One inductive invariant in three layers (`Dialer \subseteq Client`,
the model values distinct, the bounds natural numbers).

1. `DispatchInv` (`ClientLifeProofs`). `free` stands only at the bottom of the
   service task's stack, and a destructor frame only over an impl that is dying; so
   an impl that an event holds is alive. Theorems `TypeCorrect`, `DispatchAlive`.
2. `PcbInv` (`ClientLifeProofs`). `OwnedPcbIsLive` alone is not inductive: it needs
   that the owner of a pcb is held by its facade, that a `drop` has its `tcpClose`
   above it on the same stack or comes after it, that an undelivered client is touched by
   nobody, and that the pcbs of dials never meet those of accepted connections.
   Theorems `OwnedAlive`, `CallbacksReach`.
3. `EndInv` (`ClientLifeProofs`). The end of a connection is one token: it is the pcb,
   then the pending half of `tcp_error`, or the queued ERROR, or one frame that leads
   to `onDisconnect`, or the count `disc`. Each step moves the token; none copies it.
   Theorems `EndInvariant`, `DisconnectedOnce`, `DisconnectIsLast`, and `Implements`:
   every behaviour of `ClientLife` is one of `Connection`, under
   `phase` = absent/open/ended by `impl` and `own`, `told` = `disc`.
   Where all calls come from callbacks, `QuietInv` adds that a frame which calls the application,
   or will, is the top of its stack and its connection unreported: an event is taken
   only while there is something to end, and nothing runs between that and the handler's
   call. Theorem `QuietWithoutTasks` (`QuietAfterDisconnect`, assuming `AppTask = {}`).

**Timers** (`PollTimersProofs`; any clock width, day and timeouts with
`RxTimeout + 2 * PollEvery <= Wrap`). `TimerInv` ties each stamp to the true time it
stands for: the difference from `now` is that time as long as it is below `Wrap`
(`StampsTell`), the distance of the last send and the last answer is that of their stamps
(`OrderTold`), the time the handler read is not far behind (`PollTold`), and silence is bounded by what the
next POLL will find (`SilenceBounded`). The lemmas on `Minus` reduce `%` to two cases of
subtraction. Theorems `TypeCorrect`, `ClosedForSilence`, `SilenceCloses`,
`TimeoutsAreRight`.

**Admission** (`AdmissionProofs`; any connections, listeners and slots). `AdmissionInv` has
the types, `ParkInv` (`SlotsMatch` needs that no connection has two slots) and
`EventInv`: each ACCEPT in the queue is of one connection that waits for it, and once
`end()` has made that connection stale, of an earlier session. Theorems `TypeCorrect`,
`SlotsAgree`, `EndedIsStale`, and `OneListenerHits`, which needs that there is one
listener: every used slot is then in its line, so a count below the size of the pool
leaves a slot free.

**Folds and recursive functions** (`SequenceLemmas`). The library's induction theorems take
an operator, which no prover here can give them. `SetInduction` takes a set of numbers instead, and
follows from the well-foundedness of `<`. From it: a fold over a sequence, which is a recursive function
on the subsets of its domain, has a value for each prefix, and these are linked one by one (`IterationExists`,
`PathExists`). The sums of `RecvCredit` and the list walks of `EventQueue` are read off such
paths (`SumPath`, `PopNPath`, `RemovePath`), and so is `feedRx`, a fold over the pbufs (`FeedPath`).
Sums are additive over concatenation (`SumConcat`), and their prefixes grow step by step
(`PrefixStep`), so that the longest prefix within a bound exists and ends just below it
(`LongestPrefix`): the pbufs that were fed to their end, and the slots that an ACK covers.

**Receive credit** (`RecvCreditProofs`; any window, sizes and number of connections). `RecvInv`.
The equation of `CreditConserved` is not inductive: `tcp_recved` clips at `Window`, so an excess
would vanish unseen, and it says nothing while a count or held packets are an earlier connection's. `CreditInv` therefore
says of every open connection that what is accounted for is no less than `Window`, and no more
than a window for each connection so far, which also bounds the counter after a reset; without an
such inheritance it is `Window`. Then a close that leaves the window short leaves bytes
undelivered or held, which is `CloseIsGraceful`. Theorems `TypeCorrect`, `CreditIsConserved`,
`ClosesGracefully`.

**Event queue** (`EventQueueProofs`; any packets, clients, queue size and pool of functions).
`IsList(l, w)` says that the links of `l` spell out the sequence of packets `w`. Each operation on links is shown to
be one on `w`: push is append or prepend, pop is a drop, `remove_if` keeps a subsequence (`Keeps`), and
a take drops a prefix of which it keeps at most one event, the others being polls (`Takes`).
`QueueInv` has five parts: `TypeInv`; `ListInv`, the links and the allocation; `WakeInv`; `AcceptInv`; and
`RefusedInv`.
`AcceptFirst` alone is not inductive: it looks at the packet that was taken, so `AcceptInv` says of every
waiting event that its client was announced or will be by an event before it (`Ordered`), and the same of
a client that may still send (`Known`). A purge keeps this because it spares ACCEPT. The exception
are clients that `tcp_accept` gave up for lack of memory: `RefusedInv` says that such a client was never announced
and has at most its one ERROR, pending in `tcp_error` or queued. Theorems `ListIsSound`, `WakeupIsKept`,
`AcceptComesFirst`, and `OrderIsKept`: under the mapping of `EventQueue.Order`, each step is one of
`EventOrder` or a stutter.

**mbedTLS** (`MbedTlsProofs`; any buffer size and limit, window, bound on the wire, and any
choice of `realloc`, of the peer and of the application). `MbedInv`. `feedRx` is the core: by
induction along its fold (`FeedRxCorrect`), the buffer and the held pbufs together grow by exactly the chain, and
what it says it consumed is what was held before, plus the chain, less what is held now. `CreditMatches` is inductive
with the types. `WireOrder` needs the sender's side as well (`OrderInv`): what arrived is 1, 2, ...,
and, until the peer is done, as much as it has sent, so that the next segment continues it. For `RecordsInOrder`, `RecordInv` says of
mbedTLS's count that every record up to it was handed over, but for the last if it is left
over: so a record that goes out is never two ahead. Theorems `BytesInOrder`,
`CreditIsExact`, `RecordsLeaveInOrder`.

**BearSSL** (`BearTlsProofs`; any connections, ring, windows, bounds of the engine and length of the
talk). All operations are functions of one session record, so `BearInv` says of every
record that it is `Good`, and of those that no run is working on that they are `Armed`. Each
operation is shown to keep `Good` once, and each action composes them; `Keeps` states which fields an
operation leaves alone. What the properties need beyond themselves:

- `WindowConserved` is inductive with the types (`FeedIs`): `Fed` credits the longest prefix of `rx_pend` that ends
  before the new offset, and the offset stays within the head that is left.
- `RingMatchesWire` needs that a live session has nothing on the wire from outside the ring
  (`RingOK`): copies are made only by a close, after which the session is gone. It needs as well that
  less than a record is left acknowledged when slots were released, which follows from records of at most
  two segments: `out_ring_acked` is 0 or 1. `ReleasedIs` shows that the released
  slots are the ones whose records the ACKs cover.
- `ConnectBeforeData` needs the order of the handshake (`TalkOK`). For an accepted connection
  `on_handshake` and `on_data` look at the same condition. For an outgoing one they do not: the hook waits until
  the engine can send, so the proof needs that with application data in the engine both flights are out
  and nothing else is, because the peer sends data only after it has seen both
  and the application cannot write before it was told.
- `PumpArmed` is `Armed` while no run is on. A run may lose it, by a greeting or a record that comes in, and
  whatever leaves the loop of passes restores it: `Rest` schedules, `Defer` leaves the record to the next ACK
  or to the poll. `onPoll` goes on after its run, so `BearInv` asks for it there as well.

- A lost SENT (`lost`) stays in these equations for good: the pinned slots hold what is on the wire, what is told
  or to be told, and what will never be told. So no slot is released early or twice, and one is leaked only for a lost SENT.

`RegisteredSlotsStayIntact` bounds the finding of `bear_outbuf`. `HoldOK` numbers the units that the pinned slots
hold, oldest first: unit `acked + acks + lost + i` is the `i`-th on the wire, it names the slot that its
number falls into, and unless that is slot 0 the slot still holds its record. So while a session is registered, what
lwIP may send again lies in a pinned slot, untouched but for slot 0. After a close nothing is said: see
section 5. Theorems `TypeCorrect`, `RingIsExact`,
`WindowIsConserved`, `ConnectComesFirst`, `PumpStaysArmed`, `RegisteredSlotsStayIntact`.

**Only model-checked**: the liveness properties (`EndIsReported`, `DialAnswered`, `ParkedLeaves`, `Drained`,
`WindowReopens`, `HandshakeEnds`, `AllFed`, `RecordLeaves`), which are outside the prover's reach. Every safety
property of a passing run is a theorem.

## 5. Findings

Three comments describe a behaviour the code does not have; each has a violation run
and an entry in `PROJECT.json`.

- lwIP's callbacks hold a raw pointer, so a client deleted during its dial leaves it
  dangling (`life_dangling`). The model stops following a destroyed impl (the guards
  `impl[arg[p]] = "live"` of the lwIP callbacks): what the program does after that is not
  modelled.
- Slot 0 of the record ring is the engine's output buffer: the next record is built over
  bytes that lwIP may have to send again (`bear_outbuf`).
- An outgoing TLS client on the ESP32 never says hello: `runSSLHandshake` is called when
  something is received, and a TLS server sends nothing first. The handshake timeout
  is armed by the same call (`mbed_dial`).

The models take over these, which no run is spent on:

- `abort()` on a client whose pcb lwIP has already freed returns before the purge its
  comment asks for (`AsyncTCP.cpp:821, 840`). A client deleted in `onError` still gets `onDisconnect`, with
  a null facade (1412).
- CONNECTED is queued and the pcb fails before it is dispatched: `_connected` installs the
  freed pcb (1379). So `OwnedPcbIsLive` is stated for accepted clients.
- The gate of TLS admission counts sessions that are built only when an ACCEPT is dispatched, so a
  burst passes it as a whole (`AsyncSecureServer.cpp:475`). The hook that is to promote a parked
  connection at once runs before the ended session stops counting (641), so at a full
  budget the promotion waits for the next poll. The slot pool is shared by all
  TLS listeners while each guards it with a counter of its own, so a second listener can
  find no slot and dereference NULL (477). A parked connection promoted after `end()` gets the
  session of that moment and is delivered.
- A packet stamped between lines 1514 and 1530 of `AsyncTCP.cpp` makes the difference wrap, and a connection
  that has just heard from its peer is closed for silence. The comment at 561 wants the stamp
  early so that this does not happen. A send in the millisecond of the last answer, or
  more than a day after it, is not watched by the ack timeout (1519).
- The result of `schedule_function` is ignored when the queue's wake-up is scheduled
  (254-282): with a full pool the queue would rest. `NoLostWakeup` is checked with a place left.
- A SENT event that finds no memory is gone with its length: lwIP ignores what the callback returns
  (`AsyncTCP.cpp:591-594`). The BearSSL ring then keeps that slot pinned for good. When all slots are pinned so, and by
  default there is one, the pump waits for an ACK that will not come (the comment at
  `AsyncSecureSession.cpp:554` says to wait for ACKs); the stall clock runs only for a refused `tcp_write`, and a
  pinned slot counts as a busy sender (823). `RingMatchesWire` counts the lost units, and `RecordLeaves` excepts
  the ring they have wedged (`Wedged`).
- Closing a BearSSL session deletes its slab (`AsyncSecureSession.cpp:289`) while lwIP may still have to send again
  from it, because the ring is handed over without a copy.
- When the ACCEPT packet cannot be allocated, the pcb is aborted with its callbacks bound
  (`AsyncTCP.cpp:2037-2042`): `tcp_error` may queue the ERROR of a client nobody was told of, and its facade is
  never freed. `AcceptFirst` says so.
- mbedTLS, told that `tcp_output` is out of memory, offers a record again that `tcp_write` took:
  it goes out twice (`AsyncSecureSession.cpp:1964`). `RecordsInOrder` allows the repetition.
- Application data that came with the last flight is decrypted only at the next receive
  event (`AsyncSecureClient.cpp:249`). What the application writes before the handshake is
  done goes out as it is (300, `AsyncTCP.cpp:1293`).
- On the ESP8266 `feedRx` takes the handshake for done with the first pbuf
  (`AsyncSecureSession.cpp:1788`), so the handshake timeout of `onPoll` covers only a peer that
  sends nothing; later the idle timeout ends a silent connection. When lwIP frees a pcb, the
  session still writes its last records to it (`AsyncSecureClient.cpp:325` expects a no-op).

`NoStaleAccept` is stated for connections that were never parked; `CreditConserved` for
connections that did not inherit a count or held packets: `_rx_ack_len` is not reset when a connection
ends by a reset, and `ackPacket` credits whatever pcb the client has.

## 6. Not modelled

- Name resolution. `connect(host)` is one lookup, a token that tells superseded answers,
  and the dial that `ClientLife` has. Its hazards (the token is read without the lock it is
  written under; the port is stored after the lock is released) are in `PROJECT.json`.
- The write path of plain connections (`space`, `add`, `send`) but for the stamps, and bytes
  that are sent; the order of events between clients in `ClientLife`, which is `EventQueue`'s;
  `tcp_accept` without a callback installed or without memory for the client (the pcb
  is aborted and nothing else changes); `onTimeout` apart from `onPoll`.
- `ack()` and `send()` of two tasks at once, which race `_rx_ack_len` and the stamps: the
  counters are not atomic. The setters of timeouts.
- In `MbedTls`, `mbedtls_ssl_write` of an application task is one step, although the code holds no lock around it
  (`AsyncSecureSession.cpp:2533-2541`): what the library does to a context that two threads are in is not in
  this repository. In `BearTls`, a full pbuf queue of lwIP (578) is not told apart from lack of room, which ends the pass
  in the same way.
- In `Admission`: the bytes a parked connection buffers, sessions of outgoing TLS
  clients (they count against the same budget), a listener whose bind or listen fails, the
  destruction of a server, and a session that is built and deleted again within
  `_acceptedTls`.
- Cryptography, certificates, session tickets and caches, the slab's layout, trust anchors and
  key parsing: the sessions are seen from the bytes that go through them. How free memory is measured
  in admission is left open. What a program does after it used a freed object.
- The creation of the queue, its mutex and the service task; logging, version, macros and
  examples.

Worth adding: `NameDial`, with the port an answer is dialled to; the staged bytes of a parked connection;
reads of a destroyed impl.
