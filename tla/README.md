# Verification of the bridge server

The bridge server (BS) connects an XMPP media client with a WebRTC peer. A conference control
server (CCS) drives it over TCP: it asks for an ICE session, hands over the remote side's ICE
information, learns the outcome, and then tells the BS where the WebRTC peer is. From then on the
BS forwards RTP between the two sides over UDP.

This directory holds TLA+ models of the server (`src/bridgeserver`) and of its ICE library
(`src/third/eice/src`: the endpoint and the relay client in `eice.cpp`, the tester in
`mstester.cpp`), TLC configurations that check them on
small instances, and TLAPS proofs for arbitrary instances. `PROJECT.json` lists the components,
the runs, the source lines behind each definition, the hazards and the findings.

## 1. The system

There is one *loop thread* (libevent) and one *worker thread* per ICE endpoint.

| part | state it keeps | operations | source |
|---|---|---|---|
| EventThreadCall | `functions_`, `functionsLock_`, the socket pair `wakeFd_` | `threadCall` (any thread), `wakeupCallback` (loop) | `libevent_thread_call.h` |
| TcpServer, Connection | the set `connections_`; per connection `server_`, `canSend_` | accept, read, event, `haveConnection`, `closeConnection` | `TcpServer.cpp`, `Connection.cpp` |
| IceConnection | `recvBuffer_` | `handleCommand`, `parseCommand` | `IceConnection.cpp` |
| IceService | `sessions_`: per id an endpoint, the requesting connection, status, time, ICE result | five CCS commands, the 60 s timer, `getNegoResult` | `IceService.cpp` |
| ForwardService | `forwards_`: per local address the socket, both remote addresses, time of the last packet | `startForward`, `udpCallback`, the 10 min timer, `~Forward` | `ForwardService.cpp` |
| VideoResendService | 1024 cached packets | `cacheData`, `handle` | `MediaFilter.h` |
| AudioRtpFilter, VideoRtpFilter | none that is used | `filter` | `MediaFilter.h` |
| eice endpoint | its configuration, what the other side's content changed of it, `ice_nego_done/status`, `confice_done/status`, a lock, a 4 s timer, a worker thread, stolen sockets | new caller/callee, start, result, steal sockets, free | `eice.cpp` |
| confice | state machine of the conference relay, channels, 200 ms retransmission timer, a group lock | kick-off, select, cancel, packets, free | `eice.cpp` |
| mstester | a test's state, counters and delays, a sending thread, a worker, a 2 s timer, a group lock | new, start, stop, wait, status, free | `mstester.cpp` |
| AppServer, main | owners of all the above | start, stop, SIGINT, `call` | `AppServer.cpp`, `main.cc` |

How they interact:

1. A CCS connection is accepted by TcpServer; its bytes go through `Connection::readCallback` to
   IceConnection, which cuts them into commands and calls `IceService::handleIceCommand`.
2. PREPARE_SESSION or JOIN_SESSION make an eice endpoint, and with it a worker thread. LOCAL_INFO
   goes back to the CCS. START_SESSION (caller) or JOIN_SESSION (callee) start the negotiation.
3. When ICE completes, the worker calls `g_nego_result_func(obj)`, that is `AppServer::call`, which
   queues `getNegoResult(obj)` in EventThreadCall and wakes the loop. The functor looks the session
   up *by the address of the eice object*, stores the result, and sends ICE_RESULT if
   `haveConnection` still knows the CCS.
4. RELAY_SESSION takes over the endpoint's sockets, frees the endpoint, starts one or two forwards
   and erases the session. STOP_SESSION marks or erases a session. A timer reaps old sessions.
5. Forwards are independent of sessions. They end only when silent.
6. Inside an endpoint, the caller and the callee exchange contents (candidates, recommended servers, a
   relay session). Then each runs a direct ICE session and, beside it, a relay object that registers with
   the conference relay and negotiates through it. The caller selects the relay when its direct session
   fails; a direct success cancels the relay. Callbacks of the worker cross from the endpoint into the
   relay object and back, over two locks.
7. The tester is used by client programs, not by the server: it measures loss and delay against an echo
   server.

What is hard: functors that cross threads through a lossy wake-up; functors that name an object
which may have been freed, and its address reused, before they run; the loop thread blocking in
`eice_free` on a worker that may want a lock; timers racing results; commands in any order and
answers that fail half-way; TCP pieces that start and end anywhere; 16-bit numbers that wrap;
descriptors that are closed and reused; an endpoint that is freed under the timers of its worker; two
locks taken in either order; a relay protocol over a network that loses, repeats and reorders; settings
that each side derives alone and that have to agree. The hazards are listed with their lines in `PROJECT.json`.

What makes each part correct, in short: every queued functor runs once, in order, and nobody waits
for ever (EventThreadCall); an endpoint has one owner, a reported result is backed by a finished
negotiation, sessions do not stay for ever (IceService); the commands handled are the commands sent
(IceConnection); the server knows which connections are up (TcpServer, which does not); a forward has an open
socket of its own, lasts while it is used and no longer, and packets cross (ForwardService); recent packets
can be resent (VideoResendService); an endpoint has one outcome and keeps it, and freeing it returns
(eice); both ends agree on the session and on who uses it, and a result is final (confice); the counters
account for every packet and a test ends (mstester).

## 2. Modules

| module | models | composed with |
|---|---|---|
| `CallQueue` | abstract: an ordered queue of functors | implemented by `EventThreadCall` |
| `EventThreadCall` | `threadCall`, `wakeupCallback`, the join in `eice_free` | INSTANCEs `CallQueue` |
| `EventThreadCallProofs` | proofs | |
| `IceService`, `MCIceService` | session table, workers' outcomes, queued results | uses the queue as `CallQueue` specifies it |
| `IceServiceProofs` | proofs | |
| `IceConnection`, `IceConnectionProofs` | framing of the TCP stream, proofs | the proofs extend `TcpServer` too |
| `TcpServer` | connections and their end | proofs in `IceConnectionProofs` |
| `ForwardService`, `ForwardServiceProofs` | forwards and their sockets, proofs | |
| `VideoResendService`, `VideoResendServiceProofs` | cache and resend loop, proofs | |
| `Endpoint` | abstract: what an eice object promises to `IceService` | implemented by `Eice` |
| `Eice`, `EiceProofs` | one endpoint: loop thread, worker, two locks, two timers; proofs | INSTANCEs `Endpoint`; the proofs extend `EiceSetup` too |
| `EiceSetup` | configuration of both ends and the exchange of contents | proofs in `EiceProofs` |
| `ConfIce`, `ConfIceProofs` | both ends of the relay protocol, proofs | |
| `Mstester`, `MstesterProofs` | the media server tester, proofs | |

An operator whose comment begins with "Mutant:" is a deliberately wrong variant of the definition
that follows it. It is not used by any specification; it documents which mistake in the code the
properties would notice.

### EventThreadCall

`functions`, `lock` and `tokens` are `functions_`, `functionsLock_` and the bytes in the socket
pair, in units of one write. Workers go through `enter` (wanting the lock), `locked`, `pushed`
(lock released, token not yet written). The loop goes through `woken` (token read), `drain` (lock
held), `called` (the functor at the front has run and is not popped yet), as in `wakeupCallback`.
`SendToken` drops the token when the socket is full, as the unchecked `::send` does. `join` is the
loop thread inside `eice_free`. `eice_free` waits twice, first for the worker's I/O loop to stop and
then for the thread; both wait for the worker to be between two rounds of `handle_events`, and the
model has one wait.

### IceService

One action per outcome of a command: success, the failure of `eice_new_caller` or
`eice_new_callee`, a refused, crashing or throwing RELAY_SESSION. A command that is rejected
without changing anything (unknown id, wrong status, existing id, unknown operation, RELAY_SESSION
with empty content or without usable address pairs) is a stuttering step. `fits` is whether the data
fits the command buffer; `sendCommand` ends the session when it does not. An endpoint is known by
its address (`Eps`), and by `nego` and `conf`, the two facts `eice_get_nego_result` combines.
`nego = "skipped"` is an endpoint with `force_relay`, for which ICE counts as done. A queued call
carries the address and, for the properties only, whether the object was freed since (`fresh`).
The parameter `forwards` of `RelaySession` is whether a first stream was started: an answer with members of
the wrong type throws before or after that, and the session is erased either way.
`age` is the time since `curTime`; it is counted in ticks of 60 s/`AliveTime`, up to the age at which
any session is reaped. `told` is history.

Handlers are single actions although workers run beside them. That is sound because a handler
touches an endpoint only through eice calls that take its lock, the calls that change what a worker
does (start and free) come at one point of the handler, and after `eice_free` the worker is gone.
`Tick` is disabled during a negotiation: the worker's own timer ends it after 4 s, and a tick is at
least 60 s with the bounds used. A failing `eice_caller_nego` leaves the endpoint idle, with or
without a relay, which allows slightly more than the code does.

### IceConnection

Bytes are named by their position in the stream. `recvBuffer_` is the interval
`base .. received - 1`, `dataLen` and `totalUsedLen` are the locals of `handleCommand`, and each
round of its loop is a step. The length read from a header is the low bits of the command's length
when a command starts there, and *anything* when `parseCommand` looks elsewhere, so that framing
is a result and not an assumption.

### TcpServer

`server` holds what `malloc` left in the never-initialised `server_`. How libevent reports the end of
an accepted connection (EOF or ERROR together with READING or WRITING) is external and taken from
its documented interface. `Closes` is the call of `closeConnection` at the end of `eventCallback`; theorem
`EndedStaysKnown` shows that no execution reaches it, so `closeConnection` is not an action.

### ForwardService

`sockets` maps descriptors to their origin (`ice`: taken over from the endpoint, `made`: by
`createUdpSocket`) or to `closed`; closed descriptors are handed out again at once. A forward has
`fd`, the descriptor its event and its sends use, and `local_fd`, the one `~Forward` closes. Of the two
remote addresses the model keeps what `isWebrtcAddr` can tell apart: equal ports or not, and whether
the uninitialised padding of `webrtcAddr` happens to be zero. All local addresses share one ip,
and `AddressLess` is the comparator that makes this necessary (theorem `AddressOrder`). A
failing `event_new` (memory exhausted) is left out.

### VideoResendService

Packets are numbered without bound, and sequence numbers and slots are computed from the number.
The loop of `handle` is followed round by round with its 16-bit variable. A late packet is late by
less than the size of the cache. Resending switched off, and packets shorter than an RTP header, change
nothing. `cacheData` also stores packets of 12 or more bytes that are not RTP (RTCP on the same port, STUN);
they are not in the environment of the model.

### Endpoint and Eice

`Eice` cuts the code of one endpoint at every point where a lock is taken or given back. `lpc` is the
place of the loop thread in `eice_start_nego`, `eice_get_nego_result` and `eice_free`; `wpc` that of the
worker: `poll` (timers), `check` (the test of `ioq_stop_req`), `io` (the sockets), `end` of a round, or
inside a callback: `I1`, `K1`, `K2`, `tell` are the parts of `cb_on_ice_complete`, `T1`, `T2` those of
`timer_ice_cb`, `C1` the relay's own callbacks. `olock` and `glock` hold a lock only where it is kept
from one action to the next. `mem` is the memory of the relay object; `UsesFreed` is a callback that finds
it gone or going, and ends the process. `late` and `clean` are history: the 4 s timer was scheduled for a
session that had already ended; and `confice_free` began with the outcome known and the worker not in the
relay (`RelayPcs`). pjnath is external: it ends a session from a timer or from a packet, at any time.

`Endpoint` is the abstraction `IceService` uses: `nego` and `conf` change once each, the call to the
application comes at most once. A direct success and the cancelling of the relay are one step there and
two in the code; the refinement maps a relay that is still pending under a direct success to `failed`.

### EiceSetup

The sequence `eice_new_caller`, `eice_new_callee`, `eice_caller_nego` for all pairs of configurations.
`parse_eice_config` is `ParsedHost`, `ParsedAddrs`, `ParsedRelay`; `parse_content` is the family of
`Adopted...` operators, one per setting the other side's content may replace. The order matters and is
kept: `turn_host` is converted to IPv6 before, the servers after the content was parsed. Each `ipv4ToIpv6`
finds an address or does not: the first one decides the family of the object (`family`), and where a later one
fails the server keeps its IPv4 address (`Converted`). Whether a content has candidates is pjnath's matter and
open (`GetLocal`; `_get_local` does not look at `ice_init_result`). Without candidates the other side parses
the content once more at its start (`TakesInAgain`), cannot start a direct session, and dereferences a null
user name if it has a relay to start (`crashed`). A relay session number is 1 or 2 by who drew it from the
clock.

### ConfIce

Every handler of confice runs under `grp_lock` and is one action. `net` only grows, and reading a message
leaves it there: loss, duplication, delay and reordering of any kind. Retransmission therefore changes
only the clock (`ticks`, in periods of the timer). `_start_nego` and `confice_new` may fail at any step.
The wrapped ICE session can succeed once a packet of the other side was received. `direct` is the
endpoint's other path, as far as it kicks or cancels the relay.

### Mstester

The user's thread, the sending thread and the worker, with `lock` for `grp_lock` where it is kept from one
action to the next (the sending thread keeps it from its warm-up packets to its first sleep). A packet is
its session, number and, for warm-up packets, copy; it is on its way until its echo arrives, or for ever.
`sender` is the thread of this test, `leftover` counts those of earlier tests that were never joined.
`timeUp` is the test of the elapsed time. A failing `parse_mstester_config` ends in `mstester_free` with no
lock made yet (`NewFailsUnlocked`).

## 3. Runs

Passing runs:

| run | bounds | shows |
|---|---|---|
| `thread_call` | 2 workers, 2 calls each, room for 1 token | `NoLostWakeup`, refinement of `CallQueue`, `EveryCallRuns`, `FreeReturns` |
| `ice_service` | 2 ids, 2 addresses (symmetric), 1 connection, 4 commands, 2 queued calls, `AliveTime` 1 | `OneOwner`, `StartsOnce`, `AbortHasAReason`, `ResultBacked`, `ForwardNeedsOutcome` |
| `ice_service_live` | 2 ids, 1 address, 4 commands | `SessionsDrain`, `ResultReported` |
| `ice_connection` | header 2, pieces of at most 4, contents of at most 3 in a length variable modulo 3, 4 commands | `InOrder`, `BufferBounded`, `PushedOut` |
| `video_resend` | numbers modulo 6, 3 slots, 9 packets | `RecentKept`, `RecentResent`, `ReturnsBelowTop` |
| `forward_service` | 2 ports, 2 descriptors | `OwnSocket`, `ClosedWithForward`, `RoutedAcross`, `SilentEnds` |
| `eice` | one endpoint, both roles, with and without a relay and a direct session; no bounds | `PairsKept`, `CleanFreeIsSafe`, `FreeReturns`, refinement of `Endpoint` |
| `conf_ice` | 2 channels, timeout after 1 period of the timer | `ReportedIsFinal`, `FinalStays`, `CallerOkCalleeTook`, `CalleeOkCallerFailed`, `NoSocketLeft`, `CallerFinishes` |
| `eice_setup` | all pairs of configurations, all outcomes of conversions and candidates; no bounds | `RelayReachesBoth`, `PathsAgree` |
| `mstester` | 2 tests of 2 packets, 1 warm-up packet, delays 0 and 1 | `LossNotUnderstated`, `LostWithinSent`, `FreedIsQuiet`, `FreeReturns`, `TestFinishes` |

`PathsAgree` joins `ForcedTogether` and `SelectsWhenNoDirect`. The type invariants and some properties
(`LockHolder`, `FreshCallHasOutcome`, `AssertsHold`, `OnlyRequested`, `OnlySilentEnd`, `CalledWhenComplete`,
`SocketsQuietInFree`, `TimerWhileRunning`, `StaysKnown`) are not repeated in the runs; the proofs establish them.

Why the bounds are enough: one token of room makes the second of two concurrent sends fail, which is
the case the wake-up protocol has to survive. Four commands are the longest path of one session
(PREPARE, START, RELAY, and a late one), or two sessions of which one takes over the address the other
freed; two queued calls let a stale call wait behind or before a fresh one. Pieces of 4 with a header of
2 and contents up to 3 give pieces that end inside a header, inside a content, and that hold two
commands; a content of 3 in a length variable modulo 3 is read as empty, the 64 KiB case; four commands let a
stall be followed by enough data to end it. Nine packets with numbers
modulo 6 and 3 slots wrap both the numbers and the slots. Two descriptors for two ports force reuse.
The relay protocol has two channels, so that one can be done without the other, and a timeout after one
period of the timer, so that a request is both repeated and timed out. Two packets
and a second test give a lost, a late and an overtaken echo and a warm-up packet with a stale number.
`CHECK_DEADLOCK FALSE` is used throughout: the environment may stop sending, and counted inputs run
out.

Two runs find the code disagreeing with its own text. In `nego_result_assert`, the assertion
`assert(ret == 0 && ...)` of `getNegoResult` fails, because the result is asked for while the relay is
unfinished, or for an address that was freed and handed out again. `AbortHasAReason` names these as the
only two reasons. In `tcp_server` (2 connections), `HaveConnectionIsUp` states what `TcpServer.h` says of
`haveConnection` ("whether this conn is not disconnected") and `Connection.cpp` of the last line of
`eventCallback` ("tell server to delete this conn"): a connection the server has is up, or its end is about to
be reported. An accepted connection that ended stays in `connections_`, because `eventCallback` returns before
that line for every event that names reading or writing. `getNegoResult` then sends to a dead connection; the
pointer stays valid, because nobody deletes the object.

The passing properties also delimit behaviour of the code that a reader may not expect and that the models
contain:

* A negotiation that ends by the 4 s timer of the worker is stored, and the application is not called
  (`Endpoint!NegoTimeout` leaves `called` alone), so no ICE_RESULT reaches the CCS.
* The 4 s timer is scheduled after ICE was started. If ICE has already succeeded by then, nobody cancels
  it, and it stops the session whose pairs are asked for later; `PairsKept` says what becomes of the session in
  either case.
* The worker goes on polling timers while `eice_free` takes the relay object apart. A timer callback that
  is already running then uses the dying object, and may put its timer back into the heap after
  `confice_free` has cancelled it; so may a completion of ICE that comes from a timer. `CleanFreeIsSafe`
  says that this takes a free before the outcome is known or while the worker is in the relay,
  `SocketsQuietInFree` that only timers are concerned.
* Two sides that were each configured with a relay of their own do not meet: the session numbers differ
  (`RelayReachesBoth` gives each its own; the code has a TODO at that place).
* A side whose relay names it and whose peer's content had no candidates dereferences a null user name
  (`RelayReachesBoth`). A failed conversion leaves a server in another family than the sockets; pjnath then
  refuses it (`NewFails`) or fails its initialisation (`InitDone`), and no text of the repository speaks of it.
* A callee without any server forces the relay, and the caller does not (the converse of `ForcedTogether`);
  `SelectsWhenNoDirect` shows that the caller learns of it in time.
* A test of the tester that is started again counts its warm-up packets, so that its loss can exceed what
  was sent and, as a difference of unsigned counters, wrap. `LostWithinSent` bounds by how much the counters
  are wrong, and by that says that the first test is right.
* The sending thread of a test that ended by itself is not joined; its last log line may read the object's
  name after `mstester_free`. `FreedIsQuiet` says that this is all that is left, and that the thread of a
  stopped test is joined.
* `handleCommand` compares the bytes it used with the size of the new piece: a complete command can wait in
  the buffer until later data pushes it out (`PushedOut`, `BufferBounded`).
* The loop of `handle` does not return for a range that ends at 65535: `ReturnsBelowTop` says that it returns
  below that and never at it.
* A callee of the relay protocol that is already final still acknowledges a selection; `CallerOkCalleeTook`
  therefore speaks of what the callee took, not of its result.
* A RELAY_SESSION whose answer is bad frees the endpoint but keeps the session in ICE_RESULT
  (`RelayRefused`); `ResultBacked` describes the only sessions without an endpoint, and a second
  RELAY_SESSION for one of them crashes (`RelayCrashes`).
* STOP_SESSION does not reach ForwardService (`StopSession` leaves `forwarding` alone), and a result that
  arrives after it puts the session back into ICE_RESULT.
* `parseCommand` keeps the 4-byte content length in an `unsigned short`: `InOrder` says that the first overlong
  command is cut to the low bits of its length, and promises nothing of what follows it.
* A resend request for a slot never filled fails an assertion (`ResendAborts`).
* A socket made by `createUdpSocket`, one of an RTCP pair and one that an early return leaves behind are never
  closed; `ClosedWithForward` says that exactly the others are.
* With equal remote ports and a dirty padding of `webrtcAddr`, packets of the webrtc side are sent back to
  it or taken for resend requests; `RoutedAcross` says that this happens in this case and in no other.
* `readJsonInfo` writes the member `comCount` where the configuration is documented with `compCount`
  (`IceService.cpp:174`, `IceService.h:86`); configuration is not modelled.

### Fairness

* `EventThreadCall`: the kernel runs every thread, and libevent reports a readable socket. Every step of
  a thread is weakly fair, taking the mutex included. That is less than a fair mutex: a worker may take
  it repeatedly before the loop does, which ends because a worker makes finitely many calls. Starting a
  call is not fair.
* `IceService`: the loop runs queued functors and its persistent timer, time passes, and each worker's
  step is fair because its 4 s timer ends a negotiation if nothing else does. The CCS is not fair.
* `IceConnection`: libevent calls `readCallback` while there is data, and the handler runs on. Sending
  is not fair.
* `VideoResendService`: a handler once entered keeps running.
* `ForwardService`: time and the timer; packets are not fair.
* `Eice`: the worker and the loop thread run; the loop thread finishes what it began and need not begin. A
  poll of the timers comes to its end again and again (strong fairness of `NoTimerDue`): a timer that its
  callback schedules again is due 200 ms later, so it cannot keep the poll busy.
* `ConfIce`: both threads run, a direct session ends by its 4 s timer at the latest, a wrapped session by
  pjnath's own timeouts. Nothing is assumed of the network, the relay or the other side.
* `Mstester`: the three threads run, a call that was made goes on. Nothing is assumed of the network.

## 4. Proofs

All theorems hold for every value of the constants that satisfies the named assumptions of the
modules (sets of workers, ids, addresses, ports, descriptors; sizes; bounds).

* **`EventThreadCallProofs`**: `TypeCorrect`, `LockHolderAlways`, `NoLostWakeupAlways`, `Refinement`
  (`Spec => ImplementsCallQueue`). The inductive invariant adds `LockHolder`, "a worker on its way to the
  queue has a call left" and "the queue has a front while the loop pops it". The lock is what makes
  `NoLostWakeup` inductive: when the loop leaves with an empty queue nobody can have pushed since its
  last test. A dropped token does no harm because the socket was full, so a token is there.
  Under the refinement, `WakeupCall` is the abstract `Run` and `ThreadCallPush` the abstract `Accept`;
  everything else stutters, `WakeupPop` because the mapping already leaves out the functor that ran.
* **`IceServiceProofs`**: `TypeCorrect`, `Ownership`, `StartsOnceAlways`, `ResultBackedAlways`,
  `AbortReason`. The invariant joins `OneOwner` with `Clean` (an id without a session and a free address
  carry no trace of earlier ones), `StartsOnce`, `ResultBacked` and `FreshCallHasOutcome`. They need each
  other: an outcome is only known to be stable because a session that has one is never started again,
  and that needs the ownership of its endpoint. `FreshCalls` is one of its parts.
  `ForwardSound` (`ForwardNeedsOutcome`) and `NotDropped` need two more facts, `Backed`: stored pairs are
  those of the session's own endpoint, which succeeded (`PairsBacked`), and the connection a session came
  in on is still known (`RequestKnown`). `NotDropped` is the safety half of `ResultReported`: whatever a
  step does, a session whose outcome is queued keeps it (`Kept`) or is told or ends (`Settled`).
  `EndpointLife` says that at every address the service and the workers' steps follow the life that
  `Endpoint` gives an object: `StartsOnce` keeps START_SESSION from an object that was started, and
  `OneOwner` keeps a free from the address of another session.
* **`IceConnectionProofs`**: `Framing` and `BufferSafe`, for contents of any length. The
  invariant says that commands lie in the stream without gaps (`Stream`), that the next header is looked
  for where the next unhandled command starts, as long as no overlong one was handled (`Aligned`), and that
  before the piece at hand arrived the
  buffer held less than one command (`Buffer`). The last is what bounds the buffer although the loop may
  stop too early; it outlives the framing, because after an overlong command every length that is read is below
  the modulus, and so below the longest content.
  `EndedStaysKnown` is about `TcpServer`, the owner of the connections
  (its `TcpInit`, `TcpNext` and `TcpSpec` have names of their own so that a module can extend both):
  every event of a peer that ends meets an early return of `eventCallback` (`EndEventsReturn`), so nothing
  leaves `connections_`.
* **`ForwardServiceProofs`**: `SocketOwnership` and `SocketFate`. The invariant adds `Origin`:
  the destructor knows exactly the forward's own socket if ICE made it, and none otherwise; with the lemma that
  sockets are closed in `timeout_cb` and nowhere else (`ClosesInTimeout`) that gives both directions of
  `ClosedWithForward`.
  `TypeCorrect` comes with it. `SilentOnly` rests on the lemma that a forward ends in `timeout_cb` and nowhere
  else, `Routing` on what `isWebrtcAddr` compares. `AddressOrder` shows that the comparator of the table is
  a strict total order on the addresses of one local ip, `AddressOrderNeedsOneIp` that it is none on those
  of two.
* **`ConfIceProofs`**: `TypeCorrect`, `ReportedIsFinalAlways`, `FinalStaysAlways`, `CallerOkAgreed`,
  `CalleeOkJustified`, `NoSocketLeftAlways`, for any number of channels and any timeout. Two lemmas say
  what any step may do, one to the results (`OutcomeCases`: it sets a final result or goes on), one to the
  selection (`SelectionCases`). The invariant is the chain of reasons across the network: an
  acknowledgement in `net` means that the callee has the channel (`Took`); a channel of the callee means
  a selection in `net`, that a kicked caller, and that a failed or missing direct session (`Asked`). It
  needs `DirectFresh`, that a session is started once, so that a failure stays one.
* **`MstesterProofs`**: `TypeCorrect`, `LossAccounted`, `TimerKept`, `FreedQuiet`, for any number of packets,
  tests and warm-up packets. The invariant adds `InBounds` (numbers while the thread is in its loop),
  `Sending` (a test runs exactly while its thread has not passed its last section) and `Quiet`.
  `LossWithinSent` counts the packets still under way with the received ones (`Counted`), by the
  cardinality of a set that a step changes by one element, or by the warm-up packets of a test that was started
  again.
* **`VideoResendServiceProofs`**: `TypeCorrect`, `RecentKeptAlways`, `RecentResentAlways`,
  `OnlyRequestedAlways`, for every size of the cache that divides the range of the sequence numbers. From
  `SizesAssumption` follows that packet n sits in slot n modulo the cache size (`SlotOf`), hence two packets
  of a slot are a cache size apart (`OnePerSlot`), hence `RecentKept`. `SentSoFar` and `WithinRange` relate the
  16-bit loop variable to what was sent. `LoopAdvancesAlways` gives the variant of the loop below the
  largest number, `TopIsNeverPassed` is the other half of `ReturnsBelowTop`: a range that ends there is never
  returned from.
* **`EiceProofs`**: `TypeCorrect`, `Refinement` (`Spec => ImplementsEndpoint`), `PairsAreKept`, `CalledComplete`,
  `SocketsAreQuiet`, `CleanFreeSafe`. The invariant has one part for the direct path (`IceInv`: in `I1` the
  outcome is still open, `K1` and `K2` with a cancelled relay follow a success), one for the 4 s timer
  (`TimerInv`: it is in the heap only while the session runs, or late; a late one is due, running or has stopped
  the session), one for the relay (`RelayInv`: a final
  result that is not yet told is in the hands of the worker), one for the two flags of `eice_free`
  (`WorkerInv`) and one for a clean free (`CleanInv`). `LocksNeverCircle` is proved from `LocksKept`, which
  says at which places of the worker each lock is kept: the two opposite lock orders never meet.
  `SetupRelays` (`RelayReachesBoth`) and `SetupPathsAgree` are about `EiceSetup` (`SetupSpec`, extended beside
  `Eice`). The invariant follows the
  exchange: the order of the calls (`SetupOrder`), what the caller announced (`CallerInv`), what the callee
  adopted and announced (`CalleeInv`), and what a side that started, or crashed at it, made of its settings
  (`StartedInv`). It rests on adoption being idempotent: a callee without the caller's candidates takes the
  content in twice.

Every invariant and every action property that a run checks is also a theorem. Only model-checked are the
liveness properties, which are out of the prover's reach: `EveryCallRuns`, `FreeReturns` (three modules),
`SessionsDrain`, the leads-to halves of `ResultReported` and `ReturnsBelowTop`, `PushedOut`, `SilentEnds`,
`CallerFinishes`, `TestFinishes`. For three of them the safety fact they rest on is proved:
`NotDropped`, `LoopAdvancesAlways` and `LocksNeverCircle`. The violations of `NegoResultAsserted` and
`HaveConnectionIsUp` are TLC's counterexamples; `AbortReason` proves which two situations the first can come
from, `EndedStaysKnown` that the second happens to every connection that ends.

## 5. Not modelled

* AudioRtpFilter and VideoRtpFilter: rewriting of single headers by constants, without state.
* `Address::operator<` with several local ips: it is then no order, and what `std::map` does is undefined.
  A failing `event_new`.
* Candidate lists, JSON texts, byte layouts and check sums of `eice.cpp`: reduced to what the other side
  accepts and which settings it takes over. A content written by another program may lack what `EiceSetup`
  relies on.
* Start-up and shut-down of AppServer, configuration, logging: run once, or pure I/O.
* jsoncpp and the web test page: vendored. pjnath, pjlib, libevent and the relay server are external.

## 6. Plan

Done, in this order: (1) EventThreadCall over CallQueue, (2) IceService, (3) IceConnection, (4) TcpServer,
(5) ForwardService and VideoResendService, (6) ConfIce, (7) Eice over Endpoint, (8) EiceSetup, (9) Mstester,
with proofs for all of them.

Next: the steps of `EndpointLife` as those of an INSTANCE of `Endpoint` at each address, with the application's
call as a variable of its own; the safety cores of the remaining liveness properties
(`SessionsDrain`: erasing a session never makes another one younger; `CallerFinishes`: the clock of a relay only
grows); `BridgeServer`, the composition of TcpServer, IceConnection and IceService over `CallQueue` and
`Endpoint`.
