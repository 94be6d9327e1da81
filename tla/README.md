# A TLA+ model of the Coherence C++ Extend client

The Extend client gives a C++ program the caches and services of a Coherence cluster over one TCP
connection to a proxy. It is a port of a Java runtime: a library of managed objects (reference
counts, monitors, thread gates), on it a small service framework (daemons with message queues), on
that the Extend protocol (connections, channels, requests), and on top the caches an application
uses (remote, near, continuous query, local).

This directory holds models of its concurrent core, the TLC runs that check them on small instances,
and TLAPS proofs for every instance. `PROJECT.json` maps every definition to the lines it models and
lists runs, mutants, findings, hazards and theorems. A `tlc -config X.cfg M` below means the pair of
module and configuration the run names there.

## The system

| Component | State | Operations | What is hard about it |
|---|---|---|---|
| `ThreadGate` | one atomic word (status, count of threads inside), the closing thread and its nesting, a counter per thread | enter, exit, barEntry, close, open, destroy; waits with timeouts | a lock-free count read and swapped around a monitor: exclusion and lost wake-ups |
| `PofChannel`, `AbstractPofRequest::Status` | open, close-on-exit mark, close exception, request array, request gate, thread gate; a status per request | send, request, receive, close | clients, service thread and timeouts complete the same request; a close that may not wait |
| `PofConnection` | open, mark, channel maps, gate | create/open/accept a channel, close, ping | closes all its channels; two marks |
| `Peer` (`Service`, `Daemon`, `QueueProcessor`) | message queue, service state, connections, protocol maps | dispatch, send, open/close connection and channel, start, stop, heartbeat | one thread does it all and must not die of an exception |
| `TcpInitiator` | socket, reader thread | connect, read, reader death | failure while opening |
| `SafeService`, `SafeNamedCache` | the wrapped service or cache, its restart state | ensureRunning..., every cache call | a restart under concurrent calls |
| `RemoteNamedCache` | listener support, synthetic keys | listener registration, events | registration racing events |
| `CachingMap`, `NearCache` | front map, control map of per-key locks, listeners | get, getAll, put, remove, invalidation | front and back may not drift apart |
| `ContinuousQueryCache` | observed map, state, pending events | configure, events, reconnect | events while the query runs |
| `LocalCache`, `OldCache`, `LocalConcurrentCache` | units, entries by age and use | put, get, prune, evict, load | eviction during iteration; expiry |
| `AbstractBundler` | open bundle, thread counters | process | who executes a bundle; exceptions of the executor |
| queues, arrays, maps | containers | add, remove, iterate | iteration or unlocked reads against updates |
| `Object`, `WeakReference` | packed reference counts | attach, detach, escape, get of a weak reference | resurrection, immutable/mutable counts |

Clients call a channel; the channel calls its connection's gate and its own, then `Peer::send`.
Everything that arrives, and every request to close, goes through the Peer's queue to the service
thread, which calls back into connection and channel. Every layer relies on `ThreadGate`.

## Modules

| Module | Models |
|---|---|
| `Gate` | what a thread gate promises: the abstract specification |
| `ThreadGate` | `coherence::util::ThreadGate`, one step per access to shared memory |
| `MCThreadGate` | symmetry for TLC |
| `ThreadGateProofs` | theorems about `ThreadGate` |
| `Channel` | requests over a channel of a connection, and how both close |
| `MCChannel` | symmetry for TLC |
| `ChannelProofs` | theorems about `Channel` |
| `NearCache` | `CachingMap` over a front and a back cache, with the locks of its control map |
| `MCNearCache` | modes and symmetry for TLC |
| `NearCacheProofs` | theorems about `NearCache` in every mode |
| `NearCacheSound` | theorems about `NearCache` in the uses the code is made for |
| `NearCacheCoherent` | that its front map is coherent, in the uses where the code sees to that |
| `ContinuousQuery` | `ContinuousQueryCache`: the local image of a query, its configuration and its events |
| `MCContinuousQuery` | the initial contents for TLC |
| `ContinuousQueryProofs` | theorems about `ContinuousQuery` |
| `Initiator` | `Daemon`, `Service`, `Peer`, `Initiator` and `TcpInitiator`: the life of the service and its connection |
| `MCInitiator` | what TLC runs |
| `InitiatorProofs` | theorems about `Initiator` |
| `SafeCache` | `SafeService`, `SafeCacheService` and `SafeNamedCache` over the remote service and cache they restart |
| `MCSafeCache` | what TLC runs |
| `SafeCacheProofs` | theorems about `SafeCache` |

`Initiator` is the layer above `Channel`: it takes the close of a connection as one step that may have
to wait for those inside, and continues where `Channel` stops (`"done"`, an exception that leaves
`onNotify`). `SafeCache` is the layer above that: a remote service runs until it is stopped or dies, a
connection may be lost at any time. `ContinuousQuery` stands on a `SafeNamedCache` that connects again
by itself. `NearCache` stands on the layers below it: requests are answered or fail (`Channel`), and the gate of
the control map that `clear` closes is taken as the abstract one (`ThreadGate`). Only `ThreadGate`
instantiates another module, `Gate`; the layers would be too large together for TLC, so each
takes from the one below what that one's properties say.

### ThreadGate

`nStatus` and `cEnters` are the two halves of the atomic word; `closing`, `cClose` are
`m_vClosingThread` and `m_cClose`; `local` is the thread-local counter; `lock` and `waitSet` are the
monitor. `pc` names the place in `enter`, `exit`, `barEntry`, `close` (with `closeFinally`) or `open`
a thread has reached. An action runs from one access to shared memory to the next: `CloseMark` is the
swap to `gate_closing` together with what follows it up to the next read of the word.

`Adjust` follows the operator precedence of the source (`cEnters += cAdjust == max_enters`), which
leaves a count of 0 as it is. `Retries` and `GivesUp` follow the arithmetic of `doWait`.

`Usage` says which freedoms callers and platform have: timed calls, interrupts, a clock that steps
back, promotion (closing the gate while inside) and destruction. The gate keeps its promise only for
*disciplined* callers, who never promote nor destroy; all gates of the client are used that way
except at shutdown. Under that discipline `gate_keeps` checks exclusion, the agreement of the count
with the threads' own counters, that nobody sleeps on a gate that could let it go on, the refinement
of `Gate`, and that a closer is served and a barred gate opens. `gate_any` lifts the discipline: the
absence of lost wake-ups, and the types, survive it.

### Channel

`place` and `step` tell what a thread executes: `"chan"` and `"conn"` are the gate and the
`closeInternal` of channel and connection (both classes have the same code, with a few differences
the actions spell out), `"call"` is the rest. A client goes

    Register -> Check, Enter (connection) -> Check, Enter (channel) -> Send
             -> Exit (both) -> Last (connection) -> Last (channel) -> wait

and the service thread takes a message with `Dispatch` and goes either through the same gates to
complete a request or execute an event, or into `closeInternal`:

    BeginConnection -> BeginChannel -> CancelNext, CancelPending ... -> Try -> Mark -> Retry -> Shut

`Last` and `Held` are the second half of `gateExit`: a thread that leaves and finds the mark
(`closeOnExit`) tries to close the gate, and if it is alone asks for the close again, at once on
the service thread and through the queue elsewhere. `Retry` is the double check that
`closeInternal` makes after it has left the mark.

What an exception does is part of the model. `Throws` ends the `closeInternal` of channel and
connection; whether it also ends the daemon (`"done"`) depends on the caller: a request to close and
`gateExit` swallow it, but the handler of a message that does not decode, and a `gateEnter` that
leaves the connection's gate again (`svc.exposed`), do not, nor does an event whose handler fails
when the channel has a close exception already (`svc.fatal`).

`Usage` switches on what may go wrong: a client gives up (`"giveup"`: timeout or interrupt), a close
carries an exception (`"cause"`), a message does not decode (`"decode"`), a request does not encode
(`"encode"`), a write to the socket fails (`"socket"`), an unsolicited message arrives (`"event"`).

Abstractions: the gates are used with timeout 0, so that one operation of a gate is one step (the
part `ThreadGate` justifies); `open[x]` changes only under the exclusive gate, so that entering and
`assertOpen` are one step; the mark and its exception are written in one step, although a leaving
thread could read the mark before the exception is set (it would then close without a cause).
Each client thread makes one request. `Channel0` and the local connection that carry the requests to
close are left out: such a request is put into the queue in one step.

### NearCache

`front` and `back` are the two maps, `listening` the keys whose events reach the map's listener,
`lock`, `gate`, `list` and `global` the control map: the lock of each key, its `ThreadGate` and the
event lists it holds. `job[c].at` is how far the operation of a client has come; the single-key
operations go

    Lock -> Assign -> (get: Ensure -> Register -> Registered ->) AskRead / AskWrite
         -> FinishGet -> Release, FinalizePut or Finish

those of several keys take what locks they can get with `LockNext`, and `clear` goes
`Close -> AskWrite -> Open`. The service thread takes one message at a time: an event about a key goes
`Receive -> ServiceLock -> Validate` if the key is not locked, and `Find -> Add` into the list of
the thread that holds it otherwise, with the retries of `validate` in between. The front map is a
`LocalCache`: what it expires and prunes is a choice of the model, with its `FrontMapListener` in the
same step.

A *mode* says which strategy, operations and perturbations a run looks at, so that one run covers
several. The list of a client is kept by key, since nothing depends on the order of events of different
keys. `Sound` is where the code is coherent; the properties `Coherent`, `Listened` and
`LocksReturned` are stated for it. What lies outside was found while modelling, is listed with
`Sound` and among the hazards, and is checked without that premise where a run names it (findings 4
and 5).

Abstractions: the peer handles a request in one step, and its events and responses arrive in the order
sent; a version number is never written twice, so that an old value is never mistaken for the
current one; `removeRemoteMapListener` sends its request without waiting, and the model lets it take
effect at once (an event the peer sends before it has handled the removal is dropped as an
orphan, or, if the key has been registered again, makes one fill invalid needlessly); `logical` is
left out because it behaves as `all` without the deletes of eviction at the back, and the strategy
`none` because it promises nothing. `resetFrontMap` after a restart of the service (`NearCache.cpp`)
is the same call as after a truncation.

### ContinuousQuery

`store`, `listen` and `up` are the peer: its cache, the listeners of this connection, and whether there
is one. `wire` is what it has sent and the service thread has not taken, responses and events in one
order, which is what the connection guarantees. The fields of the cache are `state`, `hCache`
(`m_hCache` is not NULL), `ref` and `reqs` (`m_hMapSyncReq`, whose keys were deferred), `local` and
`made` (`m_hMapLocal`), `values` (whether values are cached), `added` (the mask of the add listener)
and `member`. A caller that needs the image goes

    Call -> Enter -> Begin -> Register -> AskRemoves, HasRemoves, Added -> AskAdds, HasAdds
         -> AskLoad, HasLoad -> SetConfigured -> Resolve -> AskSync, HasSync -> SetSynchronized

under the monitor, with `Catch`, `Throw` and `GivesUp` for what fails on the way. The service thread
takes the wire's head with `Take` and an event goes `Judge -> Defer -> Settle -> Apply`: the three
unlocked steps of `isEventDeferred`, whose results may be stale at the next. A truncation goes
`Ensure -> EnterService -> Read, Weigh -> TruncateLocal`, the same steps with a key of its own:
`isEventDeferred` does not recognise it (see Oddities), so that when it is to be deferred (`Note`) the name
of its listener's type goes into `reqs` as the key `Pseudo`, which `Resolve` then asks the peer for with
the others. A lost connection reaches the cache twice and late (`disc`), each time as the two
assignments of `changeState`.

`Exact` says that when nothing is under way the image is what the query gives. The code has four gaps
in this, each a history mark that `Exact` names: the deactivation listener is registered only with the
first connection (`"deaf"`), `configureSynchronization(false)` while disconnected does not reload
(`"kept"`), a truncation that is deferred is lost (`"dropped"`), and a disconnection between the test
and the assignment of `changeState` is overwritten (`"overwritten"`); besides, a key deferred after the
deferred keys were read stays wrong until its next event (`late`).

### Initiator

`daemon` and `state` are the states of `Daemon` and `Service`, `monitor` and `exitMonitor` the two
monitors, `queue` the messages, `conn` each connection's state, `current` what the initiator takes for
its connection. Clients call `start`, `stop`, `shutdown` and `ensureConnection`; `job` says where they
are. The service thread (`svc`) goes

    Enter -> EnterState -> EnterSend -> Ready -> (Take -> a handler)* -> Quit -> Finally -> Exit -> Exited

with `OnException` and `StopMyself ... SettleMyself` when a handler throws. `ensureConnection` tries the
addresses in turn (`Connect`), each with a request to its own service thread (`Opening`) that opens
the connection and puts the peer's request on the wire (`OpenConnection`), until the peer accepts
(`Accept`) or refuses, and holds the monitor all that time. `GiveUp` and `Timeout` are the two requests
that time out. `Lose` is everything that makes the service close a connection it did not want to lose:
its reader ends, a ping is not answered, the peer announces the close.

A handler that needs neither the monitor nor the thread of another is one step with `Take`; a
redirection is one more address; only connections that a client has obtained can have somebody inside.

### SafeCache

`state` and `service` are those of the safe service, `alive` the remote services that run (a remote
service that has stopped is never used again), `store` what the safe service has under the cache's
name, `stored` what each remote service has, `wrapped` the remote cache of every `SafeNamedCache`,
`support`, `attached` and `server` who listens to the safe cache, to the remote cache, and what the
proxy was told; `safe` and `storing` are the monitors of the safe service and of its store. A use of a
cache that is not active goes

    Get -> GetRunning -> EnsureRunning -> RestartService -> Fetch -> Attach -> Request

and `ensureCache` goes `EnsureCache -> LockStore -> EnsureRunning -> RestartService -> Fetch`, then once
more `EnsureRunning -> RestartService`, because the store asks the service for its type before it takes
the new cache (`ScopedReferenceStore.cpp:173`), and `PutCache`. A service that has stopped between the
two is restarted, or the call throws, and the remote cache it got is stored though it is closed by then.
Listeners are added and removed with `AddListener`/`RemoveListener`, then `Attach`/`Detach` on the
remote cache and `Request`; `release` goes `Release -> Detach -> Request -> Unlist -> Close`, and
`releaseCache` of the service takes the last two steps without the monitor. `Lose` closes the channels
of a service, of which its dispatcher hears later (`ConnectionClosed`); `Die` ends a remote service.

`Heard` is the promise of a restart: who listens to the safe cache goes on hearing the new remote one,
with values if one of the listeners wants them. It is stated for listener calls that do not overlap
with each other or with a restart, and for requests that do not fail on an open channel (`marred`):
the code tells the remote cache outside the monitor in which it has decided to, and does not repair
what a failed upgrade has removed. `Unusable` leaves out a cache whose `release` threw half-way
(`broken`): it is marked released, but stays listed and open.

## Runs

All runs finish within three minutes on two cores.

| Run | Instance | Shows |
|---|---|---|
| `gate_keeps` | 2 threads, nesting 3, 1 close, timeouts, interrupts, a clock that steps back; fair | `Exclusion`, `EnterCount`, `Protocol`, `NoLostWakeup`; `ImplementsGate`: the code implements `Gate`; `CloserServed`, `Reopens` |
| `gate_any` | 2 threads, every usage | `NoLostWakeup` under every usage |
| `gate_promotion` | 2 threads, promotion | `Exclusion` violated: finding 1 |
| `chan_safe` | 2 clients, 1 call, every usage | `NoneInsideClosed`, `ClosedMeansSettled`, `OutcomeIsFinal` |
| `chan_live` | 1 client, 2 calls, failing writes; fair | `MarkIsHonoured`: a mark is never forgotten; `CloseTakesEffect`: a close that was asked for happens |
| `chan_iter` | 2 clients, giving up | `CloseTakesEffect` violated: finding 2 |
| `near_keeps` | 2 clients; 1 key with each strategy, 2 keys with a front map of 1 entry; 2 versions | `Coherent`, `Listened`, `LocksReturned`, `NeverWaitsUnlisted` |
| `near_getall` | 2 clients, 1 key, get and getAll | `AllReturned` violated: finding 3 |
| `near_auto` | 2 clients, 1 key, strategy auto, expiry | `Fresh` violated: finding 4 |
| `query_keeps` | 1 caller, 1 key, 3 values of which 2 match, 1 write, 2 upsets (a lost connection, a truncation, a switch, a release, a request without answer); fair | `Exact`, `Listening`, `NeverHalfway`; `Returns`: every call ends, every event is handled |
| `init_keeps` | 2 clients, 2 connections, 1 address, 3 calls, every usage; fair | `NoEmbrace`, `ExitedIsClean`, `Reported`, `Truthful`; `Returns` |
| `safe_keeps` | 2 clients, 3 safe and 3 remote caches, 2 services, 3 calls; fair | `OneService`, `Unusable`, `Heard`; `Returns` |

Bounds. Two threads meet in every pair of operations of a gate: a closer that waits for one inside,
one that enters behind the bar, two closers, a closer that closes again. What a third adds (a waiter
behind a closer behind an enterer) the proofs cover: the safety properties of the gate and its
refinement are proved for any number of threads. `MaxEnters` 3 reaches the limit of nested enters. In
`Channel`, `MaxCalls` bounds only the calls from outside (close, events); the closes that marks cause
are not bounded. One call against two requests shows every conflict between clients and a close;
two calls have a close of the channel against one of its connection. The channel runs switch deadlock
off because a client that has made its request is done; `gate_any` and `gate_promotion` do because the
gate may be destroyed and a promoted closer may wait for itself. In `NearCache` coherence is a matter
of one key (keys meet only in the front map's capacity, in bulk operations and in `clear`), so
`near_keeps` has one key, two clients and the other writers, who are not bounded in number; two versions
let a value become old while another one is written and removed. Its mode with two keys is the
smallest instance in which a key is pruned by an operation on another one. Deadlock is off because the
bound on the versions stops the writers.

In `query_keeps` the configuration does not depend on how many callers wait for it, as they are kept
out by the monitor, so one is enough to meet the service thread, the dispatcher and the writers; a
key's events are judged, deferred and read again one by one, so one key is. Two upsets meet in every
pair (a truncation while a lost connection is dealt with, a switch during that), one write gives an
event before, during or after each. `Attempts` is 2 where the code has 3: a first and a last one.
In `init_keeps` three calls have a start, a connection and a stop of it, or a stop or shutdown by the
other client at every moment of the first two; two connections let a second one be made when the
first is given up or lost. In `safe_keeps` the application may listen to the first cache at the
beginning; three calls have a release, and a new cache, and a use of the old one, and each with a lost
connection or service in between, which are not calls and are not counted. Two services are a restart.
Deadlock is off in these three because calls are bounded and need not be made.

Fairness. `ThreadGate`'s `FairSpec` assumes that a running thread executes its code (strongly, since
it competes for a monitor and for compare-and-swap) and that guard blocks match enter with exit and
close with open; nothing obliges a thread to make a call. `Channel`'s `FairSpec` assumes only that
the service thread and the clients run: not that the peer answers, a client times out, or anybody
calls. `NearCache` has no liveness property and no fairness: that the service thread does not wait
for ever is checked as the invariant `NeverWaitsUnlisted`, which excludes the circular wait.
`ContinuousQuery`: callers, service thread and dispatcher go on, a lost connection is opened again by
the next use, and a request without answer times out, as the default configuration has it (30 s); the
monitor is taken with strong fairness because its holders are bounded. `Initiator`: clients and
the service thread go on, and the two requests time out; that the peer answers, a client leaves a
connection, or anybody calls is not assumed. `SafeCache`: the steps of a call under way; that includes
that a request is answered or fails, which `Initiator` and `Channel` show.

Every property of a passing run has a mutant: an operator next to the one it replaces, marked
`Fault`, that models a plausible slip in that code (a dropped retest, a missing notification, a
dropped `assertOpen`, a request registered outside its gate, an outcome stored without a test).

## Findings

1. `ThreadGate.cpp:102` applies the adjustment of the count through a comparison. An owner who enters
   the gate it emptied is not counted; if it is inside when it opens the gate, the next close returns
   true around it (`gate_promotion`).
2. `HashArray.cpp:378`: a request that times out while `closeInternal` iterates over the requests
   makes the iterator throw; the close is lost (`chan_iter`).
3. `CachingMap.cpp:749`: `getAll` does not look into the front map again once it has its locks, locks
   an invalid key twice that another client has cached meanwhile, and unlocks it once: the key
   is locked for good (`near_getall`).
4. `CachingMap.cpp:399`: with `listen_auto`, the default, `finalizePut` keeps an entry whose key
   nobody listens to any more; it stays in the front map however the back map changes (`near_auto`).

## Oddities

What follows the models have as it is in the code; the properties leave it out by name, so that they
hold for the rest.

*Channel.* The close exception of a channel can be set once; the second attempt throws and ends the
close of the connection (`PofChannel.cpp:1245`). For this reason and for finding 2, `MarkIsHonoured` fails
when clients may give up, or when the connection's writes may fail besides a close with an exception,
a request that does not encode, or a message that does not decode or fails in its handler. Every other
usage (`Lossless`) loses no close: `MarksAreHonoured` proves it. `CloseTakesEffect`, the same as a promise,
is checked for the usage of `chan_live`.

*Initiator.*
- `Reported` leaves out `late`: a client's request to open a connection that has timed out in the
  queue is executed all the same (`Initiator.cpp:144`). The connection becomes the one the initiator
  reports, and the one `ensureConnection` goes on to make is neither pinged nor closed when the
  service stops.
- `Returns` leaves out `Zombie`: closing the connection throws when the service begins to stop
  (`NotifyShutdown.cpp:36`); the internal connection is closed in its place, nobody calls `stop`, and
  `shutdown` waits without a limit.
- `ensureConnection` and the service thread wait for each other until a request times out; with a
  time-out of 0 they would for ever.
- A stop between opening a connection and its answer leaves it open with its reader, and one that
  interrupts the wait for the reader's start (`Daemon.cpp:229`) leaves it open without anyone's.
- A shutdown during the start throws, as the internal connection is not open yet; `Truthful` says so.
- `ensureConnection` may return a connection that has been closed in the meantime.
- `Service.hpp` says of `stop` that it is synchronized; it takes the exit monitor only.

*ContinuousQuery.* The four marks and `late` above. A truncation during configuration is to "clear any
currently pending events" (`ContinuousQueryCache.cpp:1530`), but its listener names itself by the type
of a pointer (`typeid(this)`, line 1464), which the test at line 1532 never finds: the deferred keys
stay, and its name is deferred as one more (`Note`), read again, and not found. The image does not
suffer: `Exact` and `ExactHolds` are about this code. While a truncation waits for the monitor, its holder
waits for a response behind that truncation, until the request times out. `Resolve` stores the values
it reads again without the transformer. A first configuration that fails leaves its listeners with
the peer.

*SafeCache.*
- `Returns` leaves out `Embrace`: `SafeCacheService::ensureCache` (line 42) wants the monitor of the
  safe service, to restart it, with that of the store of caches, for the remote cache and again in
  `putCache`; `SafeNamedCache::release` (line 147) wants the second with the first. Two such calls on
  a service that is down wait for each other for good.
- `ensureCache` does not look into the store again when it has its monitor: two callers get two
  `SafeNamedCache`s over one remote cache, and releasing the one unlists and closes what the other uses
  (which restarts). Releasing an old cache again unlists the new one of that name.
- A late `connectionClosed` releases caches made over the next connection (`RemoteCacheService.cpp:147`);
  they are restarted with the next use.
- Events between the registration of the listener and the assignment of `m_hNamedCache` at the end of
  a restart are dropped (`SafeNamedCache.cpp:631` compares the source).
- A comment in `RemoteNamedCache.cpp:403` relies on "extra synchronization in the SafeNamedCache" that
  covers only the decision, not the request.
- Of two callers that use a safe service nobody has started, the second may configure the running
  service again, which refuses (`SafeService.cpp:683`).

*ThreadGate.* No property is about these: `barEntry` and `close`
revive a destroyed gate (`ThreadGate.cpp:168`), `enter` on a destroyed gate gives its counter back
twice (`:428`), an infinite wait ends when the wall clock steps back (`:720`), the time left of a
timed wait is never positive (`:725`), an immediate close may wait (`:751`).

## Proofs

`tlapm` checks the eight proof modules without any assumption but the `ASSUME` of the constants (distinct
ids, finite sets, positive bounds), which TLC evaluates too.

`ThreadGateProofs`, for any finite set of threads and any bounds:

- `TypeCorrect` and `NoWakeupIsLost` for every usage, promotion and destruction included. The second
  needs `Ownership`: somebody owns the gate exactly while it is barred, and `m_vClosingThread` and the
  monitor agree with how far each thread is in `close` and `open`. It does not need the count to be right,
  only that it is not negative: the exit that brings it to 0 notifies, whether or not somebody is inside.
- `GateIsExclusive`, `CountIsRight` and `ProtocolHolds` under the assumption `Disciplined`. `Exclusion`
  is not inductive: a swap to closed is taken on the evidence of the count, so `EnterCount` is
  needed, which needs `Protocol` (how a thread's counter agrees with its place in the code and the
  status with the owner). Finding 1 is why the assumption is needed.
- `ThreadGateImplementsGate`: initial states map to initial states, every step to a step of `Gate` or
  a stutter.

`ChannelProofs`, for any finite set of clients, every usage and any number of calls:

- `NobodyInsideClosed`, from `GateHeld`: who holds a gate is alone inside, and `m_fOpen` is cleared
  only by the holder.
- `CloseSettlesAll`, from `RequestsHeld` (the request gate is closed while `closeInternal` runs, so the
  array only shrinks and is empty when it goes on) and `PendingFound` (a pending request is in the
  array or in the hands of `closeInternal`).
- `OutcomesAreFinal`, the action property, from the same invariant.
- `ChannelTypeCorrect`, which includes that the iterator never yields a null request.

`ChannelInv` is the conjunction; one lemma per conjunct shows that a step preserves it, with one step
of its proof per action.

- `MarksAreHonoured`, for every usage that is `Lossless`, from `MarkInv`. An open place that is marked to be
  closed will be looked at by somebody who leaves it, or is being closed (`Honour`). For that, who is
  inside is counted where it is (`Placed`), and who holds a gate gives it back or closes the place
  (`Holder`). A close that ends by an exception has to leave somebody who looks (`Emptied`, `Twice`), and
  the connection's close must not be ended by a channel's (`Quiet`, `Plain`).

`SafeCacheProofs`, for any number of clients, safe caches, services, remote caches and calls:

- `OneServiceRuns`: `OneService` is inductive as it stands, because a new service is started only under
  the monitor and after a second look at the old one.
- `Types` and `ReleasedIsUnusable`, from `Inv`. `Unusable` is not inductive: that a restart cannot bring
  a released cache back needs `Purposeful` (what a call is for says where it can be and that it holds the
  monitor there; nobody restarts a cache that is released), `Known` (an open remote cache belongs to a
  service that runs, so that none is open when there is no service, and a new one is not yet wrapped by
  anybody) and `Settled` (a released cache is active only while the call that releases it is under way).
- `HeardHolds`, from `Keeping` on top of `Inv`. The listener is told to the remote cache outside of the
  monitor that guards the decision, so the invariant says how far such a call is (`Careful`), that there
  is one at a time for each safe cache (`Alone`), that the proxy was told enough for all the listeners
  that are attached (`Told`), and that those of an active safe cache are attached (`Eared`).

`InitiatorProofs`, for any number of clients, connections, addresses and calls, and every usage. The
invariant comes in layers, each inductive given the one below it:

- `Sound`: the types, who holds which of the two monitors at which step (`Holds`), and how the states of
  daemon, service and thread go together (`Lives`). From it `TypeCorrect`, `NoEmbraceHolds` and
  `TruthfulHolds`.
- `Settled`: besides, a request to open a connection is executed once (`Fresh`), and the connection the
  initiator reports is open until the service has stopped (`Current`). From it `ExitedIsCleanHolds`.
- `Whole`: besides, `Fate`. `Reported` says that the peer never takes for open a connection the initiator
  does not know; that needs what messages and answers say of each connection (`Past`, `Refusal`), who
  opens it (`Nascent`, `Opener`), and, until a request that was given up is accepted after all
  (`Spoiled`), that the close of a connection given up is in the queue (`Abandoned`) ahead of the next
  request to open one (`Turn`), so that at most one is open (`Single`). From it `ReportedHolds`.

`ContinuousQueryProofs`, for any number of callers, keys and values, any number of attempts and upsets:

- `TypeCorrect`, with where an event is handled, what a response brings and how often a call tries.
- `NeverHalfwayHolds`, from `Staged`: only the holder of the monitor takes the state forward, one state per
  step of `configureSynchronization`; whoever else writes it writes `"disconnected"`.
- `ListeningHolds`, from `Registered` and `Attentive`: how far the holder of the monitor is says which
  listener has been registered, and each lost connection leaves a disconnection to be told, or the cache
  disconnected, or (`"overwritten"`) one that was told and lost.
- `ExactHolds`, from `Held` (the invariants above, and which configuration is under way) and `Imaged`:
  unless the cache is disconnected, was told of it, or a mark is set (`Lapsed`), each key is `Tracked`.
  The last message about it that is still on its way is right; without one, the event that is worked on
  is; without that one, the key is `Excused`, because the configuration will read it again or its event
  was deferred too late, or it `Rests`: the image, or what the response under way brings, is right. Which
  of these a key may be depends on the stage of the configuration (`Keeping`, `Loading`, `Filling`,
  `Syncing`, `Ready`). When nothing is under way only the image is left, and `late`, as `Exact` says.

`NearCacheProofs`, `NearCacheSound` and `NearCacheCoherent`, for any number of clients and keys, any front map and any modes:

- `TypeCorrect` and `NeverWaitsUnlistedHolds` in every mode, from `Steady`: the shape of a job at each step
  (which keys it still has to lock, has locked, has a list for), at most one answer on its way to a client,
  a lock belongs to whom the job says, and who is past `Assign` has a list for every key it has locked or
  has the whole map.
- `LocksReturnedHolds` and `ListenedHolds` where `Sound` holds, from `Keen`: a lock's count is what the
  operation and the evictions it caused have taken (`Counted`); every entry of the front map is listened to
  (`Heeded`), locked or not, which is stronger than `Listened`; and `Tracks`: a `get` that is sure of its
  registration, and a `put` that will look at its list, are listened to. That the listener of a key stays
  while its holder relies on it is because unregistering takes the lock of the key. The premise `Sound`
  is needed: findings 3 and 4 violate the two properties without it.

- `CoherentHolds` where `Faithful` holds, from `Keen` and `Truthful`. Events are applied later than they
  happen, so the invariant relates to the back map each value that somebody holds: what is on its way for
  a key (`Coming`) ends with the value of the back map, for an entry of the front map (`Entry`), for the
  value a client has read or has written (`Own`) and for that of a priming event, from the peer
  (`PrimesSent`) to the client that waits for it (`PrimesCarried`).

The proof of `ListenedHolds` showed a slip in the model that TLC cannot see: two arms of a `CASE` in
`Fail` overlapped, and TLC takes the first one where TLA+ leaves the choice open.

Every invariant that a passing run checks is thus stated by a theorem, `MarkIsHonoured` where `Lossless`
holds (above, under Oddities, is where it fails). Only model-checked are the liveness properties: the
prover has no ENABLED.

## Not modelled, and the plan

`PROJECT.json` lists every component with its status. Left out for good: query filters, extractors,
aggregators and processors (pure functions, evaluated by the peer), XML, configuration and logging
(parsing at startup), the platform wrappers, and the sequential containers.

Of the components that are modelled in part: `RemoteNamedCache` as a cache of its own (its converters,
its synthetic keys and the routing of events to filters), `LocalCache` and `OldCache` other than as a
choice of what expires and is pruned, `destroy` of caches, member and service listeners, subjects, the
event dispatcher as a queue, redirection lists, and the bytes on the socket.

Not modelled at all, and worth it: the bundlers (who executes a bundle, and what an exception does to
those who wait), `DualQueue`, `SafeHashMap`'s unlocked reads, the reference counts of `Object` with weak
references, `SafeClock`.

The plan, in order:

1. `Bundler`, `DualQueue`, `SafeHashMap`: one module each; the queue against an abstract one.
2. `ObjectCounts`: reference counts, escape and weak references.
3. `LocalCache`: units, pruning and expiry with a bound on the units; `SafeClock` with a numeric theorem.
