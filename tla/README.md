# A TLA+ model of dlight-client

dlight-client controls dLight lamps over the local network: JSON commands over TCP, length-prefixed
JSON responses, discovery over UDP broadcast. This directory holds TLA+ modules that model its
connection pool, its retrying client, its caching device facade, its discovery and the fake lamp it is
developed against, TLC configurations that check them on small instances, and proofs, checked by TLAPS, of the
safety of each of them, and of the refinements between them, for instances of every size. Line numbers refer
to `dlightclient/` unless another directory is named.

## 1. The system

Everything runs on one asyncio event loop. Between two awaits a coroutine is atomic; at an await any
other coroutine may run, and the task may be cancelled. So the model's actions are runs of a coroutine
from one await to the next, and its concurrency is in the choice of who is resumed.

| Component | State | Operations | Interacts with |
|---|---|---|---|
| Connection pool (`_pool.py`) | idle connection and lock of each (host, port, ssl) key, `persistent`, `idle_timeout` | `connection()` (check-out, check-in, eviction), `_is_live`, `close_all` | called by the client; owns the TCP connections |
| Client (`client.py`) | the pool, `max_retries`; per call the attempt and what it awaits | `_async_send_tcp_command`, `close`, setters, the public commands built on the first | pool, codec, lamp |
| Codec (`_frame.py`) | none | `encode_command`, `read_response`; for a lamp `decode_command`, `encode_response` | reads the connection of the call |
| Device facade (`device.py`) | state cache, listeners | `turn_on/off`, `toggle`, `set_*`, `get_state`, `apply_scene`, `flash`, `ping`, `get_info`, listeners | the client's public methods; calls listeners |
| Discovery (`discovery.py`) | addresses seen, queue, two sockets | `discover_devices`, `discover_devices_stream`, datagram callbacks | UDP, the consumer of the generator |
| Command line (`cli.py`) | none | parses, calls the above, prints | client, device, discovery |
| Data types (`models.py`, `constants.py`, `exceptions.py`) | none | declarations | all |
| Fake lamp (`tools/fake_dlight_server.py`) | light, failure modes; per connection a buffer | serves TCP, discovery and a control port | the other end of the wire; decodes with the codec |

What is hard in each, and what makes it correct:

* **Pool.** Exceptions and cancellations at every await; connections that die while idle; `close_all`
  and the setters between the awaits of running calls. *Correct:* each open connection has one owner;
  to a lamp there is one connection in use or pooled; the locks say what the calls are doing; a pooled
  connection carries nothing of an earlier exchange.
* **Client.** A command given up may still be executed, while its retry is under way or after it.
  *Correct:* a success belongs to the call's own command; at most one execution per attempt; a
  command reaches its own lamp; every call returns.
* **Device.** Optimistic updates overlap, fail, and are cancelled; compound operations fail half way.
  *Correct:* at rest the cache agrees with the lamp; listeners end with the final state; `flash()`
  does not claim a restoration it did not do.
* **Discovery.** Datagrams twice, malformed or late; a timeout racing the queue; a generator closed
  early, or never; sockets that cannot be made; the port free for the next discovery. *Correct:* each
  device yielded once, in order, none lost; the sockets closed and the port released on every way out;
  every request of the caller answered.
* **Codec.** Commands have no delimiter. *Correct:* `decode_command` takes exactly one off the
  buffer, however the bytes arrive.
* **Fake lamp.** Its failure modes are shared by connections, each a coroutine, and change under them.
  *Correct:* it behaves like a lamp: commands in order, one answer at most, none without
  execution; a counted mode strikes the next commands and no others.

The hazards are listed one by one, with their lines and the properties aimed at them, in `PROJECT.json`.

## 2. The modules

| Module | Models | Extends |
|---|---|---|
| `Wire` | the environment: TCP connections and the lamp at their end | |
| `ConnectionPool` | `_pool.py`: the pool's state and the pieces its coroutines are made of | `Wire` |
| `Client` | `_async_send_tcp_command` and `close()` over the pool over the wire, with the properties | `ConnectionPool` |
| `Delivery` | abstract: what the client promises of a command | |
| `Device` | `device.py` over an abstract client, with the properties | |
| `Discovery` | `discovery.py`: the generator, the datagram callback, `discover_devices`, with the properties | |
| `Census` | abstract: what a discovery promises its caller | |
| `FakeLamp` | the TCP handler, failure modes and control port of the fake lamp, with `decode_command` | |
| `MCClient`, `MCDevice`, `MCDiscovery`, `MCFakeLamp` | instances for TLC | the module named |
| `SequenceLemmas` | facts about sequences that the proofs share: removing an element, joining the end, injectivity | |
| `ClientProofs` | theorems about `Client`: ownership, traffic, answers | `Client`, `SequenceLemmas` |
| `DeliveryProofs` | theorems about `Client`: queues, executions, refinement of `Delivery` | `ClientProofs` |
| `DiscoveryProofs` | theorems about `Discovery`, refinement of `Census` | `Discovery`, `SequenceLemmas` |
| `FakeLampProofs` | theorems about `FakeLamp`, refinement of `Wire`'s lamp | `FakeLamp`, `SequenceLemmas` |
| `DeviceProofs` | theorems about `Device` with operations overlapping in any way | `Device`, `SequenceLemmas` |
| `DeviceSerialProofs` | theorems about `Device` with operations one at a time | `DeviceProofs` |

### Wire

A connection is `unused`, `up`, has a departure the kernel knows of (`fin`, `rst`), or its transport is
closing: `eof` and `lost` if the event loop did it, `closed` if the client did. `sent` and `wire` are the
commands and the responses under way on it. The lamp executes a command or does not, answers or does
not, and departs at any moment; a command on a connection the client has given up may still be
executed. Assumed of the lamp: it sends nothing unasked (`docs/ARCHITECTURE.md`, "strictly
request/response"), and it acknowledges only what it executed. Of a response only the kind matters:
empty, success, oversized, rejected (bad status, echo, undecodable), malformed (JSON that is no object).

### ConnectionPool and Client

`pc[t]` names the await a call is suspended at; the header of `Client` lists them. `conn`, `attempt` and
`outcome` are the local variables the control depends on. The correspondence:

| Code | Actions and operators |
|---|---|
| `connection()` up to the first await | `EnterPool`: `LockFree`/`TakeLock`, or `Enqueue` and wait for `Acquire` |
| `_checkout` | `Checkout` (reuse, discard, dial), `DiscardDone`, `DialSucceeds`, `DialFails` |
| `write`, `drain` | `StartExchange`, `Drained` |
| `read_response` | `ReadHeader`, `ReadPayload`, `ReadEof`, `ExchangeLost`, `ExchangeTimesOut` |
| `except BaseException` | `Evict`, `CloseDone` |
| `else` | `ReturnOrClose`, `CloseDone` |
| the retry loop's `except` clauses | `EndAttempt`, `BackoffDone` |
| `Task.cancel()` | `Cancel` |
| `close()`, `close_all` | `Flush`, `CancelFlush` |
| `time.time()`, attributes | `Tick`, `SetPersistent`, `SetIdleTimeout` |

`_is_live` is exact for what the kernel knows, except that bytes before an EOF make the peek non-empty.
The order of `popitem()` is left open. The wall clock is taken to be monotone. `answer` and `execs` are
history: whose response a call returned, how often its command was executed.

### Device

The client is replaced by what the facade can tell of it: requests wait in `line`, the lamp's lock and
its queue; the head is served, fails, or goes to `backoff` and queues again; a command given up before it
was served may stay in `late` and be executed at any later time. A cached value may be `Absent`; the cache is one
of the lamp's three fields. `apply_scene` makes two requests, as tasks that start after it suspends
(`TaskStarts`); `flash` follows a `script` of the commands it has left, of which `blinks` belong to the
flashing, so that a failure skips to the restoration (`StartRestoring`). `Cancel` rolls nothing back,
because `CancelledError` is not an `Exception`. The cleanup a cancelled exchange awaits is not modelled
here: cancellation takes effect at once. `ping` and `get_info` (`Ask`) take their place in the line and leave the
cache alone. `found` and `unsure` are history. `SerialSpec` is `Spec` with `OneAtATime`: an operation begins when the one
before it is over, as when a caller awaits each method of
a device before the next.

### Discovery and Census

Each member of `Streams` is one call of `discover_devices_stream`; those in `Collected` are made by
`discover_devices`, which asks for device after device and closes only at the end. All use one response port.

| Code (`discovery.py`) | `pc` | Actions |
|---|---|---|
| not asked yet | `new` | `Open` binds the port, or is refused |
| awaiting the listening endpoint, the sending one (161, 168) | `opening`, `probing` | `OpenSender`, `Probe` |
| `wait_for(queue.get())` (188) | `waiting` | `Receives`, `TimesOut` |
| at the `yield` in the loop (189), after it (196) | `paused`, `draining` | `Resumes` |
| awaiting `listener.closed` (232) | `closing` | `Finish`, `CloseTimesOut` |
| ended; ended without waiting for the listener | `done`, `left` | |

`Finally` is the finally block up to its await, on all ways into it; `Close` is `aclose()`, by the caller or by
the event loop when the generator is garbage; `Cancel` cancels the task at any await. `ConnectionLost` is
the later turn of the event loop on which a closed socket is gone, and only then is the port free. `Expire` is
the end of the window. `Released` is about a discovery that waited for that turn; `PortComesBack` covers one whose wait
timed out or was cancelled. A generator that is neither asked nor closed keeps its port, as its docstring says. `Datagram` is `datagram_received` with a good or a malformed datagram from any address at any
time. `Accept` keeps the deduplication: a malformed datagram leaves its sender unknown. `heard` is history.

`Census` says that a caller is told what was heard, in that order, each address once, and that a discovery
that ends by itself has told all of it. The mapping reads `yielded` as what was told and `ending` as the
discovery's fate.

### FakeLamp

A connection's handler is `serving`, `sleeping` (the delay), `hanging`, or its connection is `closed`. Bytes are
abstracted to two pieces per command, sent by a client one at a time in any interleaving with other
connections. `Reads` returns all that has arrived; `buf` is what is not decoded yet. A command in `Torn` has a first piece
that ends within a UTF-8 character, so that the buffer cannot be decoded at all (`EndsTorn`). A command in `Broken` makes
`handle_command` raise, which closes the connection. The actions follow `_handle_tcp`: `TakeCommand` (decode, `take()`,
and what the mode demands, up to the next await), `Wakes` after the delay, `Reads`, `SeesDeparture` (end of input or a
reset), `Cancelled` (the server stops). `SetMode` and `SetDelay` are the control port's commands. `pending` (commands
sent whole and not answered), `execs` and `tally` are history.

Its correctness is that it *is* a lamp of module `Wire`, the environment `Client` is checked and proved against:
`ImplementsWire` maps `pending` to `sent` and the responses to `wire`. What no lamp of `Wire` may do, and a decoder
or handler with a mistake would, is to answer a command twice, out of order, or without
executing it, or to take a fragment for a command.

## 3. The runs

| Run | Instance | Shows |
|---|---|---|
| `safety` | 2 calls, 1 lamp, 3 connections, 1 retry, 1 `close()`; framed responses of three kinds | ownership, exclusion, clean pool, own answers, executions within attempts, locks, exchanges left alone |
| `lamps` | 3 calls, 2 lamps, 3 connections, no retry, 1 `close()` | no leak when several slots are flushed; commands reach their lamp |
| `live` | 2 calls, 1 lamp, 2 connections, 1 retry; empty and oversized responses | every call and `close()` ends; refinement of `Delivery` |
| `device_serial` | `SerialSpec`: 2 operations one after the other, everything may fail | the cache agrees with the lamp, listeners settled, flash restores |
| `device_overlap` | 3 operations at once, nothing fails | updates and executions are in the same order |
| `discovery` | 2 discoveries on one port, one of them `discover_devices`; 2 addresses | devices told once, in order, none lost; sockets closed, port released; every request returns, and every port comes back |
| `fakelamp` | 2 connections, 3 commands (plain, torn, raising); counts 1 and 2 | counted modes strike the next commands; refinement of `Wire`'s lamp; commands sent whole are served |
| `close`, `fresh`, `idle`, `device_rollback`, `device_toggle` | the smallest instance that shows it | the code does what its documentation excludes (section 4) |

**Bounds.** `Conns` bounds how many connections are dialled in a behaviour: when they are used up a dial
can only fail, which it may always do. Two calls with one retry are four attempts; three connections
let one be reused, discarded and replaced while another call waits, which is what every property of
`safety` is about. `lamps` has no retries, because what it adds is the second slot. `IdleTimeouts = {0}`
and `MaxAge = 1` tell "at once" from "later", the only distinction the comparison makes; the ages saturate. For
the device, two operations in a row give every operation every cache and lamp the first can leave
behind; three at once give a queue with a holder and two waiters. `Levels` has two values so that old
and new differ, `Temperatures` one, with `Absent` as the other value of the cache. `MaxLate = 1` bounds
the commands under way to the lamp from operations given up.
Calls of one lamp, operations and levels are interchangeable, which the symmetry sets use; the
liveness run uses none. Two discoveries on one port are enough for one to find the port taken, being freed,
or freed; two addresses give an order to keep, a duplicate, and a malformed datagram before a good one.
With three addresses the run takes minutes and shows the same. For the fake lamp, two commands on one connection come
back to back and a third interferes from the other; every strike of a fault ends the service of
its connection, so counts above two cannot be used up by two connections. `InTurn` numbers the commands in the
order they are begun. `WhenItMatters` lets the control port move only when a command is about to be taken, which is the
only time its settings are read, and lets a fault strike before another replaces it.
Deadlock checking is off where the system may stop: when the finitely many operations of a device, or the
discoveries, are over, and when the clients of the fake lamp have nothing left to send.

In `device_overlap` scenes and state queries run on their own. That restriction is needed: the tasks of
`apply_scene` queue for the lamp after the scene has updated the cache, so a command scheduled
before them overtakes, and a report replaces the cache with what was true before a
later optimistic update. Both leave the cache wrong with nothing having failed.

**Fairness.** `FairSpec` assumes only that the event loop resumes a suspended coroutine (`WF` of `Resume(t)`)
and that `close_all` is resumed. It is what asyncio does: each await completes or runs into its
`wait_for` timeout, `sleep` ends, and the lock's queue is FIFO. Nothing is assumed of the lamp, the
network, the clock, or of new calls. A call waiting for the lock needs no strong fairness: once
granted, `Acquire` stays enabled until it runs. `EveryCloseReturns` rests on `Calls` being finite: in the code, too,
calls that never cease to check connections in can keep `close_all` in its loop. For discovery, the event loop resumes the generator when its await
can end (`Generator`), runs a closed socket's callback (`ConnectionLost`), and time passes (`Expire`); only
`discover_devices` is assumed to ask for the next device, since other callers may pause for ever. For the fake lamp,
handlers are resumed (`Handler`); clients need not send anything.

**Refinement.** `Delivery` says of a command that it is tried at most `MaxTries` times, takes effect at most once per try,
that success means it took effect, that failure means nothing of the kind, and that every call ends. The mapping
(`D` in `Client`) reads a call as active from its start to its end and counts attempts. `Discovery` implements `Census`
and `FakeLamp` the lamp's side of `Wire`, as described in section 2. The latter is about steps, with `sent` and
`wire` as they are between a client and this lamp: a client that hangs up leaves its command to the lamp, as in `Wire`.

## 4. Where code and documentation differ

* `close`: a call in flight when `close()` returns pools its connection afterwards
  (`docs/user-guide/connections.md:41`, "all TCP connections closed").
* `fresh`: a retry may reuse the connection another call pooled during the backoff
  (`connections.md:74`, "Each retry gets a fresh TCP connection").
* `idle`: `idle_timeout=0` evicts everything idle (`connections.md:61`, "disables idle eviction").
* `device_rollback`: overlapping failures roll back to each other's optimistic values
  (`docs/ARCHITECTURE.md:64`, "the cache never reflects a command the device didn't acknowledge").
* `device_toggle`: with a cache that lacks `on`, a toggle always turns on
  (`docs/user-guide/device-control.md:41`, "off -> on, or on -> off").

Met while modelling, without a run: a cancelled command is not rolled back, because `CancelledError` is no `Exception`
(`device.py:72`), so that the cache may say what the lamp was never asked; `CacheTracksLamp` treats the field of such a
command as in doubt. `apply_scene` rolls back only the field that failed, its docstring says "together"; `docs/api/device.md:70` names `DLightCommandError` where `ValueError` is raised.
The control port answers `hang 0` with "until 'normal'" (`tools/fake_dlight_server.py:247`) but such a mode strikes
once, because `take()` counts before it compares. `decode_command` returns `None` "when the buffer does
not yet hold a complete command" (`_frame.py:74`), and also when it holds one followed by part of a character; `EveryCommandServed`
excludes that case.

## 5. The proofs

The theorems hold for any sets of calls, lamps, connections, streams, addresses, commands and operations, any number of
retries, flashes and concurrent `close()`, and any idle timeouts and kinds of response. They assume what the modules
do of their constants: `WireAssumption`, `PoolAssumption` and `ClientAssumption` (null values are not members, keys are
keys, `MaxRetries` is a natural number), `DiscoveryAssumption`, `FakeLampAssumption` and `DeviceAssumption`. Every safety
property of the passing runs is a theorem, except for what `device_overlap` adds (below). Each inductive invariant
was checked by TLC before it was proved.

### Client (`ClientProofs`, `DeliveryProofs`)

1. `TypeInv` (`TypeCorrect`, `TypesHold`): types, a call in an exchange has a connection, and a call that backs
   off has a retry left. Without the last, the increment of `attempt` would leave its range.
2. `LockInv` (`LocksHold`): a call inside `async with` holds its key's lock. A step moves the lock of its own key
   only; `CallLockMove` says how, for all calls' steps at once.
3. `OwnerInv` (`OwnersHold`): every open connection is in one slot or used by one call; a slot's key is free of
   holders. From it `OneOwner` and `OneConnectionPerLamp` follow: check-in cannot overwrite,
   because whoever holds the lock popped the slot.
4. `TrafficInv` (`TrafficHolds`): an exchange's connection carries its command or the
   response to it, never both, and an accepting response means an execution; a pooled one carries nothing. It
   needs ownership, for otherwise another call could write there. `PooledIsClean` follows.
5. `AnswerIsOwn` (`AnswersAreOwn`): the frame an exchange consumes is, by 4, its own.
6. `ExchangesAreSpared` and `CommandsReachTheirLamp` use 3 and a slot invariant on `lampOf`.
7. `QueueInv` (`QueuesHold`): a lock's queue holds exactly the calls that wait for it, each once. `QueueMove` says
   that a step appends its call, removes it from one place, or leaves the queue. `LocksAgree` follows with 2.
8. `CountInv` (`CountsHold`): a connection carries at most one command, and a call's executions, together with its
   commands still at the lamp, do not exceed the attempts it has written. The second part counts connections, given up
   ones included, and so needs the cardinality of finite sets. It is what remains true while a retry overtakes
   its predecessor. `OncePerAttempt` follows.
9. `DeliversSafely`: with 5 and 8 every step of `Client` is a step of `Delivery` or leaves its variables alone. It is
   `ImplementsDelivery` without `Delivery`'s fairness.

Each step lemma has a case per kind of action: calls' steps through what they do to lock, connection and
traffic, then lamp and network, `close()`, and clock and setters.

### Discovery (`DiscoveryProofs`)

`SocketInv` (`SocketsInvariant`) says for each await which sockets are open there, and who holds the port. `TypeOK`,
`NothingLeftOpen` and `Released` are read off it. `TaleInv` (`NothingLost`) adds that `heard` is `yielded` followed by
`queue`, without duplicates, that `discovered` is its range, and that a discovery that completed has an empty queue:
the timeout branch drains what a datagram put there between the timeout and the loop's next look. `TakesACensus`, the
refinement of `Census`, maps each step with it.

### Fake lamp (`FakeLampProofs`)

`OwesInv` (`PendingAgrees`) says where each byte is: while a handler serves, its buffer is the pieces from the last one
decoded to the last one read, and the commands pending are those whose first pieces are every second one from there, the
one whose handler sleeps in front. From it `IsALamp`, the refinement of `Wire`'s lamp, follows: what `decode_command`
takes off the buffer is the oldest command pending. `TallyInv` (`ModesHold`) relates the counter shared by the connections to
the commands taken since the mode was set; `ModesStrikeTheNext` is its consequence.

### Device (`DeviceProofs`, `DeviceSerialProofs`)

`BaseInv` (`BaseHolds`) holds with operations overlapping in any way. It says that the lock's queue holds the requests that
wait for the lamp or are with it, and which requests, commands and script an operation has at each of its awaits
(`Shape`): a flash has the tail of its script left, of which `blinks` are still blinking. `TypeOK` is part of it.

`SerialInv` (`SerialHolds`) is about `SerialSpec`, where operations come one at a time and anything may fail, be retried,
be executed late or be cancelled. `CacheTracksLamp` says nothing while an operation is under way, so it is far from
inductive. What is needed there is `Within`: for each command under way the cache already has the new value, the lamp
has it if and only if it has executed the command, and otherwise the clone `before` is what the lamp still is, which is
why a rollback restores the truth. All other fields agree already, and a query's reply is the lamp's state. All of it
is up to `Doubted`, the fields in which a command ended without an answer. For flash, `FlashKeeps` says that only
"on" differs from `original_state` and that the commands left end with the one that takes it back, as long
as nothing went wrong. `CacheFollowsLamp`, `ListenerFollowsCache` and `FlashLeavesNoTrace` follow.

### Only model-checked

* Liveness: `EveryCallReturns`, `EveryCloseReturns`, `EveryRequestReturns`, `DiscoveryReturns`, `PortComesBack`, `EveryCommandServed`, and the
  fairness that `ImplementsDelivery` demands. The prover does not treat `ENABLED`, on which fairness rests.
* `CacheTracksLamp` and `ListenerSettled` of overlapping operations that all succeed (`device_overlap`). Their invariant
  relates the order of updates to the order of the queue, and is not written yet.

## 6. What is not modelled

The command line (a sequence of calls without state), data types (declarations), the logging and masking of
secrets, the text that `encode_command` and `encode_response` produce, and `claude_skills_gemini.py` (not part of
the client). Of the fake lamp: what commands do to its light, the discovery responder, which keeps no state, and
starting and stopping it. Inside the modelled parts: `id()` of an SSL
context in the pool's key, `max_retries` changed during a call or negative, the exception types
within one class of outcome, the lengths of backoffs, and what asynchronous listeners do as tasks. In discovery, the
contents of the datagrams beyond sender and well-formedness, and the kernel's receive buffer: datagrams that wait there
when the window ends, because the event loop was busy, are lost. A datagram is modelled when the callback runs.

## 7. Plan

1. *Done:* `Wire`, `ConnectionPool`, `Client` with `Delivery`; `Device`; `Discovery` with `Census`; `FakeLamp` with the
   decoder, against `Wire`. The theorems of section 5 for each.
2. Overlapping operations of `Device` that all succeed: the last update of a field is the last of its commands in the
   queue, or the lamp has it; from this `CacheTracksLamp` and `ListenerSettled` in the setting of `device_overlap`.
