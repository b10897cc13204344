# A verification model of the OpenHDO Linker

The Linker connects one local Tuya-compatible light to an OpenHDO server over a
WebSocket.  It is one asyncio process: what makes it hard is not parallelism
but the tasks that interleave at every `await`, the failures that can happen at
each of them, and the retries of a server that may not have heard an answer.
This directory holds TLA+ modules of that behaviour, TLC configurations that
check them on small instances, and TLAPS proofs.

Paths below are relative to `src/`; code lives in `src/openhdo_linker/`.

## Inventory

| Component | State | Operations | What must be right |
|---|---|---|---|
| **Light command boundary** `boundary.py` `LinkerBoundary.handle`, `_execute`, `MemoryCommandJournal` | light and device bound, command lock, journal, command in progress | refuse, accept, wait, repeat, reject value, start, succeed, fail, cancel | a retry never repeats an operation and always gets the same answer; "applied" was confirmed; the right device is driven; nobody waits forever |
| **Server session** `server_client.py` `LinkerServerClient` | stop event, WebSocket, the receiver and publisher tasks, driver lock, send lock and its queue, subscription, the thread of a scan | connect, register, receive, scan, poll, publish, push, pair, end, back off | states name a light the server was told of; pairing has the driver to itself; only the reader of a replaced connection outlives a session; stop stops; scans are answered; failures are recovered from |
| **Pairing** `tuya.py` `pair`, `boundary.py` `handle_pairing` | candidates of the last scan, the driver's device, callbacks, the boundary's binding | verify and adopt, or roll back | binding, file and driver agree, however a pairing ends; only verified devices are adopted |
| **Pairing file** `tuya.py` `_save_pairing_state`, `_load_pairing_state` | one JSON file | write, fsync, replace, load | what is restored was verified, and is what was in force |
| **Tuya connection** `tuya.py` `connect`, `disconnect`, `_exchange`, `_reader_loop`, `_handle_status` | sockets, reader tasks, session key, pending requests, sequence, send lock and its queue, last state, raw DPs | connect, negotiate, request, reply, push, time out, retry, close, cancel | a request gets its own reply; a lost device is noticed; every exchange ends; no socket, reader or request is left behind; a state is of one device |
| **Discovery** `tuya.py` `discover`, `_discover_sync`, `boundary.py` `handle_discovery` | candidates, UDP sockets of a thread | scan, time out, complete | completes within the server's budget; candidates are those of the latest scan |
| **DP mapping** `tuya.py` `TuyaDpMapping` | none | scale brightness and white, encode and decode colours; write and read back | in range, nearly inverse; what is reported as applied was written |
| **Reconnect supervisor** `driver.py` | attempts, delay | connect, back off | retries until stopped (no process of the repository runs it) |
| **Envelopes and values** `protocol.py`, `models.py` | none | validate, serialise | malformed input changes nothing |
| **Framing and ciphers** `tuya.py` | session key | encode, decode | left to unit tests |
| **Configuration, CLI, smoke** `runtime_config.py`, `config.py`, `cli.py`, `smoke.py` | none once started | load, run once | `_run` starts and stops the process |

How they interact.  The session's receiver calls the boundary, one message at a
time; the boundary calls the driver and waits for it.  The publisher calls the
driver directly, under the driver lock, which pairing takes too and commands do
not.  The driver's reader task calls back into the publisher's `publish` with
pushed states.  Everything that leaves goes through the send lock, whose
waiters are served first come first served.  Pairing rewrites the driver's and
the boundary's idea of the current device between two awaits.

Hard behaviours: redelivered and conflicting commands; a cancellation or a
restart between a driver operation and its journal entry, or inside a durable
one; pairing while states wait to be sent; a pairing that fails when everything
has moved already; a lamp that moves between a write and its read-back; the end
of a session while any task is anywhere; a device that fails, reconnects or
pushes at any time; replies that come late, or on a connection that has been
given up; two connects at once.  `PROJECT.json` lists them as hazards, each at
its line with the properties that cover it or the reason why none does.

## Modules

**`IdempotentCommands`** is the promise to a server that retries: the first
command under a key decides it, once; answers, which may come late or never,
repeat the decision word for word; a refusal decides nothing; a new life of the
journal forgets.

**`LightCommands`** is the boundary.  A *handler* is one call of `handle`; its
`pc` is where the call is suspended (`waiting` for the command lock,
`executing` a driver operation, `storing` and `stored` in a durable journal's
`put`, before and after the entry is there).  `Refuse` is the part before the
lock, `Accept` the wait for it (`waiting` is the lock's queue), `Repeat`,
`RejectValue` and `Start` the three ways on from the journal lookup, `Succeed`
and `Fail` the return of the driver.  `Decide` is what follows: the memory
journal's `put` does not suspend, so entry, answer and release of the lock
belong to the step that decides; a durable journal's is an await, and the entry
(`Store`) and the answer (`Reply`) are steps of their own.  `CancelWaiting` and
`CancelHolder` are a `CancelledError` at any await (or a `put` that raises),
`Restart` is a new process.  Code between two awaits is one action.  `outcome`
is the payload that is being stored; `operations` and `results` are histories:
every driver operation with its fate and every answer sent.  The driver is not
looked into: an operation is confirmed (it returned a polled state),
unconfirmed (it raised), interrupted, or unrecorded (its outcome was known, and
lost before it was stored).  Envelopes carry the five fields `handle` looks at,
each valid or `None`; `None` stands for missing or malformed.

**`ServerClient`** is the session.  `main`, `receiver` and `publisher` are the
program counters of `run`/`_session`, `_receive_loop` and `_publish_states`;
the driver's reader appears as the task that queues pushes.  `driverLock` is
`_driver_lock`; `outbox` is the queue of `_send_lock`: what each task has in it
and behind whom (a task awaits its send, so it has one message at most), and a
task with nobody ahead is being served.  `scan` is the thread of
`asyncio.to_thread`, which goes on when the wait for it times out or is
cancelled.
`told` (the light last announced by `link.register` or `pairing.completed`) and
`wire` (the last message sent) are histories.  `EndSession` is the cancellation
of all tasks in `_session`'s `finally`; `FinallyOf` says which part of the
publisher's own `finally` still runs, depending on where it was cancelled.
A command's exchange connects for itself (`Reach`, `Reached`) and can do so
while the publisher does: the connection made last replaces the other
(`Connected`), whose reader is then the `stray` one: it goes on publishing, no
disconnect cancels it, and it may have pushed for the last time at any moment.
`current` says which of the two reader tasks is the driver's.

**`RequestReply`** is the promise of an exchange to its caller: each request is
asked once and answered or given up once, an answered one was carried out, and
the device carries none out more often than it was sent.

**`TuyaConnection`** is the inside of the driver's exchanges during one
session.  The receiver, the publisher and `_session` are its tasks; `pc` is the
await a task is suspended at (`queued` for the driver's send lock, `opening`,
`shaking` for the 3.4 negotiation, `waiting` for a reply, `gathering` the
cancelled reader and `closing` the writer in `disconnect`, `sleeping` between
attempts) and `call` the caller it goes back to.  `conn`, `key`, `readerTask`
and `pending` are the driver's fields, and `lock` says who holds `_send_lock`;
the other caller is behind it when its `pc` is `queued`.  Every connection has
a reader task of its own, which looks the current stream up again for every
frame, so that `stream` may differ from the connection the reader was made for.
Frames are numbered as they are sent; the code knows them modulo `Width`.
`link`, `unanswered` and `executed` are the sockets, the answers under way and
what the lamp did: it may answer late, on a connection that has been closed,
never, or carry a frame out after its caller gave up.  `EndSession` cancels
both callers wherever they are, and `MainDisconnects` is what the session does
last.  `_read_frame_until` can skip frames that are not the response it waits
for; the model has no such step, because the lamp of the model sends nothing
before its response and nothing else until it has a key.  `Promise` maps it to
`RequestReply`.

**`Pairing`** looks inside what the two modules above take as one operation.
Its state is the driver's (`device`, `conn`, `callbacks`, the origin of
`_raw_dps`, the candidates `discovered`), the boundary's (`adopted`), the
pairing `file`, and the receiver's place in a scan or a pairing (`pc`, with
`candidate` and `previous` the locals of `pair`).  `StartPairing`, `Reached`
and `Verified` are the stretches of `pair` between its awaits, `PairingFails`
an exception, timeout or cancellation at any of them, `RollBack` the `except`
block and `RollBackInterrupted` that block ended by its own `disconnect`.
`pair` describes the device after its `try` block.  `Describable` are the
devices whose Tuya id `DeviceDescriptor` accepts; for the others that raises
when file, device and callbacks have moved, and `Adoption` leaves the boundary
its binding.  With `LateAdoption` (Python 3.11: `wait_for` runs `pair` in a
task of its own) `Adopt` may be a step after `Verified`.  The file is replaced
by `os.replace`, so that a crash (`Restart`, at any point) finds the old file
or the new one; a file whose device cannot be described stops the new process
(`pc = "stopped"`) until it is started again, to the same end.  A device stands
for its candidate id and its light, which are a hash of it; a state stands for
the devices its DPs came from.  `verified`, `reported` and `interrupted` are
histories.  The receiver is serial and pairing holds `_driver_lock`; that is
what `NotPairing` and `pc = "idle"` in the other actions say, and what
`ServerClient` checks as `PairingIsAlone`.

**`DpMapping`** is what a command's values become.  `range` is the mapping's
range of brightness and of white, `dps` what the lamp does, `raw` the driver's
`_raw_dps`, `reported` the levels of its `_state`.  `ToDp` and `FromDp` are the
two scales with their two roundings: integer division with 127 added, and
Python's `round`, which takes a half to the even number.  A command is two
exchanges, `Write` and `ReadBack`, and either may fail; in between (`writing`)
the lamp may be moved by hand or by an earlier write that is carried out late
(`Moved`, `Elsewhere`), push its state or answer the publisher's `Poll`.
`obeyed` is what the lamp did of a write and `answered` what it answered to a
poll.  `moved` and `asked` are histories: the channels moved since the write,
and, of those that were not, the levels the driver's state answers for.  `Poll`
replaces what is known and `Push` adds to it; a set of values that cannot be
mapped (`Readable`) changes no state.

**`MCLightCommands`**, **`MCServerClient`**, **`MCTuyaConnection`**,
**`MCPairing`**, **`MCDpMapping`** give TLC its instances;
**`LightCommandsProofs`**, **`ServerClientProofs`**,
**`TuyaConnectionProofs`**, **`PairingProofs`** and **`DpMappingProofs`** hold
the proofs.  Definitions marked `Defect:` are
variants of the one that follows them with a plausible bug; the project's
mutants put each in place of the original to show that the properties notice.

## Runs

| Run | Question |
|---|---|
| `commands_concurrent` | two handlers at once: do the answers, the journal and the operations agree, does every accepted command leave the boundary, and does the boundary implement `IdempotentCommands`? |
| `commands_serial` | one handler at a time, as the session calls it, two lights, a durable journal whose `put` may be cut off: do commands also reach the light they name, and is an answered command final? |
| `session` | what is on the wire, who drives the device, what outlives a session; does stop stop, is a bound light reported, is a scan answered? |
| `connection` | does a reply belong to its request, is there one connection and does `health` tell the truth about it, what does a session leave, do exchanges end and a dead reader get noticed, and does `_exchange` implement `RequestReply`? |
| `pairing` | an id that cannot be described, both versions of `wait_for`, interrupted rollbacks, crashes: is the binding verified, does the file follow it, what does a failed pairing leave, and is a state published for a device it came from? |
| `pairing_lost_binding` | violated: `RestartRestoresBinding` (below) |
| `pairing_mixes_devices` | violated: `ReportedStateIsOwn` (below) |
| `dimmers` | is what is reported as applied what was written, whatever happens between write and read-back, and is a reported level reported again when it is sent back? |
| `dimmers_ignored_write` | violated: `AppliedIsReached` (below) |
| `session_scan_outlives` | violated: `ScanEndsWithSession` (below) |
| `session_never_reconnects` | violated: `RunsUntilStopped` (below) |
| `publisher_never_recovers` | violated: `PublishesUntilSessionEnds` (below) |

Bounds.  Commands: at most `MaxOperations` (2 with two handlers) driver
operations are started and `MaxLives` journals lost; the envelopes of an
instance are chosen to contain a command and its redelivery, another command
under the same key, one with another key or light, an invalid value and
malformed metadata.  Two handlers are enough for the lock to be contended and
for a waiter to be cancelled behind a holder; a key is used by two operations
at most before the properties could fail, and the bounds allow that in one life
and across two.  A durable journal loses no life (`MaxLives` 0): its restarts
are not bounded, and two operations are enough for one to be lost in `put` and
run again.  Sessions: two lights, so that pairing can change the binding or
repeat it.  `ServerClient` needs no bound on its queue: each task has at most
one message in it. Connection: two requests, a retry and two connections
(`MaxRequests`, `Retries`, `MaxConns`), over either protocol version, are
enough for an attempt to time out with its answer under way, for the next to
run on a new connection beside a reader of the old one, and for the connects of
a command and of the publisher to overlap.  `Width` 4 stands for 2^32: frames
of the instance do come round to a sequence number in use before. Pairing:
three devices, one bound before, one paired next and one that cannot be
described, are what it takes for a pairing that failed late, or an interrupted
rollback, to be followed by another pairing; nothing else in `Pairing` grows.
Dimmers: ranges with fewer values than levels (where levels collapse) and with
more, in every combination for the two channels, and levels and moves that fall
between two values; the theorems cover all the others.

Abstractions to know of.  `ServerClient`'s `wait_for` is that of Python 3.12,
which awaits in the caller's task; the project also allows 3.11, where a push
can fall between `pair` and the adoption of its result (`Pairing` has both
versions: with `LateAdoption` the step may come later).  In `ServerClient` the
server is taken to redeliver a command as it was, so that a cached result is
for the light the redelivery names, and a connection that is still negotiated
is not replaced: `TuyaConnection` has that.  `Pairing` has one connection: what
the reader of a replaced one may still push of the old device after a pairing
is outside it.

`CHECK_DEADLOCK FALSE` is set for the runs of the session, whose process
exits, and of the connection, which is that of one session; the other runs
check for deadlock.

One assumption of `TuyaConnection` to know of.  A reply that comes at all comes
before its sequence number is used again (`Recent`), which at 2^32 frames is
years.  `ReplyIsOwn` rests on it: nothing else in the driver tells a reply from
one to a frame a whole turn earlier.  `Parameters` wants `Width` above 2,
because while a frame waits the publisher's own negotiation may draw two more
numbers, and the proof of `ReplyIsOwn` has all three differ.  With one number
in all the property is false: the lamp's response in the negotiation, read by
the reader of an older connection, is taken for the reply.  The two protocol
versions differ in the negotiation and in the key: on 3.4 the lamp does not
understand a frame made with another connection's key.

Fairness.  `LightCommands!FairSpec` is weak fairness of each handler's work:
the event loop runs what can run, and each wait of the driver has a timeout, so
that an operation returns or raises, and a durable journal is taken to do the
same.  Nothing is assumed of cancellations, restarts or new commands.
`ServerClient!FairSpec` is weak fairness of each task and of sending, for the
same reason (`open_timeout`, the WebSocket keepalive, the driver's timeouts,
the naps), and strong fairness of the publisher, because the locks it waits
for, the driver lock and between two commands the driver's own send lock, are
asyncio's and first come first served.  The server's closing, signals, pushes
and a replaced reader are not fair.  The thread of a scan ends
(`_discover_sync` has a deadline).  `TuyaConnection!FairSpec` is weak fairness
of each caller's own steps, because each of its awaits has a timeout or ends
with the socket, and of the end of a session once it has begun; nothing is
assumed of the lamp, the network, the readers and the callers' next requests.

## What the checks found

* **`run` never reconnects** (`server_client.py:55`).  `_wait_or_stop` returns
  `False` when the delay elapses and `run` returns on `False`, so the process
  ends after its first session or failed connection.  ADR-0001 (line 20) says
  the boundary owns "reconnect with bounded exponential backoff".  The
  counterexample is four steps: connect fails, back off, exit, not stopped.
* **The publisher never recovers** (`server_client.py:156`), by the same
  inverted test: one device failure, and no state is polled for the rest of the
  session, though the message logged says "reconnecting".

* **A published state may mix two devices** (`tuya.py:958`).  `_raw_dps` is
  kept when `pair` moves to a candidate and when it moves back.  After a failed
  pairing whose poll was answered, a partial push of the old device is merged
  with the candidate's DPs and published under the old light.

* **A failed pairing may take the binding with it** (`tuya.py:589`).  `pair`
  describes the device it paired when its `try` block is left, and
  `DeviceDescriptor` (`models.py:41`) refuses Tuya ids that the scan accepts
  (`tuya.py:59`): those with a capital or a leading digit.  File, device and
  callbacks have moved by then, nothing is rolled back, and the boundary
  answers "failed" and keeps its light, whose commands fail until the next
  pairing; the next start raises (`cli.py:156`).  The README of the Linker
  (lines 100-102) says the file is written "atomically after verification, so a
  Linker restart restores the binding".  If every id can be described the same
  property is proved (`BindingSurvives`).

* **A lamp that ignores a write is reported as obeying it** (`tuya.py:860`).
  `_set_values` returns the polled state without a look at what it wrote, and a
  returned state is an applied result.  The README of the Linker (lines
  180-181) says a result is sent "only after the real device action is
  confirmed by a read-after-write poll".  With a lamp that does what it
  acknowledges (`Obedient`) the same property holds and is proved.

* **A scan outlives its session** (`tuya.py:543`).  Cancelling the wait for
  `asyncio.to_thread`, or its timeout, leaves the thread running with the UDP
  ports bound; a scan asked for meanwhile cannot bind them and finds nothing,
  and the process exits only when the thread is done.  ADR-0001 (line 36) says
  a cancelled scan "is cancelled with the WebSocket session".

Facts about the connection that its properties are stated around.  The
publisher's `connect` and a command's can overlap, since commands take no
driver lock (`ServerClient` has what that means for the session,
`TuyaConnection` what it means for the connection): the later one replaces the
earlier connection, whose socket nobody closes and whose reader goes on; on 3.4
`health` may then call a connection good for the sake of the other one's
reader.  `replaced` marks these behaviours; `ReplyIsOwn`, `KeepsRequests` and
the liveness properties hold in them too.  A reader of an old connection that
dies fails requests sent on the new one, which costs an attempt.  An error in
`wait_closed` ends an exchange that had a retry left.  A disconnect that awaits
the old reader may close a connection made in the meantime.  None of these
contradicts a document of the repository.

Facts about pairing that its properties are stated around.  If the rollback's
own `disconnect` raises, the driver keeps the failed candidate, and
`DriverFollowsBoundary` says nothing until the process ends (`interrupted`):
`_check_device` keeps commands and polls off that device, and the light is out
of reach until the next pairing or restart.  After it the publisher's callback
stays filed under the old device and a later pairing does not move it.  The
same goes for a device that cannot be described, except that its callbacks have
moved: its pushes are published under the old light.  And with Python 3.11 a
push between the end of `pair` and the adoption is published under the old
light.  `ReportsNameTheirSource` leaves these three out, each by a condition of
`Sound`.  A reader that a disconnect does not cancel may publish one state
after its session has ended, on a socket that is closed
(`SessionLeavesNothing`).

A fact about dimmers: a lamp that is moved between a write and its read-back is
reported as it then is, as an applied result of the command.
`AppliedIsReached` speaks of the channels that were not moved.

Everything else checked holds.  Two facts of the code that a property had to be
stated around: a command whose handler is cancelled during the operation, or
before a durable `put` has stored its outcome, leaves no journal entry, so its
retry runs again (`AtMostOnce` allows exactly that; `AnsweredIsFinal` says that
no server has heard an answer by then); and when stop cancels the reply to a
pairing, the reader may still publish one state of a light the server was not
told of (`ReportedWasAnnounced` is about the session while it lasts).
`ReachesNamedLight` fails with concurrent handlers, because the light is
compared before the wait for the lock; it holds because the receiver is serial.

## Proofs

`LightCommandsProofs` proves for all handlers, envelopes, lights, ids, keys and
bounds, from the assumptions named in `LightCommands` (the types of envelopes
and parameters, and that `None` is none of the other values):

* `InductiveInvariant`: `Spec => []IInv`, and from it `TypeCorrect`,
  `RetriesAgree`, `RetriesDoNotRepeat`, `AppliedIsConfirmed`,
  `OperationsAreSerial`;
* `SerialReachesNamedLight`: with at most one handler, `ReachesNamedLight`;
* `AnsweredStaysFinal`: `Spec => AnsweredIsFinal`, an action property: an
  operation starts only under a key without an entry, and every answered
  decision is one (`AnswersJournaled`);
* `ImplementsPromise`: `Spec => KeepsPromise`, the refinement of
  `IdempotentCommands`.

None of the safety properties is inductive.  That a retry does not run again
needs to know that every outcome of this life is in the journal, or is the one
being stored (`OutcomesJournaled`, with `OutcomeDecides` for what a durable
`put` has in hand); that an outcome can be entered needs that the entry of
the running command's key is still empty, which needs that the holder of the
lock, its `pc` and the last operation belong together (`LockAndOperation`,
`RunsFor`);
that repeated answers agree needs that each answer of this life is the
journal's (`AnswersJournaled`) and that entries decide their own key
(`JournalDecides`); that "applied" was confirmed needs that payloads are backed
by an operation whose record no longer changes (`Backed`).  `IInv` is the
conjunction of these.  The proof shows `Init => IInv`, one lemma per action for
`IInv /\ Next => IInv'`, and reads each property off `IInv`; the refinement
maps `Finish` and `RejectValue` to `Decide` with its answer, or, with a durable
journal, to a stutter, `Store` to `Decide` without its answer and `Reply` to
`Repeat`; `Repeat` to `Repeat` or `Refuse`, `Restart` to `Forget` or a stutter,
and the rest to a stutter.

`PairingProofs` proves for any set of devices, from `NoneIsNoDevice`,
`DescribableAreDevices` and `Choices`, whatever rollbacks, `wait_for` and
crashes do:

* `InductiveInvariant` (`IInv`) with `TypeCorrect`, `BoundWasVerified` and
  `FileFollows`.  `MovingToCandidate` is the strengthening: while a device is
  being paired it is the driver's device, and the file names it when the
  boundary is about to adopt it;
* `BindingSurvives`, the property the run `pairing_lost_binding` violates,
  assuming that every device can be described: it is read off `IInv`;
* `FailureLeavesNoTrace` and `ReportsAreSourced`: `WayBack` adds, for as long
  as no rollback was interrupted, that `previous` is the boundary's device
  until the pairing is over, or one that cannot be described, and that
  callbacks are filed under the device that is to receive them.

`DpMappingProofs` proves for any ranges that `TuyaDpMapping` accepts, any
levels and any values of the lamp: `TypeCorrect`; `AppliedIsNear` and
`NoDrift`, assuming `Obedient`.  The lemmas say that each scale rounds to the
nearest (`ToDpIsNearest`, `FromDpIsNearest`); that in a range of 256 values or
more a level comes back as it was (`LongRangeIsExact`) and in a shorter one a
value does (`ShortRangeIsExact`), so that in every range a reported level is
stable (`ReportedLevelIsStable`).  The invariant is `ObedientInv`: while a
write is to be read back, a channel that was not moved is where it was sent
(`LampObeyed`), and what is reported for a command went through both scales
(`ReadThroughBothScales`).

`ServerClientProofs` proves for any set of lights, from `NoneIsNeither` (`None`
is no light and no task's name): `InductiveInvariant`, and from it
`TypeCorrect`, `PairingHasTheDriver`, `SessionEndsWhole` and
`StatesFollowTheirAnnouncement`.  Only `LockIsHeld`, who holds the driver lock
where, is nearly inductive by itself.  That a session leaves nothing needs what
each task has in the queue at each of its program counters (`BeforeSession`,
`InSession`, `AfterSession`, `TasksSendTheirOwn`).  That a state follows the
announcement of its light needs the queue: it is totally ordered (`Ordered`),
and the light of every queued state is the one the server will have been told
of when that state is served (`LightsAreAnnounced`, with `ToldBefore` for the
states behind a queued `pairing.completed`).  The queue is reasoned about by
three lemmas, for a step that joins it, leaves it, or does both; the steps are
grouped by which of these they do.  The two readers have four lemmas of their
own: what a reader that is cancelled, a connection that is closed and one that
is replaced leave in the queue (`ReaderDropped`, `ClosedReaders`,
`ReaderDroppedLights`, `ConnectedReaders`).  What `SessionEndsWhole` proves is
that nothing of the session is left but the reader of a replaced connection,
with one state at most, and not even that when the process has ended.

`TuyaConnectionProofs` proves, for any number of retries, requests and
connections, any `Width` above 2 and either set of protocol versions, from
`Parameters`: `InductiveInvariant`, and from it `TypeCorrect`,
`RepliesMatchRequests`, `OneOpenConnection`, `HealthTellsTheTruth` and
`SessionEndsClean`; and `KeepsItsPromise`, the refinement of `RequestReply`.
`IInv` is also an invariant of the run `connection`.  It has four layers,
proved one after the other.

* The tasks and the lock.  `Calls`: the call a task is in says where it can be
  suspended and how far the publisher has come.  `LockIsHeld`: a task in an
  exchange has asked a request nobody else has, and holds the lock or waits
  behind a holder that is in an exchange too.
* The frames.  `ReplyIsOwn` needs that the frame waiting for a reply is that of
  the holder of the lock (`FrameIsCurrent`), that a frame is filed under its
  own number (`FiledUnderItsNumber`), and that the waiting one is at most two
  behind the last one sent (`FrameIsRecent`): then a reply that is `Recent` and
  has its number is its own.  Nothing but the publisher's connect can draw
  numbers meanwhile, and that happens once a session.
* The connections.  `ConnectionsAreOpened`: what is current, read or negotiated
  on has been opened, and what a reader is doing agrees with its stream.
  `OneConnection` is inductive together with it.
* `MainIsLast`: main disconnects when both callers have returned for good, so
  that nobody undoes its disconnect while it waits.

Most actions are ways out of something: a failed attempt, an abandoned
negotiation, a disconnect at any of its awaits, a cancellation.  The proof
shows each of them to be a departure (`Departs`: the writer may be closed, the
reader stopped, pending requests failed, the task goes on, retries or returns),
and each layer once to be kept by any departure.  For the refinement,
`AttemptsAreCounted` says that as many frames carry a request as attempts were
begun, so that the device, which carries each frame out once, carries a request
out `Retries + 1` times at most; and `ReplyWasExecuted`, with `ReplyIsOwn`,
that an answered request was carried out.  `Ask` maps to `Ask`, the device's
execution of a frame with a request, by a reader's step or without one, to
`CarryOut`, a return with the answer to `Answer`, any other end of an exchange
to `GiveUp`, and the rest to a stutter.

Only model-checked: liveness (`AcceptedIsSettled`, `StopExits`,
`BoundIsReported`, `ScanIsAnswered`, `ExchangesEnd`, `DeafIsNoticed`), which is
out of the prover's reach.  Every invariant and action property the passing
runs check, and both refinements, are theorems.

## Not modelled

Framing, ciphers, JSON and the syntax of names and UUIDs (data, tested by unit
tests); configuration, command line, `inspect`, `discover` and smoke (one-shot
I/O); the supervisor of `driver.py`, which nothing in the repository runs. A
pairing file damaged from outside stops the process at start; a Linker with a
configured device instead of a pairing profile refuses to pair and never
changes it: neither is modelled.  Nor are power and colours in `DpMapping`:
colours go through floating-point HSV, whose roundings integers do not
reproduce, and no document says how near a colour comes back.  The order of two
states of the same light on the wire (a result's and a push queued before it)
is not judged, since no document of the repository says what revisions mean to
the server.

## Plan

1. The lemmas about `ServerClient`'s queue and `LightCommands`' journal stated
   for readers who extend those modules.
2. The supervisor as a small module, should a process come to run it.
