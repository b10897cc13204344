---------------------------- MODULE ServerClient -----------------------------
(***************************************************************************)
(* LinkerServerClient (server_client.py): one process that keeps a         *)
(* WebSocket session with the server.  Three tasks share the driver and    *)
(* the socket: run/_session itself (main), the receiver, which handles one *)
(* server message after the other, and the publisher, which subscribes to  *)
(* the device and polls it.  A fourth, the driver's reader, publishes the  *)
(* states the device pushes, and a scan runs in a thread of its own.       *)
(*                                                                         *)
(* Two asyncio locks order them: the driver lock, taken by pairing, the    *)
(* publisher and the end of a session (commands do not take it), and the   *)
(* send lock, whose queue is the outbox: its head is being sent.  A task    *)
(* waits for one message at a time, behind the tasks that came before it.  *)
(*                                                                         *)
(* Commands and the publisher may both be connecting to the device, and    *)
(* the connection made last replaces the other: its reader is one that no  *)
(* disconnect cancels.                                                     *)
(*                                                                         *)
(* A light stands for its device too: pair and handle_pairing move the     *)
(* driver and the boundary to the new light between two awaits (wait_for   *)
(* awaits its argument in the caller's task since Python 3.12).            *)
(* The server redelivers a command as it was: the light of a cached result *)
(* is the one the command names.                                           *)
(***************************************************************************)
EXTENDS Naturals

CONSTANTS Lights, None

ASSUME NoneIsNeither == None \notin Lights \cup {"receiver", "publisher"}

VARIABLES
    stop,        \* the process was asked to stop
    main,        \* where run and _session are
    ws,          \* the WebSocket: "none", "open" or "closed" by the server
    receiver,    \* where _receive_loop is
    publisher,   \* where _publish_states is
    cancelled,   \* the publisher was cancelled
    driverLock,  \* the task that holds _driver_lock, or None
    outbox,      \* task -> the message it has on _send_lock, and who is ahead
    bound,       \* the light the boundary and the driver are bound to, or None
    connected,   \* the driver has a device connection
    subscribed,  \* the publisher's callback is among the driver's
    current,     \* the reader of the driver's connection (_reader_task)
    stray,       \* the other reader may run, on a connection that was replaced
    told,        \* the light this session last announced to the server
    wire,        \* the last message sent to the server
    scan         \* a thread scans for devices and holds the UDP ports

vars == <<stop, main, ws, receiver, publisher, cancelled, driverLock, outbox,
          bound, connected, subscribed, current, stray, told, wire, scan>>

readers == <<current, stray>>

device == <<bound, connected, subscribed, current, stray>>

session == <<stop, main, ws, cancelled, told, wire, scan>>

-----------------------------------------------------------------------------
Readers == {"reader", "second"}

Tasks == {"main", "receiver", "publisher"} \cup Readers

\* The reader task that is not the driver's.
Other == IF current = "reader" THEN "second" ELSE "reader"

Waiting(kind, light, ahead) == [kind |-> kind, light |-> light, ahead |-> ahead]

NotWaiting == Waiting("none", None, {})

Queued(queue) == {t \in Tasks : queue[t].kind # "none"}

\* Task t joins the queue.
Join(queue, t, kind, light) ==
    [queue EXCEPT ![t] = Waiting(kind, light, Queued(queue) \ {t})]

Queue(t, kind, light) == outbox' = Join(outbox, t, kind, light)

\* A task that is served, ends, or is cancelled leaves the queue.
DropFrom(tasks) ==
    [t \in Tasks |->
        IF t \in tasks THEN NotWaiting
        ELSE Waiting(outbox[t].kind, outbox[t].light, outbox[t].ahead \ tasks)]

Message(kind, light) == [kind |-> kind, light |-> light]

Nothing == Message("none", None)

\* Defect: the connection is forgotten with its socket.
ForgetDevice ==
    /\ connected' = None
    /\ outbox' = DropFrom({current})

\* disconnect cancels its reader, and with it a push it is publishing.
ClosedDevice ==
    /\ connected' = FALSE
    /\ outbox' = DropFrom({current})

\* A failed exchange disconnects, unless it failed in decoding.
MayClose(closes) ==
    IF closes THEN ClosedDevice ELSE UNCHANGED <<connected, outbox>>

\* Retries close and reopen the connection within one exchange.
Exchanged(retried) == IF retried THEN DropFrom({current}) ELSE outbox

\* connect is done.  If there is a connection by now, it is replaced, and its
\* reader goes on.
Connected ==
    /\ connected' = TRUE
    /\ IF connected THEN current' = Other /\ stray' = TRUE
                    ELSE UNCHANGED readers

Init ==
    /\ stop = FALSE
    /\ main = "start"
    /\ ws = "none"
    /\ receiver = "none"
    /\ publisher = "none"
    /\ cancelled = FALSE
    /\ driverLock = None
    /\ outbox = [t \in Tasks |-> NotWaiting]
    /\ bound \in Lights \cup {None}
    /\ connected = FALSE
    /\ subscribed = FALSE
    /\ current = "reader"
    /\ stray = FALSE
    /\ told = None
    /\ wire = Nothing
    /\ scan = FALSE

-----------------------------------------------------------------------------
(* The process: signals, the server's end of the socket, and run.          *)

SignalStop ==
    /\ ~stop
    /\ stop' = TRUE
    /\ UNCHANGED <<scan, main, ws, receiver, publisher, cancelled, driverLock, outbox,
                   device, told, wire>>

ServerCloses ==
    /\ ws = "open"
    /\ ws' = "closed"
    /\ UNCHANGED <<scan, stop, main, receiver, publisher, cancelled, driverLock,
                   outbox, device, told, wire>>

LoopHead ==
    /\ main = "start"
    /\ main' = IF stop THEN "exited" ELSE "connecting"
    /\ UNCHANGED <<scan, stop, ws, receiver, publisher, cancelled, driverLock, outbox,
                   device, told, wire>>

ConnectFails ==
    /\ main = "connecting"
    /\ main' = "backoff"
    /\ UNCHANGED <<scan, stop, ws, receiver, publisher, cancelled, driverLock, outbox,
                   device, told, wire>>

\* The registration names the bound light, if there is one.
Connect ==
    /\ main = "connecting"
    /\ main' = "registering"
    /\ ws' = "open"
    /\ Queue("main", "register", bound)
    /\ told' = None
    /\ wire' = Nothing
    /\ UNCHANGED <<scan, stop, receiver, publisher, cancelled, driverLock, device>>

\* What cancelling the publisher leaves it to do: its finally block still
\* runs, unless it was suspended there.
FinallyOf(where) ==
    CASE where \in {"wantsOpen", "opening", "publishing", "resting",
                    "wantsPoll", "polling"}
           -> IF subscribed THEN "unsubscribing" ELSE "disconnecting"
      [] OTHER -> "done"

\* Defect: the session ends only with its receiver.
EndSessionOnClose ==
    /\ main = "session"
    /\ receiver = "done"
    /\ main' = "gathering"
    /\ publisher' = FinallyOf(publisher)
    /\ cancelled' = TRUE
    /\ driverLock' = None
    /\ outbox' = DropFrom({"receiver", "publisher"})
    /\ UNCHANGED <<scan, stop, ws, receiver, device, told, wire>>

\* _session returns on the receiver's end or on stop, and cancels the rest.
\* A pairing or a negotiation that is cancelled disconnects.  With the driver
\* lock free, unsubscribing suspends nowhere.
EndSession ==
    /\ main = "session"
    /\ receiver = "done" \/ stop
    /\ publisher = "unsubscribing" => driverLock # None
    /\ main' = "gathering"
    /\ receiver' = "done"
    /\ publisher' = FinallyOf(publisher)
    /\ cancelled' = TRUE
    /\ driverLock' = None
    /\ \/ /\ receiver # "pairing"
          /\ outbox' = DropFrom({"receiver", "publisher"})
          /\ UNCHANGED connected
       \/ /\ receiver \in {"pairing", "reaching"} \/ publisher = "opening"
          /\ outbox' = DropFrom({"receiver", "publisher", current})
          /\ connected' = FALSE
    /\ UNCHANGED <<scan, stop, ws, bound, subscribed, readers, told, wire>>

\* Defect: the driver is left connected.
LeaveDriverOpen ==
    /\ main = "gathering"
    /\ publisher = "done"
    /\ main' = "backoff"
    /\ ws' = "closed"
    /\ UNCHANGED <<scan, stop, receiver, publisher, cancelled, driverLock, outbox,
                   device, told, wire>>

\* gather has collected both tasks; disconnect under the driver lock, which
\* nobody holds, and leave the async with block of the socket.
CloseDriver ==
    /\ main = "gathering"
    /\ publisher = "done"
    /\ main' = "backoff"
    /\ ws' = "closed"
    /\ ClosedDevice
    /\ UNCHANGED <<scan, stop, receiver, publisher, cancelled, driverLock, bound,
                   subscribed, readers, told, wire>>

\* _wait_or_stop is FALSE when the delay elapsed, and then run returns; when
\* stop is set the loop ends.  Either way asyncio.run cancels the tasks that
\* are left, a replaced reader, and waits for the thread of a scan.
Backoff ==
    /\ main = "backoff"
    /\ ~scan
    /\ main' = "exited"
    /\ stray' = FALSE
    /\ outbox' = DropFrom({Other})
    /\ UNCHANGED <<scan, stop, ws, receiver, publisher, cancelled, driverLock,
                   bound, connected, subscribed, current, told, wire>>

-----------------------------------------------------------------------------
(* The send lock.                                                          *)

AfterSend(t, kind) ==
    /\ main' = IF t = "main" THEN "session" ELSE main
    /\ receiver' =
         CASE t = "main" -> "reading"
           [] t = "receiver" /\ kind # "applied" -> "reading"
           [] OTHER -> receiver
    /\ publisher' =
         CASE t = "main" -> "check"
           [] t = "publisher" -> "resting"
           [] OTHER -> publisher

\* An applied command is followed by the state it confirmed, in a second send.
FollowUp(t) ==
    IF outbox[t].kind = "applied"
      THEN Join(DropFrom({t}), t, "state", outbox[t].light)
      ELSE DropFrom({t})

Served(t) == outbox[t].kind # "none" /\ outbox[t].ahead = {}

Send(t) ==
    /\ Served(t)
    /\ ws = "open"
    /\ wire' = Message(outbox[t].kind, outbox[t].light)
    /\ told' = IF outbox[t].kind \in {"register", "paired"} THEN outbox[t].light
               ELSE told
    /\ outbox' = FollowUp(t)
    /\ AfterSend(t, outbox[t].kind)
    /\ UNCHANGED <<scan, stop, ws, cancelled, driverLock, device>>

\* A send on a closed socket raises: it ends the session for main and the
\* receiver, is a device failure to the publisher, and the reader logs it.
SendFails(t) ==
    /\ Served(t)
    /\ ws = "closed"
    /\ outbox' = DropFrom({t})
    /\ main' = IF t = "main" THEN "backoff" ELSE main
    /\ receiver' = IF t = "receiver" THEN "done" ELSE receiver
    /\ publisher' = IF t = "publisher" THEN "unsubscribing" ELSE publisher
    /\ UNCHANGED <<scan, stop, ws, cancelled, driverLock, device, told, wire>>

-----------------------------------------------------------------------------
(* The receiver.                                                           *)

Receiving == main = "session" /\ receiver = "reading"

\* The iteration over a closed socket ends, or raises.
ReceiverEnds ==
    /\ Receiving
    /\ ws = "closed"
    /\ receiver' = "done"
    /\ UNCHANGED <<session, publisher, driverLock, outbox, device>>

\* A scan, a pairing or a Light command arrives; anything else is ignored.
Receive(work) ==
    /\ Receiving
    /\ ws = "open"
    /\ receiver' = work
    /\ UNCHANGED <<session, publisher, driverLock, outbox, device>>

\* A malformed request raises ValueError, which is logged.
Reject ==
    /\ \/ receiver \in {"discovering", "commanding"}
       \/ receiver = "wantsPairing" /\ driverLock = None
    /\ receiver' = "reading"
    /\ UNCHANGED <<session, publisher, driverLock, outbox, device>>

\* The messages of one answer to a scan are sent one after the other; they
\* stand as one.
Answer == receiver' = "sending" /\ Queue("receiver", "discovery", None)

\* discover hands the scan to a thread, which binds the ports for as long as
\* it runs.
StartScan ==
    /\ receiver = "discovering"
    /\ ~scan
    /\ scan' = TRUE
    /\ receiver' = "scanning"
    /\ UNCHANGED <<stop, main, ws, cancelled, told, wire, publisher, driverLock,
                   outbox, device>>

\* Discovery is disabled, or the ports are taken: there is no scan.
Discovered ==
    /\ receiver = "discovering"
    /\ Answer
    /\ UNCHANGED <<session, publisher, driverLock, device>>

ScanReturns ==
    /\ receiver = "scanning"
    /\ Answer
    /\ scan' = FALSE
    /\ UNCHANGED <<stop, main, ws, cancelled, told, wire, publisher, driverLock,
                   device>>

\* Defect: a scan that timed out has no answer.
TimesOutSilently ==
    /\ receiver = "scanning"
    /\ receiver' = "reading"
    /\ UNCHANGED <<session, publisher, driverLock, outbox, device>>

\* wait_for stops waiting for the thread, which goes on.
ScanTimesOut ==
    /\ receiver = "scanning"
    /\ Answer
    /\ UNCHANGED <<session, publisher, driverLock, device>>

\* Nobody waits for the thread any more.
ScanEnds ==
    /\ scan
    /\ receiver # "scanning"
    /\ scan' = FALSE
    /\ UNCHANGED <<stop, main, ws, cancelled, told, wire, receiver, publisher,
                   driverLock, outbox, device>>

\* Commands take no driver lock.  The exchange of a bound Linker's command
\* connects first when there is no connection.
Reach ==
    /\ receiver = "commanding"
    /\ bound # None
    /\ ~connected
    /\ receiver' = "reaching"
    /\ UNCHANGED <<session, publisher, driverLock, outbox, device>>

Reached ==
    /\ receiver = "reaching"
    /\ receiver' = "commanding"
    /\ Connected
    /\ UNCHANGED <<session, publisher, driverLock, outbox, bound, subscribed>>

\* An attempt that fails closes the connection, whoever opened it.
AttemptFails ==
    /\ receiver \in {"commanding", "reaching"}
    /\ bound # None
    /\ receiver' = "commanding"
    /\ ClosedDevice
    /\ UNCHANGED <<session, publisher, driverLock, bound, subscribed, readers>>

\* An applied command may be a repeat, which did not reach the driver.
CommandAnswered(kind) ==
    /\ receiver = "commanding"
    /\ bound = None => kind = "result"
    /\ receiver' = "sending"
    /\ Queue("receiver", kind, bound)
    /\ UNCHANGED <<session, publisher, driverLock, device>>

\* No profile, or no such candidate in the last scan: nothing is dropped.
RefusePairing ==
    /\ receiver = "wantsPairing"
    /\ driverLock = None
    /\ receiver' = "sending"
    /\ Queue("receiver", "pairing_failed", None)
    /\ UNCHANGED <<session, publisher, driverLock, device>>

\* Defect: the boundary moves when pairing starts, not when it is verified.
PairBeforeVerified ==
    /\ receiver = "wantsPairing"
    /\ driverLock = None
    /\ driverLock' = "receiver"
    /\ receiver' = "pairing"
    /\ bound' \in Lights
    /\ ClosedDevice
    /\ UNCHANGED <<session, publisher, subscribed, readers>>

\* pair first drops the connection to the device it is about to leave.
StartPairing ==
    /\ receiver = "wantsPairing"
    /\ driverLock = None
    /\ driverLock' = "receiver"
    /\ receiver' = "pairing"
    /\ ClosedDevice
    /\ UNCHANGED <<session, publisher, bound, subscribed, readers>>

\* From the verified poll to the wait for the send lock there is no await.
Paired(l) ==
    /\ receiver = "pairing"
    /\ bound' = l
    /\ connected' = TRUE
    /\ driverLock' = None
    /\ receiver' = "sending"
    /\ Queue("receiver", "paired", l)
    /\ UNCHANGED <<session, publisher, subscribed, readers>>

\* The previous binding is back, with no connection; or pair raised after its
\* try block, and the driver is connected to a device that is no light here.
PairingFails ==
    /\ receiver = "pairing"
    /\ connected' \in BOOLEAN
    /\ driverLock' = None
    /\ receiver' = "sending"
    /\ Queue("receiver", "pairing_failed", None)
    /\ UNCHANGED <<session, publisher, bound, subscribed, readers>>

-----------------------------------------------------------------------------
(* The publisher and the driver's reader.                                  *)

\* control_enabled is looked at every 0.25 seconds until a light is bound.
Check ==
    /\ publisher = "check"
    /\ publisher' = IF bound = None THEN "napping" ELSE "wantsOpen"
    /\ UNCHANGED <<session, receiver, driverLock, outbox, device>>

\* Defect: the nap lasts as long as the session.
NapWithSession ==
    /\ publisher = "napping"
    /\ main # "session"
    /\ publisher' = "check"
    /\ UNCHANGED <<session, receiver, driverLock, outbox, device>>

NapOver ==
    /\ publisher = "napping"
    /\ publisher' = "check"
    /\ UNCHANGED <<session, receiver, driverLock, outbox, device>>

\* Defect: the publisher uses the driver without its lock.
AcquireNothing(from, to) ==
    /\ publisher = from
    /\ publisher' = to
    /\ UNCHANGED <<session, receiver, driverLock, outbox, device>>

Acquire(from, to) ==
    /\ publisher = from
    /\ driverLock = None
    /\ driverLock' = "publisher"
    /\ publisher' = to
    /\ UNCHANGED <<session, receiver, outbox, device>>

Open == Acquire("wantsOpen", "opening")

Poll == Acquire("wantsPoll", "polling")

\* connect and subscribe_state; the first poll is under the same lock.  connect
\* returns at once if there was a connection when it was called, or the socket
\* of one a command is still negotiating.
Opened(made) ==
    /\ publisher = "opening"
    /\ publisher' = "polling"
    /\ subscribed' = TRUE
    /\ IF made THEN Connected
               ELSE /\ connected \/ receiver = "reaching"
                    /\ UNCHANGED <<connected, readers>>
    /\ UNCHANGED <<session, receiver, driverLock, outbox, bound>>

OpenFails(closes) ==
    /\ publisher = "opening"
    /\ publisher' = "disconnecting"
    /\ driverLock' = None
    /\ MayClose(closes)
    /\ UNCHANGED <<session, receiver, bound, subscribed, readers>>

IntervalOver ==
    /\ publisher = "resting"
    /\ publisher' = "wantsPoll"
    /\ UNCHANGED <<session, receiver, driverLock, outbox, device>>

\* A polled state is queued in the step that releases the driver lock.  The
\* driver's own lock keeps a poll from connecting while a command does.
Polled(retried) ==
    /\ publisher = "polling"
    /\ receiver # "reaching"
    /\ publisher' = "publishing"
    /\ driverLock' = None
    /\ connected' = TRUE
    /\ outbox' = Join(Exchanged(retried), "publisher", "state", bound)
    /\ UNCHANGED <<session, receiver, bound, subscribed, readers>>

PollFails(closes) ==
    /\ publisher = "polling"
    /\ receiver # "reaching"
    /\ publisher' = "unsubscribing"
    /\ driverLock' = None
    /\ MayClose(closes)
    /\ UNCHANGED <<session, receiver, bound, subscribed, readers>>

\* The finally block, each half under the driver lock.
Unsubscribe ==
    /\ publisher = "unsubscribing"
    /\ driverLock = None
    /\ subscribed' = FALSE
    /\ publisher' = "disconnecting"
    /\ UNCHANGED <<session, receiver, driverLock, outbox, bound, connected, readers>>

Disconnect ==
    /\ publisher = "disconnecting"
    /\ driverLock = None
    /\ ClosedDevice
    /\ publisher' = IF cancelled THEN "done" ELSE "pausing"
    /\ UNCHANGED <<session, receiver, driverLock, bound, subscribed, readers>>

\* _wait_or_stop is FALSE when the delay elapsed, and the publisher returns.
PauseOver ==
    /\ publisher = "pausing"
    /\ publisher' = "done"
    /\ UNCHANGED <<session, receiver, driverLock, outbox, device>>

\* A reader publishes a status push under the boundary's light, and reads no
\* further until it is sent.  The callbacks know nothing of connections.
PushFrom(t) ==
    /\ subscribed
    /\ t \notin Queued(outbox)
    /\ Queue(t, "state", bound)
    /\ UNCHANGED <<session, receiver, publisher, driverLock, device>>

Push == connected /\ PushFrom(current)

\* The reader of a replaced connection ends when the device closes that, or when
\* it goes on to the driver's next connection and finds none, or another task
\* waiting on it: at any time, it may have pushed for the last time.
StrayPush == stray /\ PushFrom(Other)

-----------------------------------------------------------------------------
Main == LoopHead \/ ConnectFails \/ Connect \/ EndSession \/ CloseDriver \/ Backoff

Receiver ==
    \/ ReceiverEnds \/ Reject
    \/ StartScan \/ Discovered \/ ScanReturns \/ ScanTimesOut
    \/ RefusePairing \/ StartPairing \/ PairingFails
    \/ \E l \in Lights : Paired(l)
    \/ Reach \/ Reached \/ AttemptFails
    \/ \E kind \in {"applied", "result"} : CommandAnswered(kind)

Publisher ==
    \/ Check \/ NapOver \/ Open \/ IntervalOver \/ Poll
    \/ Unsubscribe \/ Disconnect \/ PauseOver
    \/ \E b \in BOOLEAN : Opened(b) \/ OpenFails(b) \/ Polled(b) \/ PollFails(b)

Next ==
    \/ SignalStop
    \/ ServerCloses
    \/ Main
    \/ \E t \in Tasks : Send(t) \/ SendFails(t)
    \/ \E work \in {"discovering", "wantsPairing", "commanding"} : Receive(work)
    \/ Receiver
    \/ Publisher
    \/ Push \/ StrayPush
    \/ ScanEnds

Spec == Init /\ [][Next]_vars

\* Every wait is bounded by a timeout (open_timeout, the keepalive, the
\* driver's timeouts and retries, a scan's deadline, the naps), and asyncio
\* locks are served first come first served, so that the publisher gets the
\* driver lock, and between two commands the driver's own lock, that it keeps
\* asking for.  Nothing is assumed of the server, the signals, the pushes and
\* a replaced reader.
FairSpec ==
    /\ Spec
    /\ WF_vars(Main)
    /\ WF_vars(\E t \in Tasks : Send(t) \/ SendFails(t))
    /\ WF_vars(Receiver)
    /\ SF_vars(Publisher)
    /\ WF_vars(ScanEnds)

-----------------------------------------------------------------------------
(* Properties.                                                             *)

Kinds ==
    {"none", "register", "discovery", "applied", "result", "paired",
     "pairing_failed", "state"}

Queues ==
    [Tasks -> [kind : Kinds, light : Lights \cup {None}, ahead : SUBSET Tasks]]

TypeOK ==
    /\ stop \in BOOLEAN
    /\ main \in {"start", "connecting", "registering", "session", "gathering",
                 "backoff", "exited"}
    /\ ws \in {"none", "open", "closed"}
    /\ receiver \in {"none", "reading", "discovering", "scanning", "commanding",
                     "reaching", "wantsPairing", "pairing", "sending", "done"}
    /\ publisher \in {"none", "check", "napping", "wantsOpen", "opening",
                      "publishing", "resting", "wantsPoll", "polling",
                      "unsubscribing", "disconnecting", "pausing", "done"}
    /\ cancelled \in BOOLEAN
    /\ driverLock \in {None, "receiver", "publisher"}
    /\ outbox \in Queues
    /\ bound \in Lights \cup {None}
    /\ connected \in BOOLEAN
    /\ subscribed \in BOOLEAN
    /\ current \in Readers
    /\ stray \in BOOLEAN
    /\ told \in Lights \cup {None}
    /\ wire \in [kind : Kinds, light : Lights \cup {None}]
    /\ scan \in BOOLEAN

\* As long as the session lasts, a state on the wire names the light it last
\* announced, in link.register or pairing.completed, whichever of four tasks
\* sent it and however pairing, polling, pushes and sends interleave.  (When
\* stop cancels the reply to a pairing, the reader may still publish once.)
ReportedWasAnnounced ==
    main = "session" /\ wire.kind = "state" => wire.light = told

\* Pairing moves the driver to another device while nobody else drives it
\* from the publisher's side (_driver_lock).
PairingIsAlone ==
    receiver = "pairing" => publisher \notin {"opening", "polling"}

\* What a session leaves (_session's finally block): no task of its own, no
\* lock and no connection that the driver holds.  Only the reader of a
\* connection that an overlapping connect replaced outlives it, with the one
\* state it may still be sending, and it does not outlive the process.
SessionLeavesNothing ==
    /\ main \in {"backoff", "exited"} =>
          /\ receiver \in {"none", "done"}
          /\ publisher \in {"none", "done"}
          /\ driverLock = None
          /\ ~connected
          /\ Queued(outbox) \subseteq Readers \ {current}
    /\ main = "exited" => ~stray /\ Queued(outbox) = {}

\* A process asked to stop exits, whatever its tasks wait for.
StopExits == stop ~> main = "exited"

\* ADR-0001: the boundary "always emits a correlated discovery.completed": the
\* server gets an answer to every scan, the one whose thread outlives the wait
\* for it too, unless the session ends first.
ScanIsAnswered ==
    receiver = "scanning" ~>
        \/ wire.kind = "discovery"
        \/ ws = "closed"
        \/ main # "session"

\* While a session lasts, a bound light's state is reported, unless the
\* device or the socket fails first: the publisher never waits forever, for
\* the driver lock or for a binding it did not see.
BoundIsReported ==
    \A l \in Lights :
        main = "session" /\ bound = l ~>
            \/ wire.kind = "state" /\ wire.light = l
            \/ bound # l
            \/ main # "session"
            \/ publisher \in {"unsubscribing", "disconnecting", "pausing", "done"}

\* ADR-0001 lists "reconnect with bounded exponential backoff" among what
\* the boundary owns: run ends only when it is asked to.
RunsUntilStopped == main = "exited" => stop

\* After a device failure _publish_states logs "reconnecting": the publisher
\* ends only with its session.
PublishesUntilSessionEnds == main = "session" => publisher # "done"

\* ADR-0001: "A cancelled scan is cancelled with the WebSocket session".
ScanEndsWithSession == main \in {"backoff", "exited"} => ~scan

-----------------------------------------------------------------------------
(* The inductive invariant.                                                *)

\* Who holds the driver lock, and who has the driver to itself.
LockIsHeld ==
    /\ receiver = "pairing" => driverLock = "receiver" /\ ~connected
    /\ publisher \in {"opening", "polling"} => driverLock = "publisher"

\* A task in the queue is behind others in the queue, and of two tasks one is
\* ahead of the other.
Ordered(queue) ==
    /\ \A t \in Tasks : queue[t].ahead \subseteq Queued(queue) \ {t}
    /\ \A t \in Tasks : t \notin Queued(queue) => queue[t] = NotWaiting
    /\ \A t, u \in Queued(queue) :
          t = u \/ t \in queue[u].ahead \/ u \in queue[t].ahead

\* What each task sends.
TasksSendTheirOwn ==
    /\ outbox["main"].kind \in {"none", "register"}
    /\ outbox["receiver"].kind # "register"
    /\ outbox["publisher"].kind \in {"none", "state"}
    /\ \A t \in Readers :
          /\ outbox[t].kind \in {"none", "state"}
          /\ outbox[t].kind # "none" => IF t = current THEN connected ELSE stray

\* Before the session there is nothing; a registration is alone.
BeforeSession ==
    /\ main \in {"start", "connecting", "registering"} =>
          /\ receiver = "none" /\ publisher = "none"
          /\ ~cancelled
          /\ driverLock = None
          /\ ~connected /\ ~stray
          /\ Queued(outbox) \subseteq {"main"}
    /\ main \in {"start", "connecting"} => Queued(outbox) = {}
    /\ main = "registering" => outbox["main"].light = bound

\* In the session a task is in the queue when its program counter says so.
InSession ==
    main = "session" =>
        /\ receiver # "none" /\ publisher # "none"
        /\ ~cancelled
        /\ outbox["main"].kind = "none"
        /\ (outbox["receiver"].kind # "none") <=> (receiver = "sending")
        /\ (outbox["publisher"].kind # "none") <=> (publisher = "publishing")

\* After it the publisher finishes alone.
AfterSession ==
    main = "gathering" =>
        /\ receiver = "done"
        /\ publisher \in {"unsubscribing", "disconnecting", "done"}
        /\ cancelled
        /\ driverLock = None
        /\ Queued(outbox) \subseteq Readers

\* The light the server will have been told of when t is served.
ToldBefore(t) ==
    IF outbox["receiver"].kind = "paired" /\ "receiver" \in outbox[t].ahead
      THEN outbox["receiver"].light ELSE told

\* The binding is the light last announced or about to be, and a state in the
\* queue names the light that will have been announced before it, as long as
\* anything can be sent.
LightsAreAnnounced ==
    main = "session" /\ ws = "open" =>
        /\ bound = IF outbox["receiver"].kind = "paired"
                     THEN outbox["receiver"].light ELSE told
        /\ \A t \in Tasks :
              outbox[t].kind \in {"state", "applied"} =>
                  outbox[t].light = ToldBefore(t)

IInv ==
    /\ TypeOK
    /\ LockIsHeld
    /\ Ordered(outbox)
    /\ TasksSendTheirOwn
    /\ BeforeSession
    /\ InSession
    /\ AfterSession
    /\ SessionLeavesNothing
    /\ LightsAreAnnounced
    /\ ReportedWasAnnounced
=============================================================================
