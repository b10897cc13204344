---------------------------- MODULE TuyaConnection ----------------------------
(***************************************************************************)
(* TuyaLocalDriver's connection to the lamp (tuya.py) during one session:  *)
(* connect, disconnect, _exchange, _negotiate_session, _reader_loop and    *)
(* the part of _handle_status that can stop the reader.                    *)
(*                                                                         *)
(* The receiver's commands and the publisher's polls are exchanges, one at *)
(* a time under _send_lock.  Nothing but the driver lock, which commands   *)
(* do not take, keeps the publisher's own connect and disconnect away from *)
(* an exchange, and each connection has a reader task of its own.          *)
(*                                                                         *)
(* A connection is numbered as it is opened, a frame as its sequence       *)
(* number is drawn; the code knows frame n as n modulo Width (2^32).  0 is *)
(* no connection, no frame and no request.                                 *)
(***************************************************************************)
EXTENDS Naturals, Sequences, FiniteSets

CONSTANTS
    Width,         \* sequence numbers are 0..Width - 1
    Retries,       \* retries of an exchange
    MaxRequests,   \* bound of the model: exchanges asked in a session
    MaxConns,      \* bound of the model: connections opened in a session
    Protocols      \* protocol versions the device may speak

ASSUME Parameters ==
    /\ Width \in Nat /\ Width > 2
    /\ Retries \in Nat
    /\ MaxRequests \in Nat
    /\ MaxConns \in Nat
    /\ Protocols \subseteq {"3.3", "3.4"}

Callers == {"receiver", "publisher"}

Tasks == Callers \cup {"main"}

Requests == 1..MaxRequests

Conns == 1..MaxConns

Sequences == 0..(Width - 1)

VARIABLES
    protocol,    \* the version the device speaks
    conn,        \* _reader and _writer: the current connection
    key,         \* _session_key: the connection it was negotiated on
    readerTask,  \* _reader_task: the connection whose connect made it
    pending,     \* _pending: sequence number -> frame
    sent,        \* frame -> the request it carries, 0 in a negotiation
    lock,        \* who holds _send_lock; the other caller may wait for it
    request,     \* task -> the request it asked
    attempt,     \* retries used by the exchange under way
    current,     \* its frame, and the future of that frame
    pc,          \* where each task is
    call,        \* what it is there for
    shake,       \* a negotiating task: the connection it opened, and reads
    reader,      \* connection -> where the reader task made for it is
    stream,      \* connection -> the connection that reader task reads
    link,        \* connection -> its socket
    unanswered,  \* connection -> frames whose answer has not been read
    executed,    \* frames the device carried out
    outcome,     \* request -> what became of it
    life,        \* the publisher: "new", "up", "failing" or "over"
    session,     \* "open", "ending" or "over"
    toCancel,    \* callers cancelled and not yet resumed
    replaced     \* an open connection was replaced by another connect

device == <<link, unanswered, executed>>
readers == <<reader, stream>>
exchange == <<lock, request, attempt, outcome>>
phase == <<life, session>>

vars == <<protocol, conn, key, readerTask, pending, sent, current, pc, call,
          shake, replaced, device, readers, exchange, phase, toCancel>>

NoFrame == [frame |-> 0, reply |-> 0, broken |-> FALSE]

Nobody == [s \in Sequences |-> 0]

Init ==
    /\ protocol \in Protocols
    /\ conn = 0 /\ key = 0 /\ readerTask = 0
    /\ pending = Nobody
    /\ sent = <<>>
    /\ lock = "nobody"
    /\ request = [t \in Tasks |-> 0]
    /\ attempt = 0
    /\ current = NoFrame
    /\ pc = [t \in Tasks |-> "idle"]
    /\ call = [t \in Tasks |-> "none"]
    /\ shake = [t \in Callers |-> 0]
    /\ reader = [c \in Conns |-> "none"]
    /\ stream = [c \in Conns |-> 0]
    /\ link = [c \in Conns |-> "unused"]
    /\ unanswered = [c \in Conns |-> {}]
    /\ executed = {}
    /\ outcome = [x \in Requests |-> "none"]
    /\ life = "new"
    /\ session = "open"
    /\ toCancel = {}
    /\ replaced = FALSE

-----------------------------------------------------------------------------
(* Requests, and what ends them.                                           *)

\* A writer that is set and not closing.
Usable == conn # 0 /\ link[conn] # "lost"

\* The future of the current frame when every pending one is failed.
Failed(now, waiting) ==
    IF now.frame # 0 /\ waiting[now.frame % Width] = now.frame
      THEN [now EXCEPT !.broken = TRUE]
      ELSE now

\* _exchange from the sequence number to the wait, on connection c.  What was
\* sent and is not answered before it includes the negotiation, if any.  The
\* device understands a 3.4 frame made with the key of its connection.
SendRequest(t, c, before, left) ==
    LET n == Len(before) + 1
    IN  /\ sent' = Append(before, request[t])
        /\ pending' = [pending EXCEPT ![n % Width] = n]
        /\ current' = [NoFrame EXCEPT !.frame = n]
        /\ pc' = [pc EXCEPT ![t] = "waiting"]
        /\ unanswered' =
             IF link'[c] = "up" /\ (protocol = "3.3" \/ key' = c)
               THEN [left EXCEPT ![c] = @ \cup {n}]
               ELSE left
        /\ UNCHANGED <<call, life>>

Without(c, n) == [unanswered EXCEPT ![c] = @ \ {n}]

\* Defect: the lock is not released.
LockKept(t) == {lock}

\* Who has the lock when t leaves it.
LockAfter(t) ==
    LET waiters == {u \in Callers \ {t} : pc[u] = "queued"}
    IN  IF lock # t THEN {lock} ELSE IF waiters = {} THEN {"nobody"} ELSE waiters

\* Task t returns from what it did for k.  An exchange leaves the lock with
\* its answer; any failure is one of the device to the publisher, whose
\* disconnect is its last act, and main's is that of the session.
Over(t, k, answer) ==
    /\ pc' = [pc EXCEPT ![t] = "idle"]
    /\ call' = [call EXCEPT ![t] = "none"]
    /\ IF request[t] # 0
         THEN /\ lock' \in LockAfter(t)
              /\ outcome' = [outcome EXCEPT ![request[t]] = answer]
              /\ request' = [request EXCEPT ![t] = 0]
              /\ attempt' = IF lock = t THEN 0 ELSE attempt
         ELSE UNCHANGED exchange
    /\ life' = IF t # "publisher" \/ answer = "answered" THEN life
               ELSE IF k = "disconnect" THEN "over" ELSE "failing"
    /\ session' = IF t = "main" THEN "over" ELSE session

\* Defect: one retry too many.
LeaveLater(t, k) ==
    IF k \in {"exchange", "negotiation"} /\ attempt <= Retries
      THEN /\ pc' = [pc EXCEPT ![t] = "sleeping"]
           /\ call' = [call EXCEPT ![t] = "exchange"]
           /\ attempt' = attempt + 1
           /\ UNCHANGED <<lock, request, outcome, phase>>
      ELSE Over(t, k, "failed")

\* What follows a disconnect made for k: the next attempt, or the end.
Leave(t, k) ==
    IF k \in {"exchange", "negotiation"} /\ attempt < Retries
      THEN /\ pc' = [pc EXCEPT ![t] = "sleeping"]
           /\ call' = [call EXCEPT ![t] = "exchange"]
           /\ attempt' = attempt + 1
           /\ UNCHANGED <<lock, request, outcome, phase>>
      ELSE Over(t, k, "failed")

\* Defect: the writer is dropped without being closed.
DropWriter(t, k, now, waiting) ==
    /\ conn' = 0
    /\ key' = 0
    /\ current' = Failed(now, waiting)
    /\ pending' = Nobody
    /\ Leave(t, k)
    /\ UNCHANGED link

\* Defect: the pending requests are failed, but kept.
CloseKeepingPending(t, k, now, waiting) ==
    /\ conn' = 0
    /\ key' = 0
    /\ current' = Failed(now, waiting)
    /\ pending' = waiting
    /\ IF conn # 0
         THEN /\ link' = [link EXCEPT ![conn] = "closed"]
              /\ pc' = [pc EXCEPT ![t] = "closing"]
              /\ call' = [call EXCEPT ![t] = k]
              /\ UNCHANGED <<exchange, phase>>
         ELSE Leave(t, k) /\ UNCHANGED link

\* disconnect after the reader: every pending request fails.
Close(t, k, now, waiting) ==
    /\ conn' = 0
    /\ key' = 0
    /\ current' = Failed(now, waiting)
    /\ pending' = Nobody
    /\ IF conn # 0
         THEN /\ link' = [link EXCEPT ![conn] = "closed"]
              /\ pc' = [pc EXCEPT ![t] = "closing"]
              /\ call' = [call EXCEPT ![t] = k]
              /\ UNCHANGED <<exchange, phase>>
         ELSE Leave(t, k) /\ UNCHANGED link

\* The reader task made for connection r ends.
Stops(r) ==
    /\ reader' = [reader EXCEPT ![r] = "done"]
    /\ stream' = [stream EXCEPT ![r] = 0]

\* disconnect: the reader is cancelled and awaited first.
Disconnect(t, k, now, waiting) ==
    /\ IF readerTask = 0
         THEN Close(t, k, now, waiting) /\ UNCHANGED <<readerTask, readers>>
         ELSE /\ readerTask' = 0
              /\ Stops(readerTask)
              /\ pc' = [pc EXCEPT ![t] = "gathering"]
              /\ call' = [call EXCEPT ![t] = k]
              /\ current' = now
              /\ pending' = waiting
              /\ UNCHANGED <<conn, key, link, exchange, phase>>
    /\ UNCHANGED <<protocol, sent, replaced>>

\* Defect: the connection of a request that failed is kept.
RetryOnSameConnection(t) ==
    /\ Leave(t, "exchange")
    /\ current' = NoFrame
    /\ pending' = Nobody
    /\ UNCHANGED <<protocol, conn, key, readerTask, sent, shake, replaced, device,
                   readers>>

\* The except clause of _exchange.
Fail(t) ==
    /\ Disconnect(t, "exchange", NoFrame,
                  IF current.frame = 0 THEN pending
                  ELSE [pending EXCEPT ![current.frame % Width] = 0])
    /\ UNCHANGED <<shake, unanswered, executed>>

-----------------------------------------------------------------------------
(* The tasks.                                                              *)

Running(t) == t \notin toCancel

At(t, where) == Running(t) /\ pc[t] = where

\* Requests and connections are numbered in their order.
NextRequest(x) == outcome[x] = "none" /\ \A y \in 1..(x - 1) : outcome[y] # "none"

NextConn(c) == link[c] = "unused" /\ \A d \in 1..(c - 1) : link[d] # "unused"

\* A command's write or poll, or the publisher's poll, joins _send_lock.
Ask(t) ==
    /\ session = "open"
    /\ At(t, "idle")
    /\ t = "publisher" => life = "up"
    /\ pc' = [pc EXCEPT ![t] = "queued"]
    /\ call' = [call EXCEPT ![t] = "exchange"]
    /\ lock' = IF lock = "nobody" THEN t ELSE lock
    /\ \E x \in Requests :
          /\ NextRequest(x)
          /\ request' = [request EXCEPT ![t] = x]
          /\ outcome' = [outcome EXCEPT ![x] = "asked"]
    /\ UNCHANGED <<protocol, conn, key, readerTask, pending, sent, current, shake,
                   replaced, device, readers, attempt, phase>>

\* An attempt begins, with connect if there is no connection.
Attempt(t) ==
    /\ At(t, "queued") \/ At(t, "sleeping")
    /\ lock = t
    /\ IF Usable
         THEN UNCHANGED <<link, key>> /\ SendRequest(t, conn, sent, unanswered)
         ELSE /\ pc' = [pc EXCEPT ![t] = "opening"]
              /\ UNCHANGED <<sent, pending, current, unanswered, call, life, link, key>>
    /\ UNCHANGED <<protocol, conn, readerTask, shake, replaced, executed,
                   readers, exchange, session>>

\* The publisher's own connect, under the driver lock.
Connect ==
    /\ session = "open"
    /\ At("publisher", "idle")
    /\ life = "new"
    /\ IF Usable
         THEN life' = "up" /\ UNCHANGED <<pc, call>>
         ELSE /\ pc' = [pc EXCEPT !["publisher"] = "opening"]
              /\ call' = [call EXCEPT !["publisher"] = "connect"]
              /\ UNCHANGED life
    /\ UNCHANGED <<protocol, conn, key, readerTask, pending, sent, current, shake,
                   replaced, device, readers, exchange, session>>

\* The rest of connect and of what it was called for.
Connected(t, c, before, left) ==
    IF call[t] = "exchange"
      THEN SendRequest(t, c, before, left)
      ELSE /\ pc' = [pc EXCEPT ![t] = "idle"]
           /\ call' = [call EXCEPT ![t] = "none"]
           /\ life' = "up"
           /\ sent' = before
           /\ unanswered' = left
           /\ UNCHANGED <<pending, current>>

\* Reader r waits for the next frame of the current connection, or is between
\* two frames: it has not looked _reader up again.
Reads(r) ==
    /\ reader' = [reader EXCEPT ![r] = "reading"]
    /\ stream' = [stream EXCEPT ![r] = conn']

Between(r) ==
    /\ reader' = [reader EXCEPT ![r] = "between"]
    /\ stream' = [stream EXCEPT ![r] = 0]

\* open_connection returned.  Version 3.4 negotiates before it makes the
\* reader task; the new connection is there for everyone meanwhile.
Opened(t, c) ==
    /\ At(t, "opening")
    /\ NextConn(c)
    /\ conn' = c
    /\ key' = 0
    /\ link' = [link EXCEPT ![c] = "up"]
    /\ replaced' = (replaced \/ Usable)
    /\ IF protocol = "3.4"
         THEN /\ pc' = [pc EXCEPT ![t] = "shaking"]
              /\ shake' = [shake EXCEPT ![t] = c]
              /\ sent' = Append(sent, 0)
              /\ unanswered' = [unanswered EXCEPT ![c] = {Len(sent) + 1}]
              /\ UNCHANGED <<readerTask, readers, pending, current, call, life>>
         ELSE /\ readerTask' = c
              /\ Reads(c)
              /\ Connected(t, c, sent, unanswered)
              /\ UNCHANGED shake
    /\ UNCHANGED <<protocol, executed, exchange, session>>

OpenFails(t) ==
    /\ At(t, "opening")
    /\ IF call[t] = "exchange"
         THEN Fail(t)
         ELSE /\ Over(t, call[t], "failed")
              /\ UNCHANGED <<protocol, conn, key, readerTask, pending, sent, current,
                             shake, replaced, device, readers>>

-----------------------------------------------------------------------------
(* The negotiation of version 3.4, which reads the stream itself.          *)

\* connect disconnects and raises.  In an exchange that leads to a second
\* disconnect and a retry, unless connect was cancelled.
Abandon(t, retry) ==
    /\ shake' = [shake EXCEPT ![t] = 0]
    /\ Disconnect(t, IF call[t] = "connect" THEN "connect"
                     ELSE IF retry THEN "negotiation" ELSE "escape",
                  current, pending)

\* Somebody waits for the next frame on connection c.
Awaited(c) ==
    \/ \E r \in Conns : stream[r] = c
    \/ \E t \in Callers : pc[t] = "shaking" /\ shake[t] = c

\* The response is verified; the finish goes to the current connection.  (The
\* device sends nothing before its response, and nothing else until it has a
\* key: _read_frame_until has no other frame to drop.)
Shaken(t, n) ==
    LET c == shake[t]
    IN  /\ At(t, "shaking")
        /\ n \in unanswered[c]
        /\ sent[n] = 0
        /\ IF Usable
             THEN /\ key' = c
                  /\ readerTask' = c
                  /\ UNCHANGED <<conn, link>>
                  /\ IF conn = c THEN Reads(c) ELSE Between(c)
                  /\ Connected(t, conn, Append(sent, 0), Without(c, n))
                  /\ shake' = [shake EXCEPT ![t] = 0]
                  /\ UNCHANGED <<protocol, replaced, exchange, session>>
             ELSE Abandon(t, TRUE) /\ unanswered' = Without(c, n)
        /\ UNCHANGED executed

\* No response in time, one that fails verification, or the end of the stream.
ShakeFails(t) ==
    /\ At(t, "shaking")
    /\ Abandon(t, TRUE)
    /\ UNCHANGED <<unanswered, executed>>

-----------------------------------------------------------------------------
(* The end of an attempt.                                                  *)

\* Defect: sending is taken for an answer.
AnsweredUnheard(t) ==
    /\ At(t, "waiting")
    /\ Over(t, "exchange", "answered")
    /\ current' = NoFrame
    /\ UNCHANGED <<protocol, conn, key, readerTask, pending, sent, shake, replaced,
                   device, readers>>

Answered(t) ==
    /\ At(t, "waiting")
    /\ current.reply # 0
    /\ Over(t, "exchange", "answered")
    /\ current' = NoFrame
    /\ UNCHANGED <<protocol, conn, key, readerTask, pending, sent, shake, replaced,
                   device, readers>>

\* An error of decoding that is not one of the connection escapes.
Escapes(t) ==
    /\ At(t, "waiting")
    /\ current.reply # 0
    /\ Over(t, "exchange", "failed")
    /\ current' = NoFrame
    /\ UNCHANGED <<protocol, conn, key, readerTask, pending, sent, shake, replaced,
                   device, readers>>

\* Defect: an attempt fails when it is told so, and never by a timeout.
FailsWhenTold(t) == At(t, "waiting") /\ current.broken /\ Fail(t)

\* A timeout, a failed future or a reply that cannot be decoded.
AttemptFails(t) == At(t, "waiting") /\ Fail(t)

\* The cancelled reader is gone.
Gathered(t) ==
    /\ At(t, "gathering")
    /\ Close(t, call[t], current, pending)
    /\ UNCHANGED <<protocol, readerTask, sent, shake, replaced, unanswered,
                   executed, readers>>

\* wait_closed returned.
Closed(t) ==
    /\ At(t, "closing")
    /\ IF call[t] = "negotiation"
         THEN Disconnect(t, "exchange", current, pending) /\ UNCHANGED <<shake, unanswered, executed>>
         ELSE /\ Leave(t, call[t])
              /\ UNCHANGED <<protocol, conn, key, readerTask, pending, sent, current,
                             shake, replaced, device, readers>>

\* wait_closed raised: that ends an exchange, whatever retries it has left.
ClosingRaises(t) ==
    /\ At(t, "closing")
    /\ call[t] # "negotiation"
    /\ Over(t, call[t], "failed")
    /\ UNCHANGED <<protocol, conn, key, readerTask, pending, sent, current, shake,
                   replaced, device, readers>>

-----------------------------------------------------------------------------
(* The end of the publisher and of the session.                            *)

CallDisconnect(t) ==
    /\ Disconnect(t, "disconnect", current, pending)
    /\ UNCHANGED <<shake, unanswered, executed>>

\* The publisher's finally block; after it the publisher returns.
PublisherLeaves ==
    /\ At("publisher", "idle")
    /\ life \in {"up", "failing"}
    /\ CallDisconnect("publisher")

\* _session cancels both tasks: at a stop, or when the socket is closed.
EndSession ==
    /\ session = "open"
    /\ session' = "ending"
    /\ toCancel' = Callers
    /\ UNCHANGED <<protocol, conn, key, readerTask, pending, sent, current, pc, call,
                   shake, replaced, device, readers, exchange, life>>

\* The task is resumed with CancelledError.  It leaves its frame pending, and
\* a disconnect unfinished; only connect cleans up after itself.
Cancelled(t) ==
    /\ t \in toCancel
    /\ toCancel' = toCancel \ {t}
    /\ CASE pc[t] = "idle" ->
              UNCHANGED <<protocol, conn, key, readerTask, pending, sent, current, pc,
                          call, shake, replaced, device, readers, exchange, phase>>
         [] pc[t] = "shaking" -> Abandon(t, FALSE) /\ UNCHANGED <<unanswered, executed>>
         [] OTHER ->
              /\ Over(t, call[t], "failed")
              /\ current' = IF pc[t] = "waiting" THEN NoFrame ELSE current
              /\ UNCHANGED <<protocol, conn, key, readerTask, pending, sent, shake,
                             replaced, device, readers>>

\* The rest of _session's finally block, once both tasks are gathered.
MainDisconnects ==
    /\ session = "ending"
    /\ toCancel = {}
    /\ \A t \in Tasks : pc[t] = "idle"
    /\ life \in {"new", "over"}
    /\ CallDisconnect("main")

-----------------------------------------------------------------------------
(* The reader tasks.                                                       *)

\* A reader that dies fails every pending request, and leaves the writer.
Dies(r) ==
    /\ Stops(r)
    /\ pending' = Nobody
    /\ current' = Failed(current, pending)

\* The head of the loop looks _reader up.  Two tasks cannot wait on one
\* stream: the second gets a RuntimeError, if there is nothing to be read.
ReaderLoops(r) ==
    /\ reader[r] = "between"
    /\ UNCHANGED <<protocol, conn, key, readerTask, sent, pc, call, shake, replaced,
                   device, exchange, phase>>
    /\ \/ conn = 0 /\ Stops(r) /\ UNCHANGED <<pending, current>>
       \/ conn # 0 /\ Awaited(conn) /\ Dies(r)
       \/ /\ conn # 0
          /\ Awaited(conn) => unanswered[conn] # {}
          /\ Reads(r)
          /\ UNCHANGED <<pending, current>>

\* Defect: a reply is given to whoever waits.
DeliverInOrder(n) ==
    IF current.frame # 0
      THEN /\ current' = [current EXCEPT !.reply = n]
           /\ pending' = Nobody
      ELSE UNCHANGED <<current, pending>>

\* A reply goes to the future pending under its sequence number, if it is
\* still waited for.
Deliver(n) ==
    LET waiting == pending[n % Width]
    IN  /\ pending' = [pending EXCEPT ![n % Width] = 0]
        /\ current' = IF waiting # 0 /\ waiting = current.frame /\ ~current.broken
                        THEN [current EXCEPT !.reply = n] ELSE current

\* Assumption: a reply that comes at all comes before its sequence number is
\* used again, 2^32 frames later.
Recent(n) == Len(sent) - n < Width

\* The reader has the device's answer to frame n, which it carried out, and
\* loops: _reader may be another connection by now.  What was received before
\* a connection was closed can still be read.
ReadsReply(r, n) ==
    LET s == stream[r]
    IN  /\ reader[r] = "reading"
        /\ link[s] # "lost"
        /\ n \in unanswered[s]
        /\ Recent(n)
        /\ unanswered' = Without(s, n)
        /\ executed' = IF sent[n] = 0 THEN executed ELSE executed \cup {n}
        /\ Deliver(n)
        /\ IF conn = s THEN UNCHANGED readers ELSE Between(r)
        /\ UNCHANGED <<protocol, conn, key, readerTask, sent, pc, call, shake,
                       replaced, link, exchange, phase>>

\* The device may push, on version 3.4 once it has a key.  Publishing the
\* state is awaited by the reader.
Pushed(r) ==
    /\ reader[r] = "reading"
    /\ link[stream[r]] = "up"
    /\ protocol = "3.3" \/ key = stream[r]

ReadsPush(r) ==
    /\ Pushed(r)
    /\ Between(r)
    /\ UNCHANGED <<protocol, conn, key, readerTask, pending, sent, current, pc, call,
                   shake, replaced, device, exchange, phase>>

\* A frame that cannot be parsed, a state with a value that Rgb refuses, or
\* the end of the stream, whoever ended it.  The device that closes its end
\* leaves the writer open.
ReaderFails(r) ==
    /\ reader[r] = "reading"
    /\ Dies(r)
    /\ UNCHANGED <<protocol, conn, key, readerTask, sent, pc, call, shake, replaced,
                   device, exchange, phase>>

-----------------------------------------------------------------------------
(* The device and the network.                                             *)

\* The device carries out a frame whose connection is over: its answer is not
\* read.  (An answer on an open connection waits there to be read.)
CarriesOut(c, n) ==
    /\ link[c] # "up"
    /\ n \in unanswered[c]
    /\ sent[n] # 0
    /\ unanswered' = Without(c, n)
    /\ executed' = executed \cup {n}
    /\ UNCHANGED <<protocol, conn, key, readerTask, pending, sent, current, pc, call,
                   shake, replaced, link, readers, exchange, phase>>

\* The connection is reset: the writer is closing.
Reset ==
    /\ conn # 0
    /\ link[conn] = "up"
    /\ link' = [link EXCEPT ![conn] = "lost"]
    /\ UNCHANGED <<protocol, conn, key, readerTask, pending, sent, current, pc, call,
                   shake, replaced, unanswered, executed, readers, exchange, phase>>

-----------------------------------------------------------------------------
\* What a call goes through by itself, given time.
Step(t) ==
    \/ /\ t \in Callers
       /\ \/ Attempt(t) \/ OpenFails(t) \/ ShakeFails(t)
          \/ Answered(t) \/ Escapes(t) \/ AttemptFails(t)
          \/ \E c \in Conns : Opened(t, c)
          \/ \E n \in 1..Len(sent) : Shaken(t, n)
    \/ Gathered(t) \/ Closed(t) \/ ClosingRaises(t)

Reader(r) ==
    \/ ReaderLoops(r) \/ ReadsPush(r) \/ ReaderFails(r)
    \/ \E n \in 1..Len(sent) : ReadsReply(r, n)

Environment == Reset \/ \E c \in Conns, n \in 1..Len(sent) : CarriesOut(c, n)

Next ==
    \/ EndSession
    \/ \E t \in Callers : Cancelled(t)
    \/ /\ \/ \E t \in Tasks : Step(t)
          \/ \E t \in Callers : Ask(t)
          \/ Connect \/ PublisherLeaves \/ MainDisconnects
          \/ session # "over" /\ (Environment \/ \E r \in Conns : Reader(r))
       /\ UNCHANGED toCancel

Spec == Init /\ [][Next]_vars

Ending ==
    \/ \E t \in Callers : Cancelled(t)
    \/ /\ session # "open"
       /\ PublisherLeaves \/ MainDisconnects \/ Step("main")
       /\ UNCHANGED toCancel

\* Every await of the driver has a timeout, and the lock is first come first
\* served.  A cancelled task is resumed, and the session goes on ending; each
\* step of that is taken once or twice.
FairSpec ==
    /\ Spec
    /\ \A t \in Callers : WF_vars(Step(t) /\ UNCHANGED toCancel)
    /\ WF_vars(Ending)

-----------------------------------------------------------------------------
(* Properties.                                                             *)

TypeOK ==
    /\ protocol \in Protocols
    /\ conn \in Conns \cup {0}
    /\ key \in Conns \cup {0}
    /\ readerTask \in Conns \cup {0}
    /\ sent \in Seq(Requests \cup {0})
    /\ pending \in [Sequences -> 0..Len(sent)]
    /\ lock \in Callers \cup {"nobody"}
    /\ request \in [Tasks -> Requests \cup {0}]
    /\ attempt \in 0..Retries
    /\ current \in [frame : 0..Len(sent), reply : 0..Len(sent), broken : BOOLEAN]
    /\ pc \in [Tasks -> {"idle", "queued", "opening", "shaking", "waiting",
                         "gathering", "closing", "sleeping"}]
    /\ call \in [Tasks -> {"none", "exchange", "connect", "disconnect",
                           "negotiation", "escape"}]
    /\ shake \in [Callers -> Conns \cup {0}]
    /\ reader \in [Conns -> {"none", "reading", "between", "done"}]
    /\ stream \in [Conns -> Conns \cup {0}]
    /\ link \in [Conns -> {"unused", "up", "lost", "closed"}]
    /\ unanswered \in [Conns -> SUBSET (1..Len(sent))]
    /\ executed \subseteq 1..Len(sent)
    /\ outcome \in [Requests -> {"none", "asked", "answered", "failed"}]
    /\ life \in {"new", "up", "failing", "over"}
    /\ session \in {"open", "ending", "over"}
    /\ toCancel \subseteq Callers
    /\ replaced \in BOOLEAN

\* The reply an exchange returns is the device's reply to the frame it sent
\* last: never one to an earlier attempt, to another caller's request or to a
\* frame whose sequence number came round again, whichever reader task of
\* whichever connection read it.
ReplyIsOwn == current.reply # 0 => current.reply = current.frame

\* The session holds one connection to the lamp.  (Two connects that overlap
\* are the exception: the later one replaces an open connection that nobody
\* closes.  Commands take no driver lock, so that the publisher's connect and
\* a command's can overlap.)
OneConnection == ~replaced => \A c \in Conns : link[c] = "up" => c = conn

\* Defect: health looks at the writer only.
HealthyByWriter == Usable

\* health(): DriverHealth.connected.
Healthy ==
    /\ Usable
    /\ readerTask # 0
    /\ reader[readerTask] # "done"

\* A driver that says it is connected has a reader for the connection it
\* writes to, or one that is about to find its own connection gone, unless
\* connects have overlapped.
HealthIsTruthful ==
    ~replaced /\ Healthy =>
        \E r \in Conns :
            \/ reader[r] = "between"
            \/ stream[r] = conn
            \/ stream[r] # 0 /\ link[stream[r]] \in {"lost", "closed"}

\* Whatever was cancelled wherever, the last disconnect of a session leaves
\* no connection, no reader task, no pending request and nobody in the send
\* lock's queue, and no open socket unless one had been replaced.
SessionLeavesNoConnection ==
    session = "over" =>
        /\ conn = 0 /\ readerTask = 0
        /\ pending = Nobody
        /\ lock = "nobody"
        /\ replaced \/ \A c \in Conns : link[c] # "up"

\* Every exchange returns or raises, whatever becomes of the device, the
\* readers and the connections, and whoever else connects and disconnects
\* meanwhile: when the session's last one was asked, nobody is left in the end
\* that holds the send lock or waits for it.
ExchangesEnd == <>[](lock = "nobody")

\* The current connection is open, but nobody reads it or is about to.
Deaf ==
    /\ conn # 0
    /\ link[conn] = "up"
    /\ ~Awaited(conn)
    /\ \A r \in Conns : reader[r] # "between"

\* A reader that died leaves an open connection behind.  It does not outlast
\* the exchange that meets it.
DeafIsNoticed ==
    Deaf /\ (\E t \in Callers : pc[t] = "waiting") /\ current.reply = 0 ~> ~Deaf

\* How often the device carried request x out.
Carried(x) == Cardinality({n \in executed : sent[n] = x})

Promise == INSTANCE RequestReply WITH
    Limit <- Retries + 1,
    carried <- [x \in Requests |-> Carried(x)]

\* _exchange keeps the promise of RequestReply: an answered request was
\* carried out, none is carried out more often than it was sent, and each has
\* one outcome, through timeouts, retries, late replies and lost connections.
KeepsRequests == Promise!Spec
-----------------------------------------------------------------------------
(* The inductive invariant.                                                *)

\* What a task is called for says where it can be, and how far the publisher
\* has come.
Calls ==
    /\ \A t \in Tasks :
          /\ pc[t] = "idle" <=> call[t] = "none"
          /\ pc[t] \in {"queued", "waiting", "sleeping"} => call[t] = "exchange"
          /\ pc[t] \in {"opening", "shaking"} => call[t] \in {"exchange", "connect"}
    /\ call["main"] \in {"none", "disconnect"}
    /\ call["receiver"] \notin {"connect", "disconnect"}
    /\ CASE life = "new" -> call["publisher"] \in {"none", "connect"}
         [] life = "up" -> call["publisher"] # "connect"
         [] life = "failing" -> call["publisher"] \in {"none", "disconnect"}
         [] OTHER -> call["publisher"] = "none"

\* An exchange has asked a request of its own.  It has the lock, or waits for it.
LockIsHeld ==
    /\ \A t \in Tasks :
          /\ request[t] # 0 <=> call[t] \in {"exchange", "negotiation", "escape"}
          /\ request[t] # 0 => outcome[request[t]] = "asked"
          /\ request[t] # 0 /\ pc[t] # "queued" => lock = t
          /\ request[t] # 0 => lock # "nobody"
    /\ lock # "nobody" => request[lock] # 0
    /\ \A t, u \in Tasks : request[t] = request[u] => t = u \/ request[t] = 0

\* The current frame carries the request of who has the lock and waits.
FrameIsCurrent ==
    /\ \A t \in Tasks : pc[t] = "waiting" => current.frame # 0
    /\ current.frame # 0 =>
          \E t \in Callers :
              lock = t /\ pc[t] = "waiting" /\ sent[current.frame] = request[t]

\* A frame is filed under its own sequence number.
FiledUnderItsNumber ==
    \A s \in Sequences : pending[s] # 0 => pending[s] % Width = s

\* While a frame waits for its reply, only the publisher's own connect draws
\* sequence numbers: one for each half of a negotiation.
FrameIsRecent ==
    current.frame # 0 =>
        /\ Len(sent) - current.frame <= 2
        /\ pc["publisher"] = "shaking" => Len(sent) - current.frame <= 1
        /\ life = "new" /\ pc["publisher"] \in {"idle", "opening"} =>
              Len(sent) = current.frame

ReplyWasExecuted == current.reply # 0 => current.reply \in executed

\* The frames that carry request x: one for each attempt.
SentFor(x) == {n \in 1..Len(sent) : sent[n] = x}

AttemptsAreCounted ==
    /\ \A x \in Requests :
          /\ Cardinality(SentFor(x)) <= Retries + 1
          /\ outcome[x] = "none" => SentFor(x) = {}
    /\ \A t \in Callers : request[t] # 0 =>
          /\ pc[t] = "queued" => SentFor(request[t]) = {}
          /\ pc[t] \in {"opening", "shaking", "sleeping"} =>
                Cardinality(SentFor(request[t])) <= attempt
          /\ Cardinality(SentFor(request[t])) <= attempt + 1

\* Connections are opened before they are used, and closed once let go of.
ConnectionsAreOpened ==
    /\ conn # 0 => link[conn] \in {"up", "lost"}
    /\ \A t \in Callers : pc[t] = "shaking" => shake[t] # 0 /\ link[shake[t]] # "unused"
    /\ \A r \in Conns :
          /\ reader[r] = "reading" <=> stream[r] # 0
          /\ stream[r] # 0 => link[stream[r]] # "unused"
    /\ readerTask # 0 => reader[readerTask] # "none"

\* main disconnects when both callers have come to their end.
MainIsLast ==
    /\ pc["main"] \in {"idle", "gathering", "closing"}
    /\ pc["main"] # "idle" => session = "ending"
    /\ pc["main"] # "idle" \/ session = "over" =>
          /\ \A t \in Callers : pc[t] = "idle"
          /\ toCancel = {}
          /\ life \in {"new", "over"}
          /\ readerTask = 0
    /\ pc["main"] = "closing" \/ session = "over" => conn = 0 /\ pending = Nobody

IInv ==
    /\ TypeOK
    /\ Calls
    /\ LockIsHeld
    /\ FrameIsCurrent
    /\ FiledUnderItsNumber
    /\ FrameIsRecent
    /\ ReplyIsOwn
    /\ ReplyWasExecuted
    /\ AttemptsAreCounted
    /\ ConnectionsAreOpened
    /\ OneConnection
    /\ MainIsLast
=============================================================================
