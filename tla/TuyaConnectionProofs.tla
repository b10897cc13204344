-------------------------- MODULE TuyaConnectionProofs -----------------------
(***************************************************************************)
(* Proofs about TuyaConnection: IInv is inductive, the safety properties   *)
(* of the connection follow from it, and every step is one of RequestReply *)
(* or none, for any number of retries, requests, connections and sequence  *)
(* numbers.                                                                *)
(*                                                                         *)
(* The invariant is proved in layers: the tasks and the lock (TasksInv),   *)
(* the frames they send (FramesInv, AttemptsAreCounted), the connections   *)
(* and their readers (LinksInv), and main, which is last (MainIsLast).     *)
(* Most actions are ways out of something, through disconnect or not; each *)
(* is shown to be a departure (Departs), and each layer is shown once to   *)
(* be kept by a departure.                                                 *)
(***************************************************************************)
EXTENDS TuyaConnection, Integers, FiniteSetTheorems, TLAPS

\* The three layers of TypeOK: the tasks, the connections and the frames.
TasksTyped ==
    /\ lock \in Callers \cup {"nobody"}
    /\ request \in [Tasks -> Requests \cup {0}]
    /\ attempt \in 0..Retries
    /\ pc \in [Tasks -> {"idle", "queued", "opening", "shaking", "waiting",
                         "gathering", "closing", "sleeping"}]
    /\ call \in [Tasks -> {"none", "exchange", "connect", "disconnect",
                           "negotiation", "escape"}]
    /\ outcome \in [Requests -> {"none", "asked", "answered", "failed"}]
    /\ life \in {"new", "up", "failing", "over"}
    /\ session \in {"open", "ending", "over"}

LinksTyped ==
    /\ conn \in Conns \cup {0}
    /\ key \in Conns \cup {0}
    /\ readerTask \in Conns \cup {0}
    /\ shake \in [Callers -> Conns \cup {0}]
    /\ reader \in [Conns -> {"none", "reading", "between", "done"}]
    /\ stream \in [Conns -> Conns \cup {0}]
    /\ link \in [Conns -> {"unused", "up", "lost", "closed"}]

Frames == [frame : 0..Len(sent), reply : 0..Len(sent), broken : BOOLEAN]

FramesTyped ==
    /\ sent \in Seq(Requests \cup {0})
    /\ pending \in [Sequences -> 0..Len(sent)]
    /\ current \in Frames
    /\ unanswered \in [Conns -> SUBSET (1..Len(sent))]
    /\ executed \subseteq 1..Len(sent)

\* TypeOK is its three layers, and the rest.
LEMMA TypeParts ==
    TypeOK <=> /\ TasksTyped /\ LinksTyped /\ FramesTyped
               /\ protocol \in Protocols
               /\ toCancel \subseteq Callers
               /\ replaced \in BOOLEAN
BY DEF TypeOK, TasksTyped, LinksTyped, FramesTyped, Frames

\* The invariant in the same layers.
TasksInv == TasksTyped /\ Calls /\ LockIsHeld

LinksInv == LinksTyped /\ ConnectionsAreOpened /\ OneConnection

FramesInv ==
    /\ FramesTyped /\ FrameIsCurrent /\ FiledUnderItsNumber /\ FrameIsRecent
    /\ ReplyIsOwn /\ ReplyWasExecuted

-----------------------------------------------------------------------------

\* The calls of a task that has asked a request.
InExchange == {"exchange", "negotiation", "escape"}

\* What task t may be leaving when it does so for k.
Legal(t, k) ==
    \/ call[t] \in InExchange /\ k \in InExchange
    \/ call[t] = k /\ k \in {"connect", "disconnect"}
    \/ /\ call[t] = "none" /\ k = "disconnect"
       /\ t = "main" \/ (t = "publisher" /\ life \in {"up", "failing"})

\* The task waits in a disconnect that it makes for k.
Pause(t, k) ==
    /\ pc' = [pc EXCEPT ![t] = "gathering"] \/ pc' = [pc EXCEPT ![t] = "closing"]
    /\ call' = [call EXCEPT ![t] = k]
    /\ pc[t] # "queued"
    /\ UNCHANGED <<exchange, phase>>

\* The exchange sleeps before its next attempt.
Again(t, k) ==
    /\ k \in {"exchange", "negotiation"}
    /\ attempt < Retries
    /\ pc[t] # "queued"
    /\ pc' = [pc EXCEPT ![t] = "sleeping"]
    /\ call' = [call EXCEPT ![t] = "exchange"]
    /\ attempt' = attempt + 1
    /\ UNCHANGED <<lock, request, outcome, phase>>

\* The task returns from what it did for k.
Ends(t, k) ==
    \/ Over(t, k, "failed")
    \/ Over(t, k, "answered") /\ pc[t] = "waiting" /\ current.reply # 0

\* No frame is sent; of the pending ones some are forgotten.
Forgets(t) ==
    /\ UNCHANGED <<sent, executed>>
    /\ unanswered' \in [Conns -> SUBSET (1..Len(sent))]
    /\ pending' \in [Sequences -> 0..Len(sent)]
    /\ \A s \in Sequences : pending'[s] \in {0, pending[s]}
    /\ \/ current' = NoFrame /\ lock = t
       \/ pc[t] # "waiting" /\ current' = current
       \/ pc[t] # "waiting" /\ current' = [current EXCEPT !.broken = TRUE]

\* No connection is opened; the current one, or its reader, is let go of.
LetsGo(t) ==
    /\ UNCHANGED <<protocol, replaced>>
    /\ shake' = shake \/ shake' = [shake EXCEPT ![t] = 0]
    /\ \/ UNCHANGED <<conn, key, link, readerTask, readers>>
       \/ /\ UNCHANGED <<conn, key, link>>
          /\ readerTask # 0 /\ readerTask' = 0
          /\ Stops(readerTask)
       \/ /\ UNCHANGED <<readerTask, readers>>
          /\ conn' = 0 /\ key' = 0
          /\ \/ conn = 0 /\ link' = link
             \/ conn # 0 /\ link' = [link EXCEPT ![conn] = "closed"]

\* What all ways of leaving an attempt, a negotiation, a disconnect or the
\* session have in common.
Departs(t, k) ==
    /\ Legal(t, k)
    /\ Pause(t, k) \/ Again(t, k) \/ Ends(t, k)
    /\ Forgets(t)
    /\ LetsGo(t)

\* Failing the pending requests breaks the current frame or leaves it alone.
LEMMA FailedFacts ==
    ASSUME FramesTyped, NEW now \in Frames, NEW waiting
    PROVE  /\ Failed(now, waiting) \in {now, [now EXCEPT !.broken = TRUE]}
           /\ now = NoFrame => Failed(now, waiting) = NoFrame
<1>1. CASE now.frame # 0 /\ waiting[now.frame % Width] = now.frame
  BY <1>1 DEF Failed, NoFrame
<1>2. CASE ~(now.frame # 0 /\ waiting[now.frame % Width] = now.frame)
  BY <1>2 DEF Failed
<1>. QED BY <1>1, <1>2

\* The second half of a disconnect is a departure,
LEMMA CloseDeparts ==
    ASSUME TasksInv, FramesTyped, NEW t \in Tasks, NEW k, Legal(t, k), pc[t] # "queued",
           NEW now \in Frames, NEW waiting \in [Sequences -> 0..Len(sent)],
           \A s \in Sequences : waiting[s] \in {0, pending[s]},
           (now = NoFrame /\ lock = t) \/ (now = current /\ pc[t] # "waiting"),
           Close(t, k, now, waiting),
           UNCHANGED <<protocol, sent, replaced, readerTask, readers, executed>>,
           unanswered' \in [Conns -> SUBSET (1..Len(sent))],
           shake' = shake \/ shake' = [shake EXCEPT ![t] = 0]
    PROVE  Departs(t, k)
<1>1. Pause(t, k) \/ Again(t, k) \/ Ends(t, k)
  BY DEF Close, Leave, Pause, Again, Ends
<1>2. Forgets(t)
  <2>1. pending' = Nobody /\ current' = Failed(now, waiting)
    BY DEF Close
  <2>2. pending' \in [Sequences -> 0..Len(sent)] /\ \A s \in Sequences : pending'[s] = 0
    BY <2>1 DEF Nobody, FramesTyped
  <2>. QED BY <2>1, <2>2, FailedFacts DEF Forgets
<1>3. LetsGo(t)
  BY DEF Close, LetsGo, Leave
<1>. QED BY <1>1, <1>2, <1>3 DEF Departs

\* and so is the first.
LEMMA DisconnectDeparts ==
    ASSUME TasksInv, FramesTyped, NEW t \in Tasks, NEW k, Legal(t, k), pc[t] # "queued",
           NEW now \in Frames, NEW waiting \in [Sequences -> 0..Len(sent)],
           \A s \in Sequences : waiting[s] \in {0, pending[s]},
           (now = NoFrame /\ lock = t) \/ (now = current /\ pc[t] # "waiting"),
           Disconnect(t, k, now, waiting),
           UNCHANGED executed,
           unanswered' \in [Conns -> SUBSET (1..Len(sent))],
           shake' = shake \/ shake' = [shake EXCEPT ![t] = 0]
    PROVE  Departs(t, k)
<1>1. CASE readerTask = 0
  <2>1. Close(t, k, now, waiting)
        /\ UNCHANGED <<protocol, sent, replaced, readerTask, readers>>
    BY <1>1 DEF Disconnect
  <2>. QED BY <2>1, CloseDeparts
<1>2. CASE readerTask # 0
  <2>1. Pause(t, k)
    BY <1>2 DEF Disconnect, Pause
  <2>2. Forgets(t)
    BY <1>2 DEF Disconnect, Forgets
  <2>3. LetsGo(t)
    BY <1>2 DEF Disconnect, LetsGo
  <2>. QED BY <2>1, <2>2, <2>3 DEF Departs
<1>. QED BY <1>1, <1>2

\* A number under which nothing is pending any more.
LEMMA OneForgotten ==
    ASSUME NEW n \in Nat, NEW S, NEW f \in [S -> 0..n], NEW s
    PROVE  /\ [f EXCEPT ![s] = 0] \in [S -> 0..n]
           /\ \A i \in S : [f EXCEPT ![s] = 0][i] \in {0, f[i]}
<1>1. 0 \in 0..n
  OBVIOUS
<1>2. [f EXCEPT ![s] = 0] \in [S -> 0..n]
  BY <1>1, Zenon
<1>3. \A i \in S : [f EXCEPT ![s] = 0][i] \in {0, f[i]}
  OBVIOUS
<1>. QED BY <1>2, <1>3

\* _exchange's except clause is a departure,
LEMMA FailDeparts ==
    ASSUME TasksInv, FramesInv, NEW t \in Callers, call[t] = "exchange",
           pc[t] \in {"opening", "waiting"}, Fail(t)
    PROVE  Departs(t, "exchange")
<1>. DEFINE waiting == IF current.frame = 0 THEN pending
                       ELSE [pending EXCEPT ![current.frame % Width] = 0]
<1>1. NoFrame \in Frames
  BY DEF NoFrame, Frames, FramesInv, FramesTyped
<1>2. waiting \in [Sequences -> 0..Len(sent)]
      /\ \A s \in Sequences : waiting[s] \in {0, pending[s]}
  <2>1. Len(sent) \in Nat /\ pending \in [Sequences -> 0..Len(sent)]
    BY DEF FramesInv, FramesTyped
  <2>2. CASE current.frame = 0
    BY <2>1, <2>2
  <2>3. CASE current.frame # 0
    BY <2>1, <2>3, OneForgotten
  <2>. QED BY <2>2, <2>3
<1>3. Legal(t, "exchange") /\ lock = t /\ pc[t] # "queued" /\ t \in Tasks
  BY DEF Legal, InExchange, TasksInv, LockIsHeld, Tasks
<1>4. FramesTyped /\ executed' = executed /\ shake' = shake /\ unanswered' = unanswered
      /\ Disconnect(t, "exchange", NoFrame, waiting)
  BY DEF Fail, FramesInv
<1>5. unanswered' \in [Conns -> SUBSET (1..Len(sent))]
  BY <1>4 DEF FramesTyped
<1>. HIDE DEF waiting
<1>6. NoFrame = NoFrame /\ lock = t
  BY <1>3
<1>. QED BY <1>1, <1>2, <1>3, <1>4, <1>5, <1>6, DisconnectDeparts

\* and so is an abandoned negotiation.
LEMMA AbandonDeparts ==
    ASSUME TasksInv, FramesInv, NEW t \in Callers, pc[t] = "shaking", NEW retry \in BOOLEAN,
           Abandon(t, retry), executed' = executed, 
           unanswered' \in [Conns -> SUBSET (1..Len(sent))]
    PROVE  \E k \in InExchange \cup {"connect"} : Departs(t, k)
<1>. DEFINE k == IF call[t] = "connect" THEN "connect"
                     ELSE IF retry THEN "negotiation" ELSE "escape"
<1>1. Legal(t, k) /\ t \in Tasks /\ k \in InExchange \cup {"connect"}
  BY DEF Legal, InExchange, TasksInv, Calls, Tasks
<1>2. Disconnect(t, k, current, pending) /\ shake' = [shake EXCEPT ![t] = 0]
  BY DEF Abandon
<1>3. FramesTyped /\ current \in Frames /\ pending \in [Sequences -> 0..Len(sent)]
  BY DEF FramesInv, FramesTyped
<1>. HIDE DEF k
<1>4. Departs(t, k)
  BY <1>1, <1>2, <1>3, DisconnectDeparts
<1>. QED BY <1>1, <1>4

\* The task departs for one reason or another.
Departure(t) ==
    \E k \in {"exchange", "negotiation", "escape", "connect", "disconnect"} :
        Departs(t, k)

\* Nothing changes but the tasks and the current frame.
Stays == UNCHANGED <<protocol, conn, key, readerTask, pending, sent, shake, replaced,
                     device, readers>>

\* A task that returns and touches nothing else departs.
LEMMA EndsDeparts ==
    ASSUME TasksInv, FramesInv, NEW t \in Tasks, NEW k, Legal(t, k), Ends(t, k), Stays,
           \/ current' = NoFrame /\ lock = t
           \/ current' = current /\ pc[t] # "waiting"
    PROVE  Departs(t, k)
<1>1. Forgets(t)
  BY DEF Forgets, Stays, FramesInv, FramesTyped, device
<1>2. LetsGo(t)
  BY DEF LetsGo, Stays, device, readers
<1>. QED BY <1>1, <1>2 DEF Departs

\* A connect or an attempt that fails is a departure.
LEMMA FailedDeparture ==
    ASSUME TasksInv, FramesInv, NEW t \in Callers, OpenFails(t) \/ AttemptFails(t)
    PROVE  Departure(t)
<1>1. CASE call[t] = "exchange" /\ Fail(t)
  <2>1. pc[t] \in {"opening", "waiting"}
    BY DEF OpenFails, AttemptFails, At
  <2>. QED BY <1>1, <2>1, FailDeparts DEF Departure
<1>2. CASE ~(call[t] = "exchange" /\ Fail(t))
  <2>1. OpenFails(t) /\ call[t] # "exchange"
    BY <1>2 DEF OpenFails, AttemptFails, At, TasksInv, Calls, Callers, Tasks
  <2>2. Over(t, call[t], "failed") /\ Stays /\ current' = current /\ pc[t] = "opening"
    BY <2>1 DEF OpenFails, Stays, At
  <2>3. call[t] = "connect" /\ t \in Tasks
    BY <2>1, <2>2 DEF TasksInv, Calls, Callers, Tasks
  <2>4. Legal(t, "connect") /\ Ends(t, "connect")
    BY <2>2, <2>3 DEF Legal, Ends
  <2>5. Departs(t, "connect")
    BY <2>2, <2>3, <2>4, EndsDeparts
  <2>. QED BY <2>5 DEF Departure
<1>. QED BY <1>1, <1>2

\* A negotiation that fails, is cancelled, or finds its connection lost, is one.
LEMMA ShakeDeparture ==
    ASSUME TasksInv, FramesInv, NEW t \in Callers,
           \/ ShakeFails(t)
           \/ \E n \in 1..Len(sent) : Shaken(t, n) /\ ~Usable
           \/ Cancelled(t) /\ pc[t] = "shaking"
    PROVE  Departure(t)
<1>1. pc[t] = "shaking" /\ executed' = executed /\ \E retry \in BOOLEAN : Abandon(t, retry)
  BY DEF ShakeFails, Shaken, Cancelled, At
<1>2. unanswered' \in [Conns -> SUBSET (1..Len(sent))]
  BY DEF ShakeFails, Shaken, Cancelled, FramesInv, FramesTyped, Without
<1>. QED BY <1>1, <1>2, AbandonDeparts DEF Departure, InExchange

\* The end of an exchange that has its reply is one.
LEMMA AnswerDeparture ==
    ASSUME TasksInv, FramesInv, NEW t \in Callers, Answered(t) \/ Escapes(t)
    PROVE  Departure(t)
<1>1. /\ pc[t] = "waiting" /\ current.reply # 0 /\ current' = NoFrame /\ Stays
      /\ Ends(t, "exchange")
  BY DEF Answered, Escapes, At, Stays, Ends
<1>2. t \in Tasks /\ call[t] = "exchange" /\ lock = t
  BY <1>1 DEF TasksInv, Calls, LockIsHeld, Callers, Tasks
<1>3. Legal(t, "exchange")
  BY <1>2 DEF Legal, InExchange
<1>. QED BY <1>1, <1>2, <1>3, EndsDeparts DEF Departure

\* The cancellation of a task that is not idle is one.
LEMMA CancelledDeparture ==
    ASSUME TasksInv, FramesInv, NEW t \in Callers, Cancelled(t), pc[t] # "idle"
    PROVE  Departure(t)
<1>1. CASE pc[t] = "shaking"
  BY <1>1, ShakeDeparture
<1>2. CASE pc[t] # "shaking"
  <2>1. /\ Over(t, call[t], "failed") /\ Stays
        /\ current' = IF pc[t] = "waiting" THEN NoFrame ELSE current
    BY <1>2 DEF Cancelled, Stays
  <2>2. t \in Tasks /\ (pc[t] = "waiting" => lock = t)
    BY DEF TasksInv, Calls, LockIsHeld, Callers, Tasks
  <2>3. Legal(t, call[t]) /\ Ends(t, call[t])
    BY <2>1, <2>2 DEF Legal, InExchange, TasksInv, TasksTyped, Calls, Ends
  <2>4. call[t] \in {"exchange", "negotiation", "escape", "connect", "disconnect"}
    BY <2>2 DEF TasksInv, TasksTyped, Calls
  <2>5. Departs(t, call[t])
    BY <2>1, <2>2, <2>3, EndsDeparts
  <2>. QED BY <2>4, <2>5 DEF Departure
<1>. QED BY <1>1, <1>2

\* What follows the waits of a disconnect is one.
LEMMA ClosingDeparture ==
    ASSUME TasksInv, FramesInv, NEW t \in Tasks,
           Gathered(t) \/ Closed(t) \/ ClosingRaises(t)
    PROVE  Departure(t)
<1>1. FramesTyped /\ current \in Frames /\ pending \in [Sequences -> 0..Len(sent)]
  BY DEF FramesInv, FramesTyped
<1>2. pc[t] \in {"gathering", "closing"}
  BY DEF Gathered, Closed, ClosingRaises, At
<1>3. call[t] \in {"exchange", "negotiation", "escape", "connect", "disconnect"}
  BY <1>2 DEF TasksInv, TasksTyped, Calls
<1>4. Legal(t, call[t])
  BY <1>3 DEF Legal, InExchange
<1>5. CASE Gathered(t)
  <2>1. Close(t, call[t], current, pending)
    BY <1>5 DEF Gathered
  <2>2. /\ UNCHANGED <<protocol, sent, replaced, readerTask, readers, executed>>
        /\ unanswered' \in [Conns -> SUBSET (1..Len(sent))]
        /\ shake' = shake
    BY <1>1, <1>5 DEF Gathered, FramesTyped
  <2>3. Departs(t, call[t])
    BY <1>1, <1>2, <1>4, <2>1, <2>2, CloseDeparts
  <2>. QED BY <1>3, <2>3 DEF Departure
<1>6. CASE Closed(t) /\ call[t] = "negotiation"
  <2>1. /\ Disconnect(t, "exchange", current, pending) /\ executed' = executed
        /\ unanswered' \in [Conns -> SUBSET (1..Len(sent))]
        /\ shake' = shake
    BY <1>1, <1>6 DEF Closed, FramesTyped
  <2>2. Legal(t, "exchange")
    BY <1>6 DEF Legal, InExchange
  <2>3. Departs(t, "exchange")
    BY <1>1, <1>2, <2>1, <2>2, DisconnectDeparts
  <2>. QED BY <2>3 DEF Departure
<1>7. CASE \/ Closed(t) /\ call[t] # "negotiation"
           \/ ClosingRaises(t)
  <2>1. Again(t, call[t]) \/ Ends(t, call[t])
    BY <1>2, <1>7 DEF Closed, ClosingRaises, Leave, Again, Ends
  <2>2. Stays /\ current' = current
    BY <1>7 DEF Closed, ClosingRaises, Stays
  <2>3. Forgets(t)
    BY <1>1, <1>2, <2>2 DEF Forgets, Stays, FramesTyped, device
  <2>4. LetsGo(t)
    BY <2>2 DEF LetsGo, Stays, device, readers
  <2>5. Departs(t, call[t])
    BY <1>4, <2>1, <2>3, <2>4 DEF Departs
  <2>. QED BY <1>3, <2>5 DEF Departure
<1>. QED BY <1>5, <1>6, <1>7

\* The last disconnect of the publisher, and the session's, is one.
LEMMA DisconnectDeparture ==
    ASSUME TasksInv, FramesInv, NEW t \in Tasks,
           \/ t = "publisher" /\ PublisherLeaves
           \/ t = "main" /\ MainDisconnects
    PROVE  Departure(t)
<1>1. FramesTyped /\ current \in Frames /\ pending \in [Sequences -> 0..Len(sent)]
  BY DEF FramesInv, FramesTyped
<1>2. /\ pc[t] = "idle" /\ Disconnect(t, "disconnect", current, pending)
      /\ executed' = executed /\ shake' = shake /\ unanswered' = unanswered
  BY DEF PublisherLeaves, MainDisconnects, CallDisconnect, At
<1>3. Legal(t, "disconnect")
  <2>1. call[t] = "none"
    BY <1>2 DEF TasksInv, Calls
  <2>. QED BY <2>1 DEF Legal, PublisherLeaves
<1>4. unanswered' \in [Conns -> SUBSET (1..Len(sent))]
  BY <1>1, <1>2 DEF FramesTyped
<1>5. Departs(t, "disconnect")
  BY <1>1, <1>2, <1>3, <1>4, DisconnectDeparts
<1>. QED BY <1>5 DEF Departure

-----------------------------------------------------------------------------
\* A task that waits in its disconnect keeps its request and its lock.
LEMMA PauseKeepsTasks ==
    ASSUME TasksInv, NEW t \in Tasks, NEW k, Legal(t, k), Pause(t, k)
    PROVE  TasksInv'
<1>. USE DEF TasksInv, TasksTyped, Callers, Tasks, exchange, phase, InExchange
<1>1. TasksTyped'
   BY DEF Legal, Pause, Calls
<1>2. Calls'
   BY DEF Legal, Pause, Calls
<1>3. LockIsHeld'
   BY DEF Legal, Pause, Calls, LockIsHeld
<1>. QED BY <1>1, <1>2, <1>3

\* A task that tries again keeps its request and its lock.
LEMMA AgainKeepsTasks ==
    ASSUME TasksInv, NEW t \in Tasks, NEW k, Legal(t, k), Again(t, k)
    PROVE  TasksInv'
<1>. USE DEF TasksInv, TasksTyped, Callers, Tasks, exchange, phase, InExchange
<1>1. TasksTyped'
   BY Parameters DEF Legal, Again, Calls
<1>2. Calls'
   BY DEF Legal, Again, Calls
<1>3. LockIsHeld'
   BY DEF Legal, Again, Calls, LockIsHeld
<1>. QED BY <1>1, <1>2, <1>3

\* A task that returns gives back its request, and the lock to who waits for it.
LEMMA EndKeepsTasks ==
    ASSUME TasksInv, NEW t \in Tasks, NEW k, Legal(t, k), Ends(t, k)
    PROVE  TasksInv'
<1>1. PICK answer \in {"answered", "failed"} :
        /\ Over(t, k, answer)
        /\ answer = "answered" => call[t] = "exchange"
  BY DEF Ends, TasksInv, Calls
<1>. USE DEF TasksInv, TasksTyped, Callers, Tasks, exchange, phase, InExchange
<1>2. TasksTyped'
   BY Parameters, <1>1 DEF Legal, Over, Calls, LockAfter, LockIsHeld
<1>3. LockIsHeld'
   BY <1>1 DEF Legal, Over, Calls, LockIsHeld, LockAfter
<1>4. /\ pc' = [pc EXCEPT ![t] = "idle"]
      /\ call' = [call EXCEPT ![t] = "none"]
   BY <1>1 DEF Over
<1>5. life' = IF t # "publisher" \/ answer = "answered" THEN life
              ELSE IF k = "disconnect" THEN "over" ELSE "failing"
   BY <1>1 DEF Over
<1>6. (/\ \A u \in Tasks :
             /\ pc[u] = "idle" <=> call[u] = "none"
             /\ pc[u] \in {"queued", "waiting", "sleeping"} => call[u] = "exchange"
             /\ pc[u] \in {"opening", "shaking"} => call[u] \in {"exchange", "connect"}
       /\ call["main"] \in {"none", "disconnect"}
       /\ call["receiver"] \notin {"connect", "disconnect"})'
   BY <1>4 DEF Calls
<1>7. (CASE life = "new" -> call["publisher"] \in {"none", "connect"}
         [] life = "up" -> call["publisher"] # "connect"
         [] life = "failing" -> call["publisher"] \in {"none", "disconnect"}
         [] OTHER -> call["publisher"] = "none")'
  <2>1. CASE t = "publisher"
    <3>1. call'["publisher"] = "none"
      BY <1>4, <2>1
    <3>. QED BY <3>1
  <2>2. CASE t # "publisher"
    <3>1. life' = life /\ call'["publisher"] = call["publisher"]
      BY <1>4, <1>5, <2>2
    <3>2. (CASE life = "new" -> call["publisher"] \in {"none", "connect"}
             [] life = "up" -> call["publisher"] # "connect"
             [] life = "failing" -> call["publisher"] \in {"none", "disconnect"}
             [] OTHER -> call["publisher"] = "none")
      BY DEF Calls
    <3>. QED BY <3>1, <3>2
  <2>. QED BY <2>1, <2>2
<1>8. Calls'
   BY <1>6, <1>7 DEF Calls
<1>. QED BY <1>2, <1>3, <1>8

\* A departure keeps the calls and the lock in order.
LEMMA DepartureKeepsTasks ==
    ASSUME TasksInv, NEW t \in Tasks, Departure(t)
    PROVE  TasksInv'
BY PauseKeepsTasks, AgainKeepsTasks, EndKeepsTasks DEF Departure, Departs

\* Where a departure leads, and what it leaves to the other tasks.
LEMMA DepartureLeads ==
    ASSUME TasksInv, NEW t \in Tasks, Departure(t)
    PROVE  /\ pc' \in [Tasks -> {"idle", "queued", "opening", "shaking", "waiting",
                         "gathering", "closing", "sleeping"}]
           /\ pc'[t] \in {"idle", "gathering", "closing", "sleeping"}
           /\ \A u \in Tasks \ {t} : pc'[u] = pc[u] /\ call'[u] = call[u]
                 /\ request'[u] = request[u]
           /\ lock # t => lock' = lock
           /\ lock' = t => lock = t /\ request'[t] = request[t]
           /\ request'[t] \in {request[t], 0}
           /\ life' = life \/ (t = "publisher" /\ life' \in {"failing", "over"})
<1>1. PICK k : Legal(t, k) /\ (Pause(t, k) \/ Again(t, k) \/ Ends(t, k))
  BY DEF Departure, Departs
<1>2. CASE Pause(t, k)
  BY <1>2 DEF TasksInv, TasksTyped, Pause, exchange, phase, LockIsHeld
<1>3. CASE Again(t, k)
  BY <1>3 DEF TasksInv, TasksTyped, Again, phase, LockIsHeld
<1>4. CASE Ends(t, k)
  <2>1. /\ pc' = [pc EXCEPT ![t] = "idle"]
        /\ call' = [call EXCEPT ![t] = "none"]
        /\ life' = life \/ (t = "publisher" /\ life' \in {"failing", "over"})
    BY <1>4 DEF Ends, Over
  <2>2. CASE request[t] # 0
    <3>1. lock' \in LockAfter(t) /\ request' = [request EXCEPT ![t] = 0]
      BY <1>4, <2>2 DEF Ends, Over
    <3>. QED BY <2>1, <2>2, <3>1 DEF LockAfter, TasksInv, TasksTyped, Callers, Tasks
  <2>3. CASE request[t] = 0
    <3>1. lock' = lock /\ request' = request
      BY <1>4, <2>3 DEF Ends, Over, exchange
    <3>2. lock # t
      BY <2>3 DEF TasksInv, LockIsHeld, Tasks, Callers
    <3>. QED BY <2>1, <3>1, <3>2 DEF TasksInv, TasksTyped
  <2>. QED BY <2>2, <2>3
<1>. QED BY <1>1, <1>2, <1>3, <1>4

\* A departure leaves no second open connection, and no reader of an unopened one.
LEMMA DepartureKeepsLinks ==
    ASSUME TasksInv, LinksInv, NEW t \in Tasks, Departure(t)
    PROVE  LinksInv'
<1>1. LetsGo(t)
  BY DEF Departure, Departs
<1>2. \A u \in Callers : pc'[u] = "shaking" => pc[u] = "shaking" /\ shake'[u] = shake[u]
  BY <1>1, DepartureLeads DEF LetsGo, LinksInv, LinksTyped, Tasks
<1>3. LinksTyped'
  BY <1>1 DEF LinksInv, LinksTyped, LetsGo, readers, Stops
<1>4. \A c \in Conns : /\ link'[c] = "up" => link[c] = "up" /\ (conn' = conn \/ c # conn)
                       /\ link'[c] = "unused" <=> link[c] = "unused"
  BY <1>1 DEF LetsGo, LinksInv, LinksTyped, ConnectionsAreOpened, OneConnection
<1>5. ConnectionsAreOpened'
  <2>1. (conn # 0 => link[conn] \in {"up", "lost"})'
    BY <1>1 DEF LetsGo, LinksInv, LinksTyped, ConnectionsAreOpened
  <2>2. (\A u \in Callers : pc[u] = "shaking" => shake[u] # 0 /\ link[shake[u]] # "unused")'
    BY <1>2, <1>4 DEF LinksInv, LinksTyped, ConnectionsAreOpened
  <2>3. (\A r \in Conns : reader[r] = "reading" <=> stream[r] # 0)'
    BY <1>1 DEF LetsGo, LinksInv, LinksTyped, ConnectionsAreOpened, readers, Stops
  <2>4. (\A r \in Conns : stream[r] # 0 => link[stream[r]] # "unused")'
    <3>1. \A r \in Conns : stream'[r] \in {0, stream[r]}
      BY <1>1 DEF LetsGo, LinksInv, LinksTyped, readers, Stops
    <3>. QED BY <3>1, <1>4 DEF LinksInv, LinksTyped, ConnectionsAreOpened
  <2>5. (readerTask # 0 => reader[readerTask] # "none")'
    BY <1>1 DEF LetsGo, LinksInv, LinksTyped, ConnectionsAreOpened, readers, Stops
  <2>. QED BY <2>1, <2>2, <2>3, <2>4, <2>5 DEF ConnectionsAreOpened
<1>6. OneConnection'
  BY <1>1, <1>4 DEF LetsGo, LinksInv, LinksTyped, OneConnection
<1>. QED BY <1>3, <1>5, <1>6 DEF LinksInv

\* A broken frame is the same frame.
LEMMA BrokenFacts ==
    ASSUME NEW n, NEW now \in [frame : 0..n, reply : 0..n, broken : BOOLEAN]
    PROVE  /\ [now EXCEPT !.broken = TRUE] \in [frame : 0..n, reply : 0..n, broken : BOOLEAN]
           /\ [now EXCEPT !.broken = TRUE].frame = now.frame
           /\ [now EXCEPT !.broken = TRUE].reply = now.reply
OBVIOUS

\* The publisher that comes to rest has failed, or has been answered.
LEMMA PublisherIsNotNew ==
    ASSUME TasksInv, NEW k, Ends("publisher", k)
    PROVE  life' # "new"
<1>1. PICK answer \in {"answered", "failed"} :
        /\ Over("publisher", k, answer)
        /\ answer = "answered" => call["publisher"] = "exchange"
  BY DEF Ends, TasksInv, Calls, Tasks, Callers
<1>2. answer = "answered" => life # "new"
  BY <1>1 DEF TasksInv, Calls
<1>3. life' = IF answer = "answered" THEN life
              ELSE IF k = "disconnect" THEN "over" ELSE "failing"
  BY <1>1 DEF Over
<1>. QED BY <1>2, <1>3

\* A departure keeps the frames in order: who leaves its frame is who has the lock.
LEMMA DepartureKeepsFrames ==
    ASSUME TasksInv, FramesInv, NEW t \in Tasks, Departure(t)
    PROVE  FramesInv'
<1>1. PICK k : Departs(t, k)
  BY DEF Departure
<1>2. Forgets(t) /\ sent' = sent /\ executed' = executed
  BY <1>1 DEF Departs, Forgets
<1>3. /\ current.frame \in Nat /\ current.reply \in Nat
      /\ Len(sent) \in Nat
      /\ current' \in Frames
      /\ \/ current'.frame = current.frame /\ current'.reply = current.reply
               /\ pc[t] # "waiting"
         \/ current'.frame = 0 /\ current'.reply = 0 /\ lock = t
  <2>1. FramesTyped /\ Len(sent) \in Nat /\ current \in Frames
    BY DEF FramesInv, FramesTyped
  <2>2. CASE current' = NoFrame /\ lock = t
    BY <2>1, <2>2 DEF Frames, NoFrame
  <2>3. CASE pc[t] # "waiting" /\ current' = current
    BY <2>1, <2>3 DEF Frames
  <2>4. CASE pc[t] # "waiting" /\ current' = [current EXCEPT !.broken = TRUE]
    <3>1. current' \in Frames /\ current'.frame = current.frame
          /\ current'.reply = current.reply
      BY <2>1, <2>4, BrokenFacts DEF Frames
    <3>2. current.frame \in Nat /\ current.reply \in Nat
      BY <2>1 DEF Frames
    <3>. QED BY <2>1, <2>4, <3>1, <3>2
  <2>. QED BY <1>2, <2>2, <2>3, <2>4 DEF Forgets
<1>4. FramesTyped'
  BY <1>2, <1>3 DEF FramesInv, FramesTyped, Frames, Forgets
<1>5. FrameIsCurrent'
  <2>1. ASSUME NEW u \in Tasks, pc'[u] = "waiting"
        PROVE  current'.frame # 0
    <3>1. u # t /\ pc[u] = "waiting"
      BY <2>1, DepartureLeads
    <3>2. lock = u
      BY <3>1 DEF TasksInv, Calls, LockIsHeld
    <3>. QED BY <3>1, <3>2, <1>3 DEF FramesInv, FrameIsCurrent
  <2>2. ASSUME current'.frame # 0
        PROVE  \E u \in Callers : lock' = u /\ pc'[u] = "waiting"
               /\ sent'[current'.frame] = request'[u]
    <3>1. current'.frame = current.frame /\ pc[t] # "waiting"
      BY <2>2, <1>3
    <3>2. PICK u \in Callers : lock = u /\ pc[u] = "waiting"
               /\ sent[current.frame] = request[u]
      BY <2>2, <3>1 DEF FramesInv, FrameIsCurrent
    <3>3. u \in Tasks \ {t} /\ lock # t
      BY <3>1, <3>2 DEF Tasks
    <3>. QED BY <1>2, <3>1, <3>2, <3>3, DepartureLeads
  <2>. QED BY <2>1, <2>2 DEF FrameIsCurrent
<1>6. FiledUnderItsNumber'
  BY <1>2 DEF Forgets, FramesInv, FiledUnderItsNumber
<1>7. FrameIsRecent'
  <2>1. CASE t = "publisher"
    <3>1. pc'["publisher"] \in {"idle", "gathering", "closing", "sleeping"}
      BY <2>1, DepartureLeads
    <3>2. pc'["publisher"] = "idle" => Ends("publisher", k)
      BY <1>1, <2>1 DEF Departs, Pause, Again, TasksInv, TasksTyped
    <3>. QED BY <1>2, <1>3, <3>1, <3>2, PublisherIsNotNew DEF FramesInv, FrameIsRecent
  <2>2. CASE t # "publisher"
    <3>1. pc'["publisher"] = pc["publisher"] /\ life' = life
      BY <2>2, DepartureLeads DEF Tasks, Callers
    <3>. QED BY <1>2, <1>3, <3>1 DEF FramesInv, FrameIsRecent
  <2>. QED BY <2>1, <2>2
<1>8. ReplyIsOwn' /\ ReplyWasExecuted'
  BY <1>2, <1>3 DEF FramesInv, ReplyIsOwn, ReplyWasExecuted
<1>. QED BY <1>4, <1>5, <1>6, <1>7, <1>8 DEF FramesInv

\* What was sent is a finite number of frames.
LEMMA SentForFinite ==
    ASSUME FramesTyped, NEW x
    PROVE  IsFiniteSet(SentFor(x)) /\ Cardinality(SentFor(x)) \in Nat
<1>1. Len(sent) \in Nat
  BY DEF FramesTyped
<1>2. IsFiniteSet(1..Len(sent))
  BY <1>1, FS_Interval
<1>3. IsFiniteSet(SentFor(x))
  BY <1>2, FS_Subset DEF SentFor
<1>. QED BY <1>3, FS_CardinalityType

\* A departure keeps the count of attempts.
LEMMA DepartureKeepsCount ==
    ASSUME TasksInv, FramesInv, AttemptsAreCounted, NEW t \in Tasks, Departure(t)
    PROVE  AttemptsAreCounted'
<1>. DEFINE Now(x) == {n \in 1..Len(sent') : sent'[n] = x}
<1>1. PICK k : Legal(t, k) /\ (Pause(t, k) \/ Again(t, k) \/ Ends(t, k)) /\ sent' = sent
  BY DEF Departure, Departs, Forgets
<1>2. \A x : Now(x) = SentFor(x)
  BY <1>1 DEF SentFor
<1>. HIDE DEF Now
<1>3. \A x : Cardinality(SentFor(x)) \in Nat
  BY SentForFinite DEF FramesInv
<1>4. Cardinality({}) = 0
  BY FS_EmptySet
<1>5. \A x \in Requests : outcome'[x] = "none" => outcome[x] = "none"
  BY <1>1 DEF Pause, Again, Ends, Over, TasksInv, TasksTyped, exchange
<1>6. \A x \in Requests :
          /\ Cardinality(Now(x)) <= Retries + 1
          /\ outcome'[x] = "none" => Now(x) = {}
  BY <1>2, <1>5 DEF AttemptsAreCounted
<1>7. ASSUME NEW u \in Callers, request'[u] # 0
      PROVE  /\ pc'[u] = "queued" => Now(request'[u]) = {}
             /\ pc'[u] \in {"opening", "shaking", "sleeping"} =>
                   Cardinality(Now(request'[u])) <= attempt'
             /\ Cardinality(Now(request'[u])) <= attempt' + 1
  <2>1. attempt \in Nat /\ attempt' \in Nat
    BY Parameters, DepartureKeepsTasks DEF TasksInv, TasksTyped
  <2>2. CASE u = t
    <3>1. request[t] # 0 /\ request'[t] = request[t] /\ pc'[t] # "idle"
      <4>1. ~Ends(t, k)
        BY <1>7, <2>2 DEF Ends, Over, exchange, TasksInv, TasksTyped, Tasks
      <4>. QED
        BY <1>1, <1>7, <2>2, <4>1 DEF Pause, Again, exchange, TasksInv, TasksTyped
    <3>2. Cardinality(SentFor(request[t])) <= attempt + 1
      BY <2>2, <3>1 DEF AttemptsAreCounted
    <3>3. CASE Pause(t, k)
      BY <1>2, <2>2, <3>1, <3>2, <3>3 DEF Pause, exchange, TasksInv, TasksTyped
    <3>4. CASE Again(t, k)
      BY <1>2, <1>3, <2>1, <2>2, <3>1, <3>2, <3>4 DEF Again, TasksInv, TasksTyped
    <3>. QED
      BY <1>1, <1>7, <2>2, <3>1, <3>3, <3>4 DEF Ends, Over, exchange, TasksInv,
         TasksTyped, Tasks
  <2>3. CASE u # t
    <3>1. u \in Tasks /\ request'[u] = request[u] /\ pc'[u] = pc[u]
      BY <2>3, DepartureLeads DEF Tasks
    <3>2. CASE pc[u] = "queued"
      <4>1. SentFor(request[u]) = {}
        BY <1>7, <3>1, <3>2 DEF AttemptsAreCounted
      <4>2. Now(request'[u]) = {} /\ Cardinality(Now(request'[u])) = 0
        BY <1>2, <1>4, <3>1, <4>1
      <4>. QED BY <2>1, <4>2
    <3>3. CASE pc[u] # "queued"
      <4>1. lock = u
        BY <1>7, <3>1, <3>3 DEF TasksInv, LockIsHeld
      <4>2. attempt' = attempt
        BY <1>1, <2>3, <4>1 DEF Legal, InExchange, Pause, Again, Ends, Over,
           exchange, TasksInv, LockIsHeld
      <4>. QED BY <1>2, <1>7, <3>1, <4>2 DEF AttemptsAreCounted
    <3>. QED BY <3>2, <3>3
  <2>. QED BY <2>2, <2>3
<1>. QED BY <1>6, <1>7 DEF AttemptsAreCounted, SentFor, Now

\* No caller departs once main disconnects.
LEMMA CallerKeepsMain ==
    ASSUME TasksInv, MainIsLast, NEW t \in Callers, Departure(t)
    PROVE  MainIsLast'
<1>1. PICK k : Legal(t, k) /\ (Pause(t, k) \/ Again(t, k) \/ Ends(t, k))
  BY DEF Departure, Departs
<1>2. t \in Tasks /\ t # "main" /\ "main" \in Tasks
  BY DEF Tasks, Callers
<1>3. pc["main"] = "idle" /\ session # "over"
  <2>1. pc[t] # "idle" \/ life \in {"up", "failing"}
    BY <1>1, <1>2 DEF Legal, InExchange, TasksInv, Calls
  <2>. QED BY <2>1 DEF MainIsLast
<1>4. pc'["main"] = "idle"
  BY <1>2, <1>3, DepartureLeads
<1>5. session' = session
  BY <1>1, <1>2 DEF Pause, Again, Ends, Over, phase
<1>. QED BY <1>3, <1>4, <1>5 DEF MainIsLast

\* main disconnects once, and that is the end of the session.
LEMMA MainKeepsMain ==
    ASSUME TasksInv, MainIsLast, UNCHANGED toCancel,
           \/ MainDisconnects
           \/ Gathered("main") \/ Closed("main") \/ ClosingRaises("main")
    PROVE  MainIsLast'
<1>. USE DEF TasksInv, TasksTyped
<1>1. "main" \in Tasks /\ "main" \notin Callers /\ Callers \subseteq Tasks
  BY DEF Tasks, Callers
<1>2. call["main"] \in {"none", "disconnect"}
      /\ (pc["main"] # "idle" => call["main"] = "disconnect")
  BY <1>1 DEF Calls
<1>3. request["main"] = 0
  BY <1>1, <1>2 DEF LockIsHeld
<1>4. /\ session = "ending" /\ toCancel = {} /\ life \in {"new", "over"}
      /\ \A t \in Callers : pc[t] = "idle"
  BY <1>1 DEF MainIsLast, MainDisconnects, Gathered, Closed, ClosingRaises, At
<1>5. ASSUME NEW k \in {"none", "disconnect"}, Over("main", k, "failed")
      PROVE  /\ pc' = [pc EXCEPT !["main"] = "idle"]
             /\ life' = life /\ session' = "over"
  BY <1>5 DEF Over
<1>6. ASSUME Close("main", "disconnect", current, pending)
      PROVE  /\ conn' = 0 /\ pending' = Nobody /\ life' = life
             /\ \/ pc' = [pc EXCEPT !["main"] = "closing"] /\ session' = session
                \/ pc' = [pc EXCEPT !["main"] = "idle"] /\ session' = "over"
  BY <1>5, <1>6 DEF Close, Leave, phase
<1>7. CASE MainDisconnects
  <2>1. Disconnect("main", "disconnect", current, pending)
    BY <1>7 DEF MainDisconnects, CallDisconnect
  <2>2. CASE readerTask = 0
    <3>1. Close("main", "disconnect", current, pending) /\ readerTask' = 0
      BY <2>1, <2>2 DEF Disconnect
    <3>. QED BY <1>1, <1>4, <1>6, <3>1 DEF MainIsLast
  <2>3. CASE readerTask # 0
    <3>1. /\ readerTask' = 0 /\ pc' = [pc EXCEPT !["main"] = "gathering"]
          /\ life' = life /\ session' = session
      BY <2>1, <2>3 DEF Disconnect, phase
    <3>. QED BY <1>1, <1>4, <3>1 DEF MainIsLast
  <2>. QED BY <2>2, <2>3
<1>8. CASE Gathered("main")
  <2>1. Close("main", "disconnect", current, pending) /\ readerTask' = readerTask
        /\ readerTask = 0
    BY <1>2, <1>8 DEF Gathered, At, MainIsLast
  <2>. QED BY <1>1, <1>4, <1>6, <2>1 DEF MainIsLast
<1>9. CASE Closed("main") \/ ClosingRaises("main")
  <2>1. /\ Over("main", "disconnect", "failed") /\ UNCHANGED <<conn, pending, readerTask>>
        /\ conn = 0 /\ pending = Nobody /\ readerTask = 0
    BY <1>2, <1>9 DEF Closed, ClosingRaises, Leave, At, MainIsLast
  <2>. QED BY <1>1, <1>4, <1>5, <2>1 DEF MainIsLast
<1>. QED BY <1>7, <1>8, <1>9
-----------------------------------------------------------------------------
\* Division by a positive number: the quotient and its remainder.
LEMMA Quotient ==
  ASSUME NEW n \in Nat, NEW d \in Nat \ {0}
  PROVE  /\ n \div d \in Nat
         /\ n % d \in 0..(d - 1)
         /\ n = d * (n \div d) + (n % d)
  OBVIOUS
\* A larger quotient makes the number larger by the divisor at least.
LEMMA Less ==
  ASSUME NEW p \in Int, NEW q \in Int, NEW w \in Nat, NEW r \in Int, q >= p + 1
  PROVE  w * q + r >= w * p + r + w
<1>1. w * (q - p - 1) \in Nat
  <2>1. q - p - 1 \in Nat OBVIOUS
  <2>. DEFINE z == q - p - 1
  <2>2. \A k \in Nat : w * k \in Nat OBVIOUS
  <2>. QED BY <2>1, <2>2
<1>2. w * (q - p - 1) = w * q - w * p - w
  OBVIOUS
<1>3. w * q \in Int /\ w * p \in Int OBVIOUS
<1>. QED BY <1>1, <1>2, <1>3

\* Frames less than Width apart that share a sequence number are one frame.
LEMMA SameNumber ==
    ASSUME NEW m \in Nat, NEW n \in Nat, m % Width = n % Width,
           m - n < Width, n - m < Width
    PROVE  m = n
<1>1. Width \in Nat \ {0}
  BY Parameters
<1>. DEFINE q == m \div Width
            p == n \div Width
            r == m % Width
<1>2. /\ q \in Nat /\ p \in Nat /\ r \in Nat
      /\ m = Width * q + r /\ n = Width * p + r
  <2>1. q \in Nat /\ r \in 0..(Width - 1) /\ m = Width * q + r
    BY <1>1, Quotient
  <2>2. p \in Nat /\ n = Width * p + (n % Width)
    BY <1>1, Quotient
  <2>3. r \in Nat /\ n % Width = r
    BY <1>1, <2>1
  <2>. HIDE DEF q, p, r
  <2>. QED BY <2>1, <2>2, <2>3
<1>. HIDE DEF q, p, r
<1>3. ASSUME q >= p + 1 PROVE FALSE
  <2>1. Width * q + r >= Width * p + r + Width
    BY <1>1, <1>2, <1>3, Less
  <2>. QED BY <1>1, <1>2, <2>1
<1>4. ASSUME p >= q + 1 PROVE FALSE
  <2>1. Width * p + r >= Width * q + r + Width
    BY <1>1, <1>2, <1>4, Less
  <2>. QED BY <1>1, <1>2, <2>1
<1>5. q = p
  BY <1>2, <1>3, <1>4
<1>. QED BY <1>2, <1>5

\* Every frame has a sequence number.
LEMMA NumberInSequences ==
    ASSUME NEW n \in Nat
    PROVE  n % Width \in Sequences
BY Parameters DEF Sequences

\* What Append returns.
LEMMA AppendFacts ==
    ASSUME NEW S, NEW s \in Seq(S), NEW x \in S
    PROVE  /\ Append(s, x) \in Seq(S)
           /\ Len(s) \in Nat /\ Len(Append(s, x)) = Len(s) + 1
           /\ \A i \in 1..Len(s) : Append(s, x)[i] = s[i]
           /\ Append(s, x)[Len(s) + 1] = x
OBVIOUS

\* The frames that carry y, after one more frame.
LEMMA AppendMore ==
    ASSUME NEW S, NEW s \in Seq(S), NEW x \in S, NEW y
    PROVE  {i \in 1..Len(Append(s, x)) : Append(s, x)[i] = y} =
              {i \in 1..Len(s) : s[i] = y} \cup (IF x = y THEN {Len(s) + 1} ELSE {})
OBVIOUS

\* A function to sets of frames, with one more frame.
LEMMA OneMoreFrame ==
    ASSUME NEW m \in Nat, NEW left \in [Conns -> SUBSET (1..m)], NEW c
    PROVE  /\ left \in [Conns -> SUBSET (1..(m + 1))]
           /\ [left EXCEPT ![c] = @ \cup {m + 1}] \in [Conns -> SUBSET (1..(m + 1))]
<1>1. 1..m \subseteq 1..(m + 1) /\ m + 1 \in 1..(m + 1)
  OBVIOUS
<1>. QED BY <1>1

\* What is sent before a request: nothing, or the end of a negotiation.
LEMMA BeforeFacts ==
    ASSUME FramesTyped, NEW before \in {sent, Append(sent, 0)}
    PROVE  /\ Len(sent) \in Nat /\ Len(before) \in {Len(sent), Len(sent) + 1}
           /\ before \in Seq(Requests \cup {0})
           /\ \A i \in 1..Len(sent) : before[i] = sent[i]
           /\ \A x \in Requests : {i \in 1..Len(before) : before[i] = x} = SentFor(x)
<1>1. sent \in Seq(Requests \cup {0}) /\ 0 \in Requests \cup {0}
  BY DEF FramesTyped
<1>2. \A x \in Requests : x # 0
  BY DEF Requests
<1>3. \A x \in Requests :
        {i \in 1..Len(Append(sent, 0)) : Append(sent, 0)[i] = x} =
            {i \in 1..Len(sent) : sent[i] = x} \cup {}
  BY <1>1, <1>2, AppendMore
<1>. QED BY <1>1, <1>3, AppendFacts DEF SentFor

\* Who sends has the lock.
LEMMA SendKeepsTasks ==
    ASSUME TasksInv, NEW t \in Callers, lock = t, call[t] = "exchange",
           pc' = [pc EXCEPT ![t] = "waiting"], UNCHANGED <<call, exchange, phase>>
    PROVE  TasksInv'
<1>. USE DEF TasksInv, TasksTyped, Callers, Tasks, exchange, phase
<1>1. TasksTyped'
  OBVIOUS
<1>2. Calls'
  BY DEF Calls
<1>3. LockIsHeld'
  BY DEF LockIsHeld
<1>. QED BY <1>1, <1>2, <1>3

\* The frame that is sent is current, newest, and filed under its number.
LEMMA SendKeepsFrames ==
    ASSUME TasksInv, FramesInv, NEW t \in Callers, lock = t, call[t] = "exchange",
           pc[t] # "waiting",
           NEW c, NEW before \in {sent, Append(sent, 0)},
           NEW left \in [Conns -> SUBSET (1..Len(before))],
           SendRequest(t, c, before, left), UNCHANGED <<executed, exchange, session>>
    PROVE  FramesInv'
<1>. DEFINE n == Len(before) + 1
<1>1. /\ sent' = Append(before, request[t])
      /\ pending' = [pending EXCEPT ![n % Width] = n]
      /\ current' = [frame |-> n, reply |-> 0, broken |-> FALSE]
      /\ pc' = [pc EXCEPT ![t] = "waiting"]
      /\ unanswered' \in {left, [left EXCEPT ![c] = @ \cup {n}]}
      /\ call' = call /\ life' = life
  BY DEF SendRequest, NoFrame
<1>2. /\ FramesTyped /\ t \in Tasks
      /\ request[t] \in Requests \cup {0}
  BY DEF FramesInv, TasksInv, TasksTyped, Tasks
<1>3. /\ Len(before) \in Nat /\ Len(sent) \in Nat /\ Len(sent) <= Len(before)
      /\ sent' \in Seq(Requests \cup {0}) /\ Len(sent') = n
      /\ sent'[n] = request[t]
      /\ n \in Nat /\ n % Width \in Sequences
  <2>1. before \in Seq(Requests \cup {0}) /\ Len(sent) \in Nat
        /\ Len(before) \in {Len(sent), Len(sent) + 1}
    BY <1>2, BeforeFacts
  <2>. QED BY <1>1, <1>2, <2>1, AppendFacts, NumberInSequences
<1>4. /\ unanswered' \in [Conns -> SUBSET (1..n)]
  BY <1>1, <1>3, OneMoreFrame
<1>. HIDE DEF n
<1>5. FramesTyped'
  <2>1. pending' \in [Sequences -> 0..n]
    BY <1>1, <1>2, <1>3 DEF FramesTyped, n
  <2>2. current' \in [frame : 0..n, reply : 0..n, broken : BOOLEAN]
    BY <1>1, <1>3
  <2>3. executed' \subseteq 1..n
    BY <1>2, <1>3 DEF FramesTyped, n
  <2>. QED BY <1>3, <1>4, <2>1, <2>2, <2>3 DEF FramesTyped, Frames
<1>6. FrameIsCurrent'
  <2>1. current'.frame = n /\ n # 0
    BY <1>1, <1>3 DEF n
  <2>2. lock' = t /\ pc'[t] = "waiting" /\ sent'[n] = request'[t]
    BY <1>1, <1>2, <1>3 DEF exchange, TasksInv, TasksTyped
  <2>. QED BY <2>1, <2>2 DEF FrameIsCurrent
<1>7. FiledUnderItsNumber'
  BY <1>1, <1>2 DEF FramesTyped, FramesInv, FiledUnderItsNumber
<1>8. FrameIsRecent' /\ ReplyIsOwn' /\ ReplyWasExecuted'
  <2>1. current'.frame = n /\ current'.reply = 0 /\ Len(sent') - n = 0
    BY <1>1, <1>3
  <2>. QED BY <1>3, <2>1 DEF FrameIsRecent, ReplyIsOwn, ReplyWasExecuted
<1>. QED BY <1>5, <1>6, <1>7, <1>8 DEF FramesInv

\* Each attempt sends one frame.
LEMMA SendKeepsCount ==
    ASSUME TasksInv, FramesInv, AttemptsAreCounted, NEW t \in Callers, lock = t,
           call[t] = "exchange", pc[t] \in {"queued", "sleeping", "opening", "shaking"},
           NEW c, NEW before \in {sent, Append(sent, 0)}, NEW left,
           SendRequest(t, c, before, left), UNCHANGED <<exchange, session>>
    PROVE  AttemptsAreCounted'
<1>. DEFINE Now(x) == {i \in 1..Len(sent') : sent'[i] = x}
            n == Len(before) + 1
            z == request[t]
<1>1. /\ sent' = Append(before, z)
      /\ pc' = [pc EXCEPT ![t] = "waiting"]
      /\ lock' = lock /\ request' = request /\ attempt' = attempt /\ outcome' = outcome
  BY DEF SendRequest, exchange
<1>2. /\ FramesTyped /\ t \in Tasks /\ z \in Requests /\ z # 0
      /\ outcome[z] = "asked" /\ attempt \in 0..Retries
  BY DEF FramesInv, TasksInv, TasksTyped, Tasks, LockIsHeld
<1>3. \A x \in Requests : Now(x) = SentFor(x) \cup (IF z = x THEN {n} ELSE {})
  <2>1. before \in Seq(Requests \cup {0})
        /\ \A x \in Requests : {i \in 1..Len(before) : before[i] = x} = SentFor(x)
    BY <1>2, BeforeFacts
  <2>. QED BY <1>1, <1>2, <2>1, AppendMore
<1>. HIDE DEF Now
<1>4. Cardinality(SentFor(z)) \in Nat /\ Cardinality(SentFor(z)) <= attempt
  <2>1. CASE pc[t] = "queued"
    <3>1. SentFor(z) = {}
      BY <1>2, <2>1 DEF AttemptsAreCounted
    <3>. QED BY <1>2, <3>1, FS_EmptySet
  <2>2. CASE pc[t] # "queued"
    BY <1>2, <2>2, SentForFinite DEF AttemptsAreCounted, Requests
  <2>. QED BY <2>1, <2>2
<1>5. Cardinality(Now(z)) <= attempt + 1
  <2>1. IsFiniteSet(SentFor(z)) /\ Now(z) = SentFor(z) \cup {n}
    BY <1>2, <1>3, SentForFinite
  <2>2. Cardinality(Now(z)) \in {Cardinality(SentFor(z)), Cardinality(SentFor(z)) + 1}
    BY <2>1, FS_AddElement
  <2>. QED BY <1>2, <1>4, <2>2
<1>6. \A x \in Requests \ {z} : Now(x) = SentFor(x)
  BY <1>3
<1>7. \A x \in Requests :
          /\ Cardinality(Now(x)) <= Retries + 1
          /\ outcome'[x] = "none" => Now(x) = {}
  <2>1. Cardinality(Now(z)) <= Retries + 1
    <3>1. Cardinality(Now(z)) \in Nat
      <4>1. Now(z) = SentFor(z) \cup {n} /\ IsFiniteSet(SentFor(z))
        BY <1>2, <1>3, SentForFinite
      <4>2. IsFiniteSet(Now(z))
        BY <4>1, FS_AddElement
      <4>. QED BY <4>2, FS_CardinalityType
    <3>. QED BY <1>2, <1>5, <3>1, Parameters
  <2>. QED BY <1>1, <1>2, <1>6, <2>1 DEF AttemptsAreCounted
<1>8. ASSUME NEW u \in Callers, request'[u] # 0
      PROVE  /\ pc'[u] = "queued" => Now(request'[u]) = {}
             /\ pc'[u] \in {"opening", "shaking", "sleeping"} =>
                   Cardinality(Now(request'[u])) <= attempt'
             /\ Cardinality(Now(request'[u])) <= attempt' + 1
  <2>1. CASE u = t
    BY <1>1, <1>2, <1>5, <2>1 DEF TasksInv, TasksTyped
  <2>2. CASE u # t
    <3>1. u \in Tasks /\ request[u] \in Requests /\ request[u] # z /\ pc'[u] = pc[u]
      BY <1>1, <1>2, <1>8, <2>2 DEF TasksInv, TasksTyped, LockIsHeld, Tasks
    <3>2. Now(request[u]) = SentFor(request[u])
      BY <1>6, <3>1
    <3>. QED BY <1>1, <1>8, <3>1, <3>2 DEF AttemptsAreCounted
  <2>. QED BY <2>1, <2>2
<1>. QED BY <1>7, <1>8 DEF AttemptsAreCounted, SentFor, Now

-----------------------------------------------------------------------------
\* A step that sends no request, but may send a part of a negotiation.
Draws ==
    /\ sent' \in {sent, Append(sent, 0)}
    /\ UNCHANGED <<pending, current, executed>>
    /\ unanswered' \in [Conns -> SUBSET (1..Len(sent'))]

\* The task that draws goes on to w.
Goes(t, w) ==
    /\ t \in Callers
    /\ pc' = [pc EXCEPT ![t] = w]
    /\ \/ /\ lock = t /\ pc[t] \in {"queued", "sleeping"} /\ w = "opening"
          /\ sent' = sent /\ UNCHANGED <<call, life>>
       \/ /\ t = "publisher" /\ pc[t] = "idle" /\ life = "new" /\ w = "opening"
          /\ sent' = sent /\ call' = [call EXCEPT ![t] = "connect"] /\ life' = life
       \/ /\ pc[t] = "opening" /\ w = "shaking" /\ UNCHANGED <<call, life>>
       \/ /\ call[t] = "connect" /\ w = "idle" /\ life' = "up"
          /\ pc[t] = "shaking" \/ (pc[t] = "opening" /\ sent' = sent)
          /\ call' = [call EXCEPT ![t] = "none"]
    /\ UNCHANGED <<exchange, session>>

\* On the way to its connection a task keeps its request and its lock.
LEMMA GoingKeepsTasks ==
    ASSUME TasksInv, NEW t, NEW w, Goes(t, w)
    PROVE  TasksInv'
<1>. USE DEF TasksInv, TasksTyped, Callers, Tasks, exchange
<1>1. TasksTyped'
  BY DEF Goes
<1>2. Calls'
  BY DEF Calls, LockIsHeld, Goes
<1>3. LockIsHeld'
  BY DEF Calls, LockIsHeld, Goes
<1>. QED BY <1>1, <1>2, <1>3

\* The publisher's negotiation draws two numbers while a frame waits, and an
\* exchange's none.
LEMMA DrawingKeepsFrames ==
    ASSUME TasksInv, FramesInv, NEW t, NEW w, Goes(t, w), Draws
    PROVE  FramesInv'
<1>1. /\ FramesTyped /\ Len(sent) \in Nat
      /\ current.frame \in 0..Len(sent) /\ current.reply \in 0..Len(sent)
  BY DEF FramesInv, FramesTyped, Frames
<1>2. /\ Len(sent') \in {Len(sent), Len(sent) + 1}
      /\ sent' = sent \/ Len(sent') = Len(sent) + 1
      /\ sent' \in Seq(Requests \cup {0})
      /\ \A i \in 1..Len(sent) : sent'[i] = sent[i]
  <2>1. CASE sent' = sent
    BY <1>1, <2>1 DEF FramesTyped
  <2>2. CASE sent' = Append(sent, 0)
    BY <1>1, <2>2, AppendFacts DEF FramesTyped
  <2>. QED BY <2>1, <2>2 DEF Draws
<1>3. FramesTyped'
  BY <1>1, <1>2 DEF FramesTyped, Frames, Draws
<1>4. t \in Callers /\ t \in Tasks /\ pc[t] # "waiting" /\ pc'[t] # "waiting"
      /\ request' = request /\ lock' = lock
  BY DEF Goes, TasksInv, TasksTyped, Calls, Tasks, exchange
<1>5. FrameIsCurrent'
  <2>1. \A u \in Tasks : pc'[u] = "waiting" <=> pc[u] = "waiting"
    BY <1>4 DEF Goes, TasksInv, TasksTyped
  <2>2. current.frame # 0 => sent'[current.frame] = sent[current.frame]
    BY <1>1, <1>2
  <2>. QED BY <1>4, <2>1, <2>2 DEF FramesInv, FrameIsCurrent, Draws, Tasks
<1>6. FiledUnderItsNumber' /\ ReplyIsOwn' /\ ReplyWasExecuted'
  BY DEF FramesInv, FiledUnderItsNumber, ReplyIsOwn, ReplyWasExecuted, Draws
<1>7. FrameIsRecent'
  <2>1. SUFFICES ASSUME current.frame # 0
                 PROVE  FrameIsRecent'
    BY DEF FrameIsRecent, Draws
  <2>2. t = "publisher" /\ call[t] \in {"none", "connect"}
    <3>1. lock # t
      BY <1>4, <2>1 DEF FramesInv, FrameIsCurrent
    <3>. QED BY <1>4, <3>1 DEF Goes, TasksInv, Calls, LockIsHeld, Callers
  <2>3. FrameIsRecent /\ current' = current
    BY DEF FramesInv, Draws
  <2>4. life = "new" \/ call[t] = "none"
    BY <2>2 DEF TasksInv, Calls
  <2>5. CASE pc[t] = "idle"
    BY <1>1, <1>2, <2>1, <2>2, <2>3, <2>5 DEF Goes, FrameIsRecent, TasksInv,
       TasksTyped, Calls
  <2>6. CASE pc[t] = "opening"
    BY <1>1, <1>2, <1>4, <2>1, <2>2, <2>3, <2>4, <2>6 DEF Goes, FrameIsRecent,
       TasksInv, TasksTyped, Calls
  <2>7. CASE pc[t] = "shaking"
    BY <1>1, <1>2, <1>4, <2>1, <2>2, <2>3, <2>7 DEF Goes, FrameIsRecent, TasksInv,
       TasksTyped, Calls
  <2>8. pc[t] \in {"idle", "opening", "shaking"}
    BY <1>4, <2>2 DEF Goes, TasksInv, Calls
  <2>. QED BY <2>5, <2>6, <2>7, <2>8
<1>. QED BY <1>3, <1>5, <1>6, <1>7 DEF FramesInv

\* A negotiation is no attempt.
LEMMA DrawingKeepsCount ==
    ASSUME TasksInv, FramesInv, AttemptsAreCounted, NEW t, NEW w, Goes(t, w), Draws
    PROVE  AttemptsAreCounted'
<1>. DEFINE Now(x) == {i \in 1..Len(sent') : sent'[i] = x}
<1>1. \A x \in Requests : Now(x) = SentFor(x)
  BY BeforeFacts DEF Draws, FramesInv
<1>. HIDE DEF Now
<1>2. /\ t \in Callers /\ t \in Tasks /\ attempt' = attempt /\ request' = request
      /\ outcome' = outcome
      /\ pc'[t] \in {"opening", "shaking", "idle"}
      /\ \A u \in Callers \ {t} : pc'[u] = pc[u]
      /\ pc'[t] = "idle" => request[t] = 0
      /\ attempt \in Nat
  BY Parameters DEF Goes, TasksInv, TasksTyped, Tasks, LockIsHeld, exchange
<1>3. \A x \in Requests :
          /\ Cardinality(Now(x)) <= Retries + 1
          /\ outcome'[x] = "none" => Now(x) = {}
  BY <1>1, <1>2 DEF AttemptsAreCounted
<1>4. ASSUME NEW u \in Callers, request'[u] # 0
      PROVE  /\ pc'[u] = "queued" => Now(request'[u]) = {}
             /\ pc'[u] \in {"opening", "shaking", "sleeping"} =>
                   Cardinality(Now(request'[u])) <= attempt'
             /\ Cardinality(Now(request'[u])) <= attempt' + 1
  <2>1. Now(request'[u]) = SentFor(request[u]) /\ request[u] # 0
    BY <1>1, <1>2, <1>4 DEF TasksInv, TasksTyped, Tasks
  <2>2. CASE u = t
    <3>1. Cardinality(SentFor(request[t])) <= attempt
      <4>1. CASE pc[t] = "queued"
        <5>1. SentFor(request[t]) = {}
          BY <2>1, <2>2, <4>1 DEF AttemptsAreCounted
        <5>. QED BY <1>2, <5>1, FS_EmptySet
      <4>2. CASE pc[t] # "queued"
        <5>1. pc[t] \in {"sleeping", "opening", "shaking"}
          BY <1>2, <2>1, <2>2, <4>2 DEF Goes, TasksInv, LockIsHeld, Calls
        <5>. QED BY <2>1, <2>2, <5>1 DEF AttemptsAreCounted
      <4>. QED BY <4>1, <4>2
    <3>2. Cardinality(SentFor(request[t])) \in Nat
      BY SentForFinite DEF FramesInv
    <3>. QED BY <1>2, <2>1, <2>2, <3>1, <3>2
  <2>3. CASE u # t
    BY <1>2, <2>1, <2>3 DEF AttemptsAreCounted
  <2>. QED BY <2>2, <2>3
<1>. QED BY <1>3, <1>4 DEF AttemptsAreCounted, SentFor, Now
-----------------------------------------------------------------------------
\* The invariant of the tasks and their frames.
ExchangeInv == TasksInv /\ FramesInv /\ AttemptsAreCounted

\* The steps towards a connection keep it,
LEMMA GoingKeeps ==
    ASSUME ExchangeInv, NEW t, NEW w, Goes(t, w), Draws
    PROVE  ExchangeInv'
BY GoingKeepsTasks, DrawingKeepsFrames, DrawingKeepsCount DEF ExchangeInv

\* and so does sending a request,
LEMMA SendingKeeps ==
    ASSUME ExchangeInv, NEW t \in Callers, lock = t, call[t] = "exchange",
           pc[t] \in {"queued", "sleeping", "opening", "shaking"},
           NEW c, NEW before \in {sent, Append(sent, 0)},
           NEW left \in [Conns -> SUBSET (1..Len(before))],
           SendRequest(t, c, before, left), UNCHANGED <<executed, exchange, session>>
    PROVE  ExchangeInv'
<1>1. TasksInv'
  BY SendKeepsTasks DEF ExchangeInv, SendRequest, phase
<1>2. FramesInv'
  BY SendKeepsFrames DEF ExchangeInv
<1>3. AttemptsAreCounted'
  BY SendKeepsCount DEF ExchangeInv
<1>. QED BY <1>1, <1>2, <1>3 DEF ExchangeInv

\* and what follows a connect.
LEMMA ConnectedKeeps ==
    ASSUME ExchangeInv, NEW t \in Callers, pc[t] \in {"opening", "shaking"},
           NEW c, NEW before \in {sent, Append(sent, 0)},
           pc[t] = "opening" => before = sent,
           NEW left \in [Conns -> SUBSET (1..Len(before))],
           Connected(t, c, before, left), UNCHANGED <<executed, exchange, session>>
    PROVE  ExchangeInv'
<1>1. t \in Tasks /\ call[t] \in {"exchange", "connect"}
  BY DEF ExchangeInv, TasksInv, Calls, Tasks
<1>2. CASE call[t] = "exchange"
  <2>1. lock = t
    BY <1>1, <1>2 DEF ExchangeInv, TasksInv, LockIsHeld
  <2>. QED BY <1>2, <2>1, SendingKeeps DEF Connected
<1>3. CASE call[t] = "connect"
  <2>1. Goes(t, "idle")
    BY <1>3 DEF Goes, Connected
  <2>2. Draws
    BY <1>3 DEF Draws, Connected
  <2>. QED BY <2>1, <2>2, GoingKeeps
<1>. QED BY <1>1, <1>2, <1>3

\* The actions of a caller, one by one: the begin of an attempt,
LEMMA AttemptKeeps ==
    ASSUME ExchangeInv, NEW t \in Callers, Attempt(t)
    PROVE  ExchangeInv'
<1>1. /\ t \in Tasks /\ pc[t] \in {"queued", "sleeping"} /\ call[t] = "exchange" /\ lock = t
      /\ UNCHANGED <<executed, exchange, session>>
  BY DEF Attempt, At, ExchangeInv, TasksInv, Calls, Tasks
<1>2. unanswered \in [Conns -> SUBSET (1..Len(sent))]
  BY DEF ExchangeInv, FramesInv, FramesTyped
<1>3. CASE Usable
  BY <1>1, <1>2, <1>3, SendingKeeps DEF Attempt
<1>4. CASE ~Usable
  <2>1. Goes(t, "opening") /\ Draws
    BY <1>1, <1>2, <1>4 DEF Attempt, Goes, Draws
  <2>. QED BY <2>1, GoingKeeps
<1>. QED BY <1>3, <1>4

\* a connection that opens,
LEMMA OpenedKeeps ==
    ASSUME ExchangeInv, NEW t \in Callers, NEW c \in Conns, Opened(t, c)
    PROVE  ExchangeInv'
<1>1. pc[t] = "opening" /\ UNCHANGED <<executed, exchange, session>>
  BY DEF Opened, At
<1>2. unanswered \in [Conns -> SUBSET (1..Len(sent))] /\ sent \in Seq(Requests \cup {0})
  BY DEF ExchangeInv, FramesInv, FramesTyped
<1>3. CASE protocol = "3.4"
  <2>1. sent' = Append(sent, 0) /\ Len(sent) \in Nat /\ Len(sent') = Len(sent) + 1
    BY <1>2, <1>3, AppendFacts DEF Opened
  <2>2. unanswered' = [unanswered EXCEPT ![c] = {Len(sent) + 1}]
    BY <1>3 DEF Opened
  <2>3. unanswered' \in [Conns -> SUBSET (1..Len(sent'))]
    <3>1. unanswered \in [Conns -> SUBSET (1..(Len(sent) + 1))]
      BY <1>2, <2>1, OneMoreFrame
    <3>. QED BY <2>1, <2>2, <3>1
  <2>4. Goes(t, "shaking")
    BY <1>1, <1>3 DEF Opened, Goes
  <2>5. Draws
    BY <1>1, <1>3, <2>1, <2>3 DEF Opened, Draws
  <2>. QED BY <2>4, <2>5, GoingKeeps
<1>4. CASE protocol # "3.4"
  <2>1. Connected(t, c, sent, unanswered)
    BY <1>4 DEF Opened
  <2>. QED BY <1>1, <1>2, <2>1, ConnectedKeeps
<1>. QED BY <1>3, <1>4

\* a negotiation that succeeds,
LEMMA ShakenKeeps ==
    ASSUME ExchangeInv, NEW t \in Callers, NEW n, Shaken(t, n), Usable
    PROVE  ExchangeInv'
<1>1. /\ pc[t] = "shaking" /\ UNCHANGED <<executed, exchange, session>>
      /\ Connected(t, conn, Append(sent, 0), Without(shake[t], n))
  BY DEF Shaken, At
<1>2. unanswered \in [Conns -> SUBSET (1..Len(sent))] /\ sent \in Seq(Requests \cup {0})
  BY DEF ExchangeInv, FramesInv, FramesTyped
<1>3. Without(shake[t], n) \in [Conns -> SUBSET (1..Len(sent))]
  BY <1>2 DEF Without
<1>4. Len(sent) \in Nat /\ Len(Append(sent, 0)) = Len(sent) + 1
  BY <1>2, AppendFacts
<1>5. Without(shake[t], n) \in [Conns -> SUBSET (1..Len(Append(sent, 0)))]
  BY <1>3, <1>4, OneMoreFrame
<1>. QED BY <1>1, <1>5, ConnectedKeeps

\* the publisher's connect,
LEMMA ConnectKeeps ==
    ASSUME ExchangeInv, Connect
    PROVE  ExchangeInv'
<1>1. /\ pc["publisher"] = "idle" /\ life = "new" /\ "publisher" \in Callers
      /\ UNCHANGED <<sent, pending, current, executed, unanswered, exchange, session>>
  BY DEF Connect, At, Callers, device
<1>2. unanswered \in [Conns -> SUBSET (1..Len(sent))]
  BY DEF ExchangeInv, FramesInv, FramesTyped
<1>3. CASE Usable
  <2>1. life' = "up" /\ UNCHANGED <<pc, call>>
    BY <1>3 DEF Connect
  <2>2. TasksInv'
    <3>1. TasksTyped' /\ LockIsHeld'
      BY <1>1, <2>1 DEF ExchangeInv, TasksInv, TasksTyped, LockIsHeld, exchange
    <3>2. call["publisher"] = "none"
      BY <1>1 DEF ExchangeInv, TasksInv, Calls, Tasks
    <3>3. (CASE life' = "new" -> call'["publisher"] \in {"none", "connect"}
             [] life' = "up" -> call'["publisher"] # "connect"
             [] life' = "failing" -> call'["publisher"] \in {"none", "disconnect"}
             [] OTHER -> call'["publisher"] = "none")
      BY <2>1, <3>2
    <3>. QED BY <2>1, <3>1, <3>3 DEF ExchangeInv, TasksInv, Calls
  <2>3. FramesInv'
    <3>1. FrameIsRecent'
      BY <1>1, <2>1 DEF ExchangeInv, FramesInv, FrameIsRecent
    <3>. QED
      BY <1>1, <2>1, <3>1 DEF ExchangeInv, FramesInv, FramesTyped, Frames,
         FrameIsCurrent, FiledUnderItsNumber, ReplyIsOwn, ReplyWasExecuted, exchange
  <2>4. AttemptsAreCounted'
    BY <1>1, <2>1 DEF ExchangeInv, AttemptsAreCounted, SentFor, exchange
  <2>. QED BY <2>2, <2>3, <2>4 DEF ExchangeInv
<1>4. CASE ~Usable
  <2>1. Goes("publisher", "opening") /\ Draws
    BY <1>1, <1>2, <1>4 DEF Connect, Goes, Draws
  <2>. QED BY <2>1, GoingKeeps
<1>. QED BY <1>3, <1>4

\* and a new request, which nobody has asked or sent before.
LEMMA AskKeeps ==
    ASSUME ExchangeInv, NEW t \in Callers, Ask(t)
    PROVE  ExchangeInv'
<1>1. PICK x \in Requests :
        /\ outcome[x] = "none"
        /\ request' = [request EXCEPT ![t] = x]
        /\ outcome' = [outcome EXCEPT ![x] = "asked"]
  BY DEF Ask, NextRequest
<1>2. /\ pc[t] = "idle" /\ t \in Tasks /\ x # 0
      /\ t = "publisher" => life = "up"
      /\ pc' = [pc EXCEPT ![t] = "queued"]
      /\ call' = [call EXCEPT ![t] = "exchange"]
      /\ lock' = IF lock = "nobody" THEN t ELSE lock
      /\ UNCHANGED <<sent, pending, current, executed, unanswered, attempt, phase>>
  BY DEF Ask, At, Tasks, Requests, device
<1>. USE DEF ExchangeInv
<1>3. TasksInv'
  <2>. USE <1>1, <1>2 DEF TasksInv, TasksTyped, Callers, Tasks, phase
  <2>1. TasksTyped'
    OBVIOUS
  <2>2. Calls'
    BY DEF Calls
  <2>3. LockIsHeld'
    BY DEF Calls, LockIsHeld
  <2>. QED BY <2>1, <2>2, <2>3
<1>4. lock # "nobody" => lock' = lock /\ lock # t
  BY <1>2 DEF TasksInv, TasksTyped, LockIsHeld, Calls, Tasks
<1>5. FramesInv'
  <2>1. FramesTyped' /\ FiledUnderItsNumber' /\ ReplyIsOwn' /\ ReplyWasExecuted'
    BY <1>2 DEF FramesInv, FramesTyped, Frames, FiledUnderItsNumber, ReplyIsOwn,
       ReplyWasExecuted
  <2>2. FrameIsCurrent'
    <3>1. \A u \in Tasks : pc'[u] = "waiting" <=> pc[u] = "waiting"
      BY <1>2 DEF TasksInv, TasksTyped
    <3>2. ASSUME NEW u \in Callers, lock = u, pc[u] = "waiting"
          PROVE  lock' = u /\ request'[u] = request[u]
      BY <1>1, <1>2, <1>4, <3>2 DEF TasksInv, TasksTyped, Tasks, Callers
    <3>. QED BY <1>2, <3>1, <3>2 DEF FramesInv, FrameIsCurrent, Tasks
  <2>3. FrameIsRecent'
    BY <1>2 DEF FramesInv, FrameIsRecent, TasksInv, TasksTyped, phase, Callers, Tasks
  <2>. QED BY <2>1, <2>2, <2>3 DEF FramesInv
<1>6. AttemptsAreCounted'
  <2>. DEFINE Now(y) == {i \in 1..Len(sent') : sent'[i] = y}
  <2>1. \A y \in Requests : Now(y) = SentFor(y)
    BY <1>2 DEF SentFor
  <2>. HIDE DEF Now
  <2>2. SentFor(x) = {} /\ Cardinality(SentFor(x)) = 0 /\ attempt \in Nat
    <3>1. SentFor(x) = {}
      BY <1>1 DEF AttemptsAreCounted
    <3>2. attempt \in Nat
      BY Parameters DEF TasksInv, TasksTyped
    <3>. QED BY <3>1, <3>2, FS_EmptySet
  <2>3. \A y \in Requests :
          /\ Cardinality(Now(y)) <= Retries + 1
          /\ outcome'[y] = "none" => Now(y) = {}
    BY <1>1, <2>1 DEF AttemptsAreCounted, TasksInv, TasksTyped
  <2>4. ASSUME NEW u \in Callers, request'[u] # 0
        PROVE  /\ pc'[u] = "queued" => Now(request'[u]) = {}
               /\ pc'[u] \in {"opening", "shaking", "sleeping"} =>
                     Cardinality(Now(request'[u])) <= attempt'
               /\ Cardinality(Now(request'[u])) <= attempt' + 1
    <3>1. CASE u = t
      <4>1. Now(request'[u]) = SentFor(x) /\ attempt' = attempt /\ pc'[u] = "queued"
        BY <1>1, <1>2, <2>1, <3>1 DEF TasksInv, TasksTyped
      <4>. QED BY <2>2, <4>1
    <3>2. CASE u # t
      <4>1. u \in Tasks /\ request'[u] = request[u] /\ request[u] \in Requests
            /\ pc'[u] = pc[u] /\ attempt' = attempt
        BY <1>1, <1>2, <2>4, <3>2 DEF TasksInv, TasksTyped, Tasks
      <4>2. Now(request'[u]) = SentFor(request[u])
        BY <2>1, <4>1
      <4>. QED BY <2>4, <4>1, <4>2 DEF AttemptsAreCounted
    <3>. QED BY <3>1, <3>2
  <2>. QED BY <2>3, <2>4 DEF AttemptsAreCounted, SentFor, Now
<1>. QED BY <1>3, <1>5, <1>6
-----------------------------------------------------------------------------
\* The readers, the device and the network change nothing about the tasks.
Outside == UNCHANGED <<sent, pc, call, exchange, phase>>

\* What leaves the frames in order keeps the rest.
LEMMA OutsideKeeps ==
    ASSUME ExchangeInv, Outside, FramesInv'
    PROVE  ExchangeInv'
<1>1. TasksInv'
  BY DEF ExchangeInv, Outside, TasksInv, TasksTyped, Calls, LockIsHeld, exchange, phase
<1>2. AttemptsAreCounted'
  BY DEF ExchangeInv, Outside, AttemptsAreCounted, SentFor, exchange
<1>. QED BY <1>1, <1>2 DEF ExchangeInv

\* A reader that fails every pending request, or does nothing to them.
LEMMA FailingKeeps ==
    ASSUME ExchangeInv, Outside, UNCHANGED executed,
           unanswered' \in [Conns -> SUBSET (1..Len(sent))],
           \/ UNCHANGED <<pending, current>>
           \/ pending' = Nobody /\ current' = Failed(current, pending)
    PROVE  ExchangeInv'
<1>1. FramesTyped /\ current \in Frames /\ Len(sent) \in Nat
  BY DEF ExchangeInv, FramesInv, FramesTyped
<1>2. /\ current' \in Frames
      /\ current'.frame = current.frame /\ current'.reply = current.reply
  BY <1>1, FailedFacts, BrokenFacts DEF Frames
<1>3. /\ pending' \in [Sequences -> 0..Len(sent)]
      /\ \A s \in Sequences : pending'[s] \in {0, pending[s]}
  BY <1>1 DEF Nobody, FramesTyped
<1>4. FramesTyped'
  BY <1>1, <1>2, <1>3 DEF FramesTyped, Frames, Outside
<1>5. FrameIsCurrent' /\ FrameIsRecent'
  BY <1>2 DEF ExchangeInv, FramesInv, FrameIsCurrent, FrameIsRecent, Outside,
     exchange, phase
<1>6. FiledUnderItsNumber'
  BY <1>3 DEF ExchangeInv, FramesInv, FiledUnderItsNumber
<1>7. ReplyIsOwn' /\ ReplyWasExecuted'
  BY <1>2 DEF ExchangeInv, FramesInv, ReplyIsOwn, ReplyWasExecuted
<1>8. FramesInv'
  BY <1>4, <1>5, <1>6, <1>7 DEF FramesInv
<1>. QED BY <1>8, OutsideKeeps

\* A frame with a reply.
LEMMA ReplyFacts ==
    ASSUME NEW m, NEW now \in [frame : 0..m, reply : 0..m, broken : BOOLEAN], NEW n \in 0..m
    PROVE  /\ [now EXCEPT !.reply = n] \in [frame : 0..m, reply : 0..m, broken : BOOLEAN]
           /\ [now EXCEPT !.reply = n].frame = now.frame
           /\ [now EXCEPT !.reply = n].reply = n
OBVIOUS

\* The device may carry out a frame whose answer nobody reads.
LEMMA CarryingKeepsFrames ==
    ASSUME FramesInv, Outside, NEW n \in 1..Len(sent),
           executed' \in {executed, executed \cup {n}},
           unanswered' \in [Conns -> SUBSET (1..Len(sent))], UNCHANGED <<pending, current>>
    PROVE  FramesInv'
<1>1. FramesTyped'
  BY DEF FramesInv, FramesTyped, Frames, Outside
<1>. QED BY <1>1 DEF FramesInv, FrameIsCurrent, FiledUnderItsNumber, FrameIsRecent,
                     ReplyIsOwn, ReplyWasExecuted, Outside, exchange, phase

\* The device carries out a frame sent on a connection that is over.
LEMMA CarriesOutKeeps ==
    ASSUME ExchangeInv, NEW c \in Conns, NEW n \in 1..Len(sent), CarriesOut(c, n)
    PROVE  ExchangeInv'
<1>1. Outside /\ UNCHANGED <<pending, current>> /\ executed' = executed \cup {n}
      /\ unanswered' = Without(c, n)
  BY DEF CarriesOut, Outside
<1>2. unanswered' \in [Conns -> SUBSET (1..Len(sent))]
  BY <1>1 DEF ExchangeInv, FramesInv, FramesTyped, Without
<1>3. FramesInv'
  BY <1>1, <1>2, CarryingKeepsFrames DEF ExchangeInv
<1>. QED BY <1>1, <1>3, OutsideKeeps

\* The reply given to the current frame is its own.
LEMMA DeliveredIsOwn ==
    ASSUME ExchangeInv, NEW n \in 1..Len(sent), Recent(n),
           current.frame # 0, pending[n % Width] = current.frame
    PROVE  current.frame = n /\ sent[n] # 0
<1>1. /\ Len(sent) \in Nat /\ n \in Nat /\ current.frame \in 0..Len(sent)
      /\ current.frame \in Nat
  BY DEF ExchangeInv, FramesInv, FramesTyped, Frames
<1>2. n % Width \in Sequences
  BY <1>1, NumberInSequences
<1>3. current.frame % Width = n % Width
  BY <1>2 DEF ExchangeInv, FramesInv, FiledUnderItsNumber
<1>4. current.frame - n < Width /\ n - current.frame < Width
  BY <1>1, Parameters DEF ExchangeInv, FramesInv, FrameIsRecent, Recent
<1>5. current.frame = n
  BY <1>1, <1>3, <1>4, SameNumber
<1>6. sent[current.frame] # 0
  BY  DEF ExchangeInv, FramesInv, FrameIsCurrent, TasksInv, TasksTyped, LockIsHeld,
     Callers, Tasks
<1>. QED BY <1>5, <1>6

\* A reply is given to the frame it answers, or to none.
LEMMA ReadsReplyKeeps ==
    ASSUME ExchangeInv, NEW r \in Conns, NEW n \in 1..Len(sent), ReadsReply(r, n)
    PROVE  ExchangeInv'
<1>1. /\ Outside /\ Recent(n) /\ Deliver(n) /\ unanswered' = Without(stream[r], n)
      /\ executed' = IF sent[n] = 0 THEN executed ELSE executed \cup {n}
  BY DEF ReadsReply, Outside
<1>2. /\ FramesTyped /\ Len(sent) \in Nat
      /\ unanswered' \in [Conns -> SUBSET (1..Len(sent))]
      /\ executed' \subseteq 1..Len(sent) /\ executed \subseteq executed'
  <2>1. FramesTyped /\ Len(sent) \in Nat
    BY DEF ExchangeInv, FramesInv, FramesTyped
  <2>2. unanswered' \in [Conns -> SUBSET (1..Len(sent))]
    BY <1>1, <2>1 DEF FramesTyped, Without
  <2>3. executed' \subseteq 1..Len(sent) /\ executed \subseteq executed'
    BY <1>1, <2>1 DEF FramesTyped
  <2>. QED BY <2>1, <2>2, <2>3
<1>3. /\ pending' \in [Sequences -> 0..Len(sent)]
      /\ \A s \in Sequences : pending'[s] \in {0, pending[s]}
  BY <1>1, <1>2, OneForgotten DEF Deliver, FramesTyped
<1>4. /\ current' \in Frames /\ current'.frame = current.frame
      /\ current'.reply \in {0, current.frame}
      /\ current'.reply # 0 => current'.reply \in executed'
  <2>1. CASE current' = current
    BY <1>2, <2>1 DEF ExchangeInv, FramesInv, FramesTyped, ReplyIsOwn, ReplyWasExecuted
  <2>2. CASE current' # current
    <3>1. /\ pending[n % Width] = current.frame /\ current.frame # 0
          /\ current' = [current EXCEPT !.reply = n]
      BY <1>1, <2>2 DEF Deliver
    <3>2. current.frame = n /\ sent[n] # 0
      BY <1>1, <3>1, DeliveredIsOwn
    <3>3. current' \in Frames /\ current'.frame = n /\ current'.reply = n
      BY <1>2, <3>1, <3>2, ReplyFacts DEF FramesTyped, Frames
    <3>. QED BY <1>1, <3>2, <3>3
  <2>. QED BY <2>1, <2>2
<1>5. FramesTyped'
  BY <1>1, <1>2, <1>3, <1>4 DEF FramesTyped, Frames, Outside
<1>6. FrameIsCurrent' /\ FrameIsRecent'
  BY <1>1, <1>4 DEF ExchangeInv, FramesInv, FrameIsCurrent, FrameIsRecent, Outside,
     exchange, phase
<1>7. FiledUnderItsNumber'
  BY <1>3 DEF ExchangeInv, FramesInv, FiledUnderItsNumber
<1>8. ReplyIsOwn' /\ ReplyWasExecuted'
  BY <1>4 DEF ReplyIsOwn, ReplyWasExecuted
<1>9. FramesInv'
  BY <1>5, <1>6, <1>7, <1>8 DEF FramesInv
<1>. QED BY <1>1, <1>9, OutsideKeeps

\* The reader tasks keep the invariant of the exchange,
LEMMA ReaderKeeps ==
    ASSUME ExchangeInv, NEW r \in Conns, Reader(r)
    PROVE  ExchangeInv'
<1>1. unanswered \in [Conns -> SUBSET (1..Len(sent))]
  BY DEF ExchangeInv, FramesInv, FramesTyped
<1>2. CASE ReaderLoops(r) \/ ReadsPush(r) \/ ReaderFails(r)
  <2>1. Outside /\ UNCHANGED <<executed, unanswered>>
    BY <1>2 DEF ReaderLoops, ReadsPush, ReaderFails, Outside, device
  <2>2. \/ UNCHANGED <<pending, current>>
        \/ pending' = Nobody /\ current' = Failed(current, pending)
    BY <1>2 DEF ReaderLoops, ReadsPush, ReaderFails, Dies
  <2>. QED BY <1>1, <2>1, <2>2, FailingKeeps
<1>3. CASE \E n \in 1..Len(sent) : ReadsReply(r, n)
  BY <1>3, ReadsReplyKeeps
<1>. QED BY <1>2, <1>3 DEF Reader

\* and so do the device and the network,
LEMMA EnvironmentKeeps ==
    ASSUME ExchangeInv, Environment
    PROVE  ExchangeInv'
<1>1. CASE Reset
  <2>1. Outside /\ UNCHANGED <<executed, unanswered, pending, current>>
    BY <1>1 DEF Reset, Outside
  <2>2. unanswered \in [Conns -> SUBSET (1..Len(sent))]
    BY DEF ExchangeInv, FramesInv, FramesTyped
  <2>. QED BY <2>1, <2>2, FailingKeeps
<1>2. CASE \E c \in Conns, n \in 1..Len(sent) : CarriesOut(c, n)
  BY <1>2, CarriesOutKeeps
<1>. QED BY <1>1, <1>2 DEF Environment

\* and every departure.
LEMMA DepartureKeeps ==
    ASSUME ExchangeInv, NEW t \in Tasks, Departure(t)
    PROVE  ExchangeInv'
BY DepartureKeepsTasks, DepartureKeepsFrames, DepartureKeepsCount DEF ExchangeInv

\* A step of a call is a departure, the begin of an attempt, or a connect.
LEMMA StepIsDeparture ==
    ASSUME ExchangeInv, NEW t \in Tasks, Step(t)
    PROVE  \/ Departure(t)
           \/ t \in Callers /\ Attempt(t)
           \/ t \in Callers /\ \E c \in Conns : Opened(t, c)
           \/ t \in Callers /\ Usable /\ \E n \in 1..Len(sent) : Shaken(t, n)
<1>. USE DEF ExchangeInv
<1>1. CASE t \in Callers /\ (OpenFails(t) \/ AttemptFails(t))
  BY <1>1, FailedDeparture
<1>2. CASE t \in Callers
           /\ (ShakeFails(t) \/ \E n \in 1..Len(sent) : Shaken(t, n) /\ ~Usable)
  BY <1>2, ShakeDeparture
<1>3. CASE t \in Callers /\ (Answered(t) \/ Escapes(t))
  BY <1>3, AnswerDeparture
<1>4. CASE Gathered(t) \/ Closed(t) \/ ClosingRaises(t)
  BY <1>4, ClosingDeparture
<1>. QED BY <1>1, <1>2, <1>3, <1>4 DEF Step

\* Every step of a call keeps the invariant of the exchange.
LEMMA StepKeeps ==
    ASSUME ExchangeInv, NEW t \in Tasks, Step(t)
    PROVE  ExchangeInv'
BY StepIsDeparture, DepartureKeeps, AttemptKeeps, OpenedKeeps, ShakenKeeps
-----------------------------------------------------------------------------
\* The connections are as they were.
LEMMA SameLinks ==
    ASSUME LinksInv, UNCHANGED <<conn, key, readerTask, readers, link, shake, replaced>>,
           \A u \in Callers : pc'[u] = "shaking" => pc[u] = "shaking"
    PROVE  LinksInv'
BY DEF LinksInv, LinksTyped, ConnectionsAreOpened, OneConnection, readers

\* A reader goes from one place to another.
LEMMA ReaderMoves ==
    ASSUME LinksInv, NEW r \in Conns, NEW where \in {"reading", "between", "done"},
           NEW s \in Conns \cup {0}, where = "reading" <=> s # 0,
           s # 0 => link[s] # "unused",
           reader' = [reader EXCEPT ![r] = where], stream' = [stream EXCEPT ![r] = s],
           UNCHANGED <<conn, key, readerTask, link, shake, replaced, pc>>
    PROVE  LinksInv'
<1>1. LinksTyped'
  BY DEF LinksInv, LinksTyped
<1>2. ConnectionsAreOpened' /\ OneConnection'
  BY DEF LinksInv, LinksTyped, ConnectionsAreOpened, OneConnection
<1>. QED BY <1>1, <1>2 DEF LinksInv

\* Readers read connections that were opened.
LEMMA ReaderKeepsLinks ==
    ASSUME LinksInv, NEW r \in Conns, Reader(r)
    PROVE  LinksInv'
<1>1. UNCHANGED <<conn, key, readerTask, link, shake, replaced, pc>>
  BY DEF Reader, ReaderLoops, ReadsPush, ReaderFails, ReadsReply, device
<1>2. CASE Stops(r)
  BY <1>1, <1>2, ReaderMoves DEF Stops
<1>3. CASE Between(r)
  BY <1>1, <1>3, ReaderMoves DEF Between
<1>4. CASE conn # 0 /\ Reads(r)
  <2>1. conn' \in Conns /\ link[conn'] # "unused"
    BY <1>1, <1>4 DEF LinksInv, LinksTyped, ConnectionsAreOpened
  <2>2. conn' # 0
    BY <1>1, <1>4
  <2>. QED BY <1>1, <1>4, <2>1, <2>2, ReaderMoves DEF Reads
<1>5. CASE UNCHANGED readers
  BY <1>1, <1>5, SameLinks
<1>. QED
  BY <1>2, <1>3, <1>4, <1>5 DEF Reader, ReaderLoops, ReadsPush, ReaderFails,
     ReadsReply, Dies

\* A connection that is reset is not open any more.
LEMMA ResetKeepsLinks ==
    ASSUME LinksInv, Reset
    PROVE  LinksInv'
<1>1. /\ conn # 0 /\ link' = [link EXCEPT ![conn] = "lost"]
      /\ UNCHANGED <<conn, key, readerTask, readers, shake, replaced, pc>>
  BY DEF Reset
<1>2. LinksTyped'
  BY <1>1 DEF LinksInv, LinksTyped, readers
<1>3. ConnectionsAreOpened' /\ OneConnection'
  BY <1>1 DEF LinksInv, LinksTyped, ConnectionsAreOpened, OneConnection, readers
<1>. QED BY <1>2, <1>3 DEF LinksInv

\* The new connection is the only open one, unless it replaces another.
LEMMA OpenedKeepsLinks ==
    ASSUME TasksInv, LinksInv, replaced \in BOOLEAN, NEW t \in Callers, NEW c \in Conns,
           Opened(t, c)
    PROVE  LinksInv'
<1>1. /\ pc[t] = "opening" /\ link[c] = "unused" /\ c # 0
      /\ conn' = c /\ key' = 0 /\ link' = [link EXCEPT ![c] = "up"]
      /\ replaced' = (replaced \/ Usable)
  BY DEF Opened, At, NextConn, Conns
<1>2. \A d \in Conns \ {c} : link'[d] = link[d]
  BY <1>1 DEF LinksInv, LinksTyped
<1>3. link'[c] = "up"
  BY <1>1 DEF LinksInv, LinksTyped
<1>4. OneConnection'
  <2>1. SUFFICES ASSUME ~replaced', NEW d \in Conns, link'[d] = "up", d # c
                 PROVE  FALSE
    BY <1>1 DEF OneConnection
  <2>2. ~replaced /\ ~Usable
    BY <1>1, <2>1
  <2>3. link[d] = "up" /\ d # 0
    BY <1>2, <2>1 DEF Conns
  <2>4. d = conn
    BY <2>2, <2>3 DEF LinksInv, OneConnection
  <2>. QED BY <2>2, <2>3, <2>4 DEF Usable
<1>5. CASE protocol = "3.4"
  <2>1. /\ pc' = [pc EXCEPT ![t] = "shaking"] /\ shake' = [shake EXCEPT ![t] = c]
        /\ readerTask' = readerTask /\ reader' = reader /\ stream' = stream
    BY <1>5 DEF Opened, readers
  <2>2. LinksTyped'
    BY <1>1, <2>1 DEF LinksInv, LinksTyped
  <2>3. ConnectionsAreOpened'
    BY <1>1, <1>2, <1>3, <2>1 DEF LinksInv, LinksTyped, ConnectionsAreOpened,
       TasksInv, TasksTyped, Tasks
  <2>. QED BY <1>4, <2>2, <2>3 DEF LinksInv
<1>6. CASE protocol # "3.4"
  <2>1. /\ readerTask' = c /\ shake' = shake
        /\ reader' = [reader EXCEPT ![c] = "reading"] /\ stream' = [stream EXCEPT ![c] = c]
    BY <1>1, <1>6 DEF Opened, Reads
  <2>2. \A u \in Callers : pc'[u] = "shaking" => pc[u] = "shaking"
    BY <1>1, <1>6 DEF Opened, Connected, SendRequest, TasksInv, TasksTyped, Tasks
  <2>3. LinksTyped'
    BY <1>1, <2>1 DEF LinksInv, LinksTyped
  <2>4. ConnectionsAreOpened'
    BY <1>1, <1>2, <1>3, <2>1, <2>2 DEF LinksInv, LinksTyped, ConnectionsAreOpened
  <2>. QED BY <1>4, <2>3, <2>4 DEF LinksInv
<1>. QED BY <1>5, <1>6

\* The reader task is made for a connection that was opened.
LEMMA ShakenKeepsLinks ==
    ASSUME TasksInv, LinksInv, NEW t \in Callers, NEW n, Shaken(t, n), Usable
    PROVE  LinksInv'
<1>. DEFINE c == shake[t]
<1>1. /\ pc[t] = "shaking" /\ key' = c /\ readerTask' = c
      /\ conn' = conn /\ link' = link /\ replaced' = replaced
      /\ shake' = [shake EXCEPT ![t] = 0]
      /\ IF conn = c THEN Reads(c) ELSE Between(c)
      /\ Connected(t, conn, Append(sent, 0), Without(c, n))
  BY DEF Shaken, At
<1>2. c \in Conns /\ link[c] # "unused" /\ c # 0
  BY <1>1 DEF LinksInv, LinksTyped, ConnectionsAreOpened
<1>3. PICK s \in {0, c} :
        /\ stream' = [stream EXCEPT ![c] = s]
        /\ reader' = [reader EXCEPT ![c] = IF s = 0 THEN "between" ELSE "reading"]
  BY <1>1, <1>2 DEF Reads, Between
<1>4. pc' = [pc EXCEPT ![t] = "waiting"] \/ pc' = [pc EXCEPT ![t] = "idle"]
  BY <1>1 DEF Connected, SendRequest
<1>5. \A u \in Callers : pc'[u] = "shaking" => pc[u] = "shaking" /\ shake'[u] = shake[u]
  BY <1>1, <1>4 DEF LinksInv, LinksTyped, TasksInv, TasksTyped, Tasks
<1>. HIDE DEF c
<1>6. LinksTyped'
  BY <1>1, <1>2, <1>3 DEF LinksInv, LinksTyped
<1>7. ConnectionsAreOpened' /\ OneConnection'
  BY <1>1, <1>2, <1>3, <1>5 DEF LinksInv, LinksTyped, ConnectionsAreOpened,
     OneConnection
<1>. QED BY <1>6, <1>7 DEF LinksInv

\* Every step of a call keeps the connections in order.
LEMMA StepKeepsLinks ==
    ASSUME ExchangeInv, LinksInv, replaced \in BOOLEAN, NEW t \in Tasks, Step(t)
    PROVE  LinksInv'
<1>. USE DEF ExchangeInv
<1>1. CASE Departure(t)
  BY <1>1, DepartureKeepsLinks
<1>2. CASE t \in Callers /\ Attempt(t)
  <2>1. UNCHANGED <<conn, key, readerTask, readers, link, shake, replaced>>
    BY <1>2 DEF Attempt
  <2>2. \A u \in Callers : pc'[u] = "shaking" => pc[u] = "shaking"
    BY <1>2 DEF Attempt, SendRequest, TasksInv, TasksTyped, Tasks
  <2>. QED BY <2>1, <2>2, SameLinks
<1>. QED BY <1>1, <1>2, StepIsDeparture, OpenedKeepsLinks, ShakenKeepsLinks

-----------------------------------------------------------------------------
\* While the session is open or a caller is busy, main has nothing to do.
LEMMA MainRests ==
    ASSUME MainIsLast, pc'["main"] = pc["main"],
           session' = session \/ (session = "open" /\ session' = "ending"),
           \/ session = "open" \/ toCancel # {}
           \/ \E u \in Callers : pc[u] # "idle"
    PROVE  MainIsLast'
BY DEF MainIsLast

\* Every step of a call leaves main its turn.
LEMMA StepKeepsMain ==
    ASSUME ExchangeInv, MainIsLast, UNCHANGED toCancel, NEW t \in Tasks, Step(t)
    PROVE  MainIsLast'
<1>1. CASE t = "main"
  <2>1. "main" \notin Callers
    BY DEF Callers
  <2>. QED BY <1>1, <2>1, MainKeepsMain DEF Step, ExchangeInv
<1>2. CASE t # "main"
  <2>1. t \in Callers /\ "main" \in Tasks
    BY <1>2 DEF Tasks
  <2>2. CASE Departure(t)
    BY <2>1, <2>2, CallerKeepsMain DEF ExchangeInv
  <2>3. CASE Attempt(t)
    BY <1>2, <2>1, <2>3, MainRests DEF Attempt, At, SendRequest, ExchangeInv,
       TasksInv, TasksTyped
  <2>4. CASE \E c \in Conns : Opened(t, c)
    BY <1>2, <2>1, <2>4, MainRests DEF Opened, Connected, At, SendRequest,
       ExchangeInv, TasksInv, TasksTyped
  <2>5. CASE Usable /\ \E n \in 1..Len(sent) : Shaken(t, n)
    BY <1>2, <2>1, <2>5, MainRests DEF Shaken, Connected, At, SendRequest,
       ExchangeInv, TasksInv, TasksTyped
  <2>. QED BY <2>2, <2>3, <2>4, <2>5, StepIsDeparture
<1>. QED BY <1>1, <1>2

\* Readers, device and network leave a closed session closed.
LEMMA OutsideKeepsMain ==
    ASSUME FramesTyped, MainIsLast, UNCHANGED toCancel,
           Environment \/ \E r \in Conns : Reader(r)
    PROVE  MainIsLast'
<1>1. UNCHANGED <<pc, session, life, readerTask, conn>>
  BY  DEF Environment, Reset, CarriesOut, Reader, ReaderLoops, ReadsPush,
     ReaderFails, ReadsReply, phase
<1>2. pending = Nobody => pending' = Nobody
  <2>1. ASSUME NEW n, Deliver(n), pending = Nobody
        PROVE  pending' = Nobody
    BY <2>1 DEF Deliver, Nobody
  <2>. QED
    BY <2>1 DEF Environment, Reset, CarriesOut, Reader, ReaderLoops, ReadsPush,
       ReaderFails, ReadsReply, Dies
<1>. QED BY <1>1, <1>2 DEF MainIsLast

-----------------------------------------------------------------------------
\* The inductive invariant by layers,
LEMMA InvParts ==
    IInv <=> /\ ExchangeInv /\ LinksInv /\ MainIsLast
             /\ protocol \in Protocols /\ toCancel \subseteq Callers /\ replaced \in BOOLEAN
BY TypeParts DEF IInv, ExchangeInv, TasksInv, FramesInv, LinksInv

\* and the same after a step.
LEMMA InvAfter ==
    ASSUME ExchangeInv', LinksInv', MainIsLast',
           protocol' \in Protocols, toCancel' \subseteq Callers, replaced' \in BOOLEAN
    PROVE  IInv'
<1>1. TypeOK'
  BY  DEF ExchangeInv, TasksInv, FramesInv, LinksInv, TypeOK, TasksTyped,
     LinksTyped, FramesTyped, Frames
<1>. QED BY <1>1 DEF IInv, ExchangeInv, TasksInv, FramesInv, LinksInv

\* The inductive invariant holds after every departure,
LEMMA DepartureKeepsInv ==
    ASSUME IInv, NEW t \in Tasks, Departure(t), toCancel' \subseteq toCancel, MainIsLast'
    PROVE  IInv'
<1>1. ExchangeInv' /\ LinksInv'
  BY InvParts, DepartureKeeps, DepartureKeepsLinks DEF ExchangeInv
<1>2. protocol' = protocol /\ replaced' = replaced
  BY DEF Departure, Departs, LetsGo
<1>3. protocol' \in Protocols /\ toCancel' \subseteq Callers /\ replaced' \in BOOLEAN
  BY <1>2, InvParts
<1>. QED BY <1>1, <1>3, InvAfter

\* and at the start,
LEMMA InitInv == Init => IInv
<1>. SUFFICES ASSUME Init PROVE IInv
  OBVIOUS
<1>. USE DEF Init
<1>1. TasksInv
  BY Parameters DEF TasksInv, TasksTyped, Calls, LockIsHeld, Tasks, Callers
<1>2. FramesInv
  <2>1. Len(sent) = 0 /\ sent \in Seq(Requests \cup {0})
    OBVIOUS
  <2>2. FramesTyped
    BY <2>1 DEF FramesTyped, Frames, Nobody, NoFrame
  <2>. QED
    BY <2>1, <2>2 DEF FramesInv, FrameIsCurrent, FiledUnderItsNumber, FrameIsRecent,
       ReplyIsOwn, ReplyWasExecuted, NoFrame, Nobody, Tasks
<1>3. AttemptsAreCounted
  <2>1. \A x : SentFor(x) = {}
    BY DEF SentFor
  <2>2. Cardinality({}) = 0
    BY FS_EmptySet
  <2>3. \A t \in Callers : request[t] = 0
    BY DEF Tasks
  <2>4. \A x : Cardinality(SentFor(x)) = 0
    BY <2>1, <2>2
  <2>. QED BY <2>1, <2>3, <2>4, Parameters DEF AttemptsAreCounted
<1>4. LinksInv
  BY  DEF LinksInv, LinksTyped, ConnectionsAreOpened, OneConnection, Callers, Tasks,
     Conns
<1>5. MainIsLast
  BY DEF MainIsLast, Tasks
<1>. QED BY <1>1, <1>2, <1>3, <1>4, <1>5, InvParts DEF ExchangeInv

\* after every step of a call,
LEMMA StepKeepsInv ==
    ASSUME IInv, NEW t \in Tasks, Step(t), UNCHANGED toCancel
    PROVE  IInv'
<1>1. /\ ExchangeInv /\ LinksInv /\ MainIsLast
      /\ protocol \in Protocols /\ toCancel \subseteq Callers /\ replaced \in BOOLEAN
  BY InvParts
<1>2. ExchangeInv' /\ LinksInv' /\ MainIsLast'
  BY <1>1, StepKeeps, StepKeepsLinks, StepKeepsMain
<1>3. protocol' = protocol /\ replaced' \in BOOLEAN
  <2>1. CASE Departure(t)
    BY <1>1, <2>1 DEF Departure, Departs, LetsGo
  <2>2. CASE Attempt(t)
    BY <1>1, <2>2 DEF Attempt
  <2>3. CASE \E c \in Conns : Opened(t, c)
    <3>1. protocol' = protocol /\ replaced' = (replaced \/ Usable)
      BY <2>3 DEF Opened
    <3>2. replaced' \in BOOLEAN
      BY <3>1, <1>1, Zenon
    <3>. QED BY <3>1, <3>2
  <2>4. CASE Usable /\ \E n \in 1..Len(sent) : Shaken(t, n)
    BY <1>1, <2>4 DEF Shaken
  <2>. QED BY <1>1, <2>1, <2>2, <2>3, <2>4, StepIsDeparture
<1>4. protocol' \in Protocols /\ toCancel' \subseteq Callers
  BY <1>1, <1>3
<1>. QED BY <1>2, <1>3, <1>4, InvAfter

\* of the readers, the device and the network,
LEMMA OutsideKeepsInv ==
    ASSUME IInv, Environment \/ \E r \in Conns : Reader(r), UNCHANGED toCancel
    PROVE  IInv'
<1>1. /\ ExchangeInv /\ LinksInv /\ MainIsLast
      /\ protocol \in Protocols /\ toCancel \subseteq Callers /\ replaced \in BOOLEAN
  BY InvParts
<1>2. ExchangeInv' /\ MainIsLast'
  BY <1>1, EnvironmentKeeps, ReaderKeeps, OutsideKeepsMain DEF ExchangeInv, FramesInv
<1>3. LinksInv'
  <2>1. CASE \E c \in Conns, n \in 1..Len(sent) : CarriesOut(c, n)
    BY <1>1, <2>1, SameLinks DEF CarriesOut
  <2>. QED BY <1>1, <2>1, ResetKeepsLinks, ReaderKeepsLinks DEF Environment
<1>4. UNCHANGED <<protocol, replaced>>
  BY  DEF Environment, Reset, CarriesOut, Reader, ReaderLoops, ReadsPush,
     ReaderFails, ReadsReply
<1>5. replaced' \in BOOLEAN
  BY <1>1, <1>4
<1>6. protocol' \in Protocols /\ toCancel' \subseteq Callers /\ replaced' \in BOOLEAN
  BY <1>1, <1>2, <1>4
<1>. QED BY <1>2, <1>3, <1>4, <1>5, <1>6, InvAfter

\* after every call,
LEMMA CallKeepsInv ==
    ASSUME IInv, UNCHANGED toCancel, Connect \/ \E t \in Callers : Ask(t)
    PROVE  IInv'
<1>1. /\ ExchangeInv /\ LinksInv /\ MainIsLast
      /\ protocol \in Protocols /\ toCancel \subseteq Callers /\ replaced \in BOOLEAN
  BY InvParts
<1>2. ExchangeInv'
  BY <1>1, AskKeeps, ConnectKeeps
<1>3. /\ UNCHANGED <<protocol, conn, key, readerTask, readers, link, shake, replaced, session>>
      /\ session = "open"
  BY DEF Connect, Ask, device, phase
<1>4. \A u \in Tasks : pc'[u] \in {pc[u], "opening", "queued"} /\ pc'["main"] = pc["main"]
  BY <1>1 DEF Connect, Ask, ExchangeInv, TasksInv, TasksTyped, Tasks, Callers
<1>5. LinksInv'
  BY <1>1, <1>3, <1>4, SameLinks DEF Tasks
<1>6. MainIsLast'
  BY <1>1, <1>3, <1>4, MainRests DEF Tasks
<1>7. protocol' \in Protocols /\ toCancel' \subseteq Callers /\ replaced' \in BOOLEAN
  BY <1>1, <1>3
<1>. QED BY <1>2, <1>5, <1>6, <1>7, InvAfter

\* and when the session ends or an idle task is cancelled.
LEMMA CancelKeepsInv ==
    ASSUME IInv, EndSession \/ \E t \in Callers : Cancelled(t) /\ pc[t] = "idle"
    PROVE  IInv'
<1>1. /\ ExchangeInv /\ LinksInv /\ MainIsLast
      /\ protocol \in Protocols /\ toCancel \subseteq Callers /\ replaced \in BOOLEAN
  BY InvParts
<1>2. /\ UNCHANGED <<protocol, conn, key, readerTask, pending, sent, current, pc,
                     call, shake, replaced, device, readers, exchange, life>>
      /\ session' = session \/ (session = "open" /\ session' = "ending")
      /\ session = "open" \/ toCancel # {}
      /\ toCancel' \subseteq Callers
  BY <1>1 DEF EndSession, Cancelled, phase
<1>3. ExchangeInv'
  <2>1. TasksInv'
    BY <1>1, <1>2 DEF ExchangeInv, TasksInv, TasksTyped, Calls, LockIsHeld, exchange
  <2>2. FramesInv'
    BY <1>1, <1>2 DEF ExchangeInv, FramesInv, FramesTyped, Frames, FrameIsCurrent,
       FiledUnderItsNumber, FrameIsRecent, ReplyIsOwn, ReplyWasExecuted, device,
       exchange
  <2>3. AttemptsAreCounted'
    BY <1>1, <1>2 DEF ExchangeInv, AttemptsAreCounted, SentFor, exchange
  <2>. QED BY <2>1, <2>2, <2>3 DEF ExchangeInv
<1>4. LinksInv'
  BY <1>1, <1>2, SameLinks DEF device
<1>5. MainIsLast'
  BY <1>1, <1>2, MainRests
<1>6. protocol' \in Protocols /\ toCancel' \subseteq Callers /\ replaced' \in BOOLEAN
  BY <1>1, <1>2, <1>4
<1>. QED BY <1>2, <1>3, <1>4, <1>5, <1>6, InvAfter

\* The invariant is inductive.
LEMMA NextInv == IInv /\ [Next]_vars => IInv'
<1>. SUFFICES ASSUME IInv, [Next]_vars
              PROVE  IInv'
  OBVIOUS
<1>1. ExchangeInv /\ MainIsLast /\ TasksInv /\ FramesInv
  BY InvParts DEF ExchangeInv
<1>2. CASE EndSession
  BY <1>2, CancelKeepsInv
<1>3. ASSUME NEW t \in Callers, Cancelled(t)
      PROVE  IInv'
  <2>1. CASE pc[t] = "idle"
    BY <1>3, <2>1, CancelKeepsInv
  <2>2. CASE pc[t] # "idle"
    <3>1. Departure(t) /\ t \in Tasks /\ toCancel' \subseteq toCancel
      BY <1>1, <1>3, <2>2, CancelledDeparture DEF Tasks, Cancelled
    <3>2. MainIsLast'
      BY <1>1, <3>1, CallerKeepsMain
    <3>. QED BY <3>1, <3>2, DepartureKeepsInv
  <2>. QED BY <2>1, <2>2
<1>4. ASSUME NEW t \in Tasks, Step(t), UNCHANGED toCancel
      PROVE  IInv'
  BY <1>4, StepKeepsInv
<1>5. CASE (Connect \/ \E t \in Callers : Ask(t)) /\ UNCHANGED toCancel
  BY <1>5, CallKeepsInv
<1>6. CASE PublisherLeaves /\ UNCHANGED toCancel
  <2>1. "publisher" \in Callers /\ "publisher" \in Tasks
    BY DEF Callers, Tasks
  <2>2. Departure("publisher")
    BY <1>1, <1>6, <2>1, DisconnectDeparture
  <2>3. MainIsLast'
    BY <1>1, <2>1, <2>2, CallerKeepsMain
  <2>. QED BY <1>6, <2>1, <2>2, <2>3, DepartureKeepsInv
<1>7. CASE MainDisconnects /\ UNCHANGED toCancel
  <2>1. "main" \in Tasks
    BY DEF Tasks
  <2>2. Departure("main")
    BY <1>1, <1>7, <2>1, DisconnectDeparture
  <2>3. MainIsLast'
    BY <1>1, <1>7, MainKeepsMain
  <2>. QED BY <1>7, <2>1, <2>2, <2>3, DepartureKeepsInv
<1>8. CASE (Environment \/ \E r \in Conns : Reader(r)) /\ UNCHANGED toCancel
  BY <1>8, OutsideKeepsInv
<1>9. CASE UNCHANGED vars
  <2>1. UNCHANGED <<protocol, conn, key, readerTask, pending, sent, current, pc, call,
                    shake, replaced, link, unanswered, executed, reader, stream,
                    lock, request, attempt, outcome, life, session, toCancel>>
    BY <1>9 DEF vars, device, readers, exchange, phase
  <2>2. TypeOK'
    BY <2>1 DEF IInv, TypeOK
  <2>3. Calls' /\ LockIsHeld' /\ MainIsLast'
    BY <2>1 DEF IInv, Calls, LockIsHeld, MainIsLast
  <2>4. FrameIsCurrent' /\ FiledUnderItsNumber' /\ FrameIsRecent' /\ ReplyIsOwn'
        /\ ReplyWasExecuted'
    BY <2>1 DEF IInv, FrameIsCurrent, FiledUnderItsNumber, FrameIsRecent,
       ReplyIsOwn, ReplyWasExecuted
  <2>5. AttemptsAreCounted'
    BY <2>1 DEF IInv, AttemptsAreCounted, SentFor
  <2>6. ConnectionsAreOpened' /\ OneConnection'
    BY <2>1 DEF IInv, ConnectionsAreOpened, OneConnection
  <2>. QED BY <2>2, <2>3, <2>4, <2>5, <2>6 DEF IInv
<1>. QED BY <1>2, <1>3, <1>4, <1>5, <1>6, <1>7, <1>8, <1>9 DEF Next

\* In every reachable state, for any number of retries, requests, connections
\* and sequence numbers: who has the send lock and for which request, which frame
\* is waited for and under which number it is filed, how often each request was
\* sent, and which connections were opened and let go of.
THEOREM InductiveInvariant == Spec => []IInv
<1>. QED BY InitInv, NextInv, PTL DEF Spec

\* Every variable keeps its type; an exchange uses Retries retries at most.
THEOREM TypeCorrect == Spec => []TypeOK
<1>1. IInv => TypeOK
  BY DEF IInv
<1>. QED BY <1>1, InductiveInvariant, PTL

\* The reply an exchange returns is the reply to the frame it sent last,
\* although sequence numbers come round, late replies are read, and several
\* reader tasks file what they read in one table (_exchange, _reader_loop).
THEOREM RepliesMatchRequests == Spec => []ReplyIsOwn
<1>1. IInv => ReplyIsOwn
  BY DEF IInv
<1>. QED BY <1>1, InductiveInvariant, PTL

\* Unless two connects overlap, every socket but the current one is closed:
\* whoever disconnects, fails or is cancelled wherever (connect, disconnect).
THEOREM OneOpenConnection == Spec => []OneConnection
<1>1. IInv => OneConnection
  BY DEF IInv
<1>. QED BY <1>1, InductiveInvariant, PTL

\* What health() says of an open connection: some reader reads it, or is about
\* to find out that it is gone.
THEOREM HealthTellsTheTruth == Spec => []HealthIsTruthful
<1>1. ASSUME IInv PROVE HealthIsTruthful
  <2>1. LinksInv
    BY <1>1, InvParts
  <2>2. SUFFICES ASSUME ~replaced, Healthy
                 PROVE  \E r \in Conns :
                           \/ reader[r] = "between"
                           \/ stream[r] = conn
                           \/ stream[r] # 0 /\ link[stream[r]] \in {"lost", "closed"}
    BY DEF HealthIsTruthful
  <2>. DEFINE r == readerTask
  <2>3. r \in Conns /\ reader[r] \in {"reading", "between"}
    BY <2>1, <2>2 DEF Healthy, LinksInv, LinksTyped, ConnectionsAreOpened
  <2>4. CASE reader[r] = "reading"
    <3>1. /\ stream[r] \in Conns /\ stream[r] # 0
          /\ link[stream[r]] \in {"up", "lost", "closed"}
      BY <2>1, <2>3, <2>4 DEF LinksInv, LinksTyped, ConnectionsAreOpened
    <3>2. link[stream[r]] = "up" => stream[r] = conn
      BY <2>1, <2>2, <3>1 DEF LinksInv, OneConnection
    <3>. QED BY <2>3, <3>1, <3>2
  <2>. QED BY <2>3, <2>4
<1>. QED BY <1>1, InductiveInvariant, PTL

\* After the last disconnect of a session no connection, no reader task, no
\* pending request and no holder of the send lock is left (_session, disconnect).
THEOREM SessionEndsClean == Spec => []SessionLeavesNoConnection
<1>1. ASSUME IInv PROVE SessionLeavesNoConnection
  <2>1. SUFFICES ASSUME session = "over"
                 PROVE  /\ conn = 0 /\ readerTask = 0
                        /\ pending = Nobody
                        /\ lock = "nobody"
                        /\ replaced \/ \A c \in Conns : link[c] # "up"
    BY DEF SessionLeavesNoConnection
  <2>2. /\ conn = 0 /\ readerTask = 0 /\ pending = Nobody
        /\ \A t \in Callers : pc[t] = "idle"
    BY <1>1, <2>1 DEF IInv, MainIsLast
  <2>3. lock = "nobody"
    BY <1>1, <2>2 DEF IInv, TypeOK, Calls, LockIsHeld, Callers, Tasks
  <2>4. replaced \/ \A c \in Conns : link[c] # "up"
    <3>1. \A c \in Conns : c # 0
      BY DEF Conns
    <3>. QED BY <1>1, <2>2, <3>1 DEF IInv, OneConnection
  <2>. QED BY <2>2, <2>3, <2>4
<1>. QED BY <1>1, InductiveInvariant, PTL

-----------------------------------------------------------------------------
\* The frames that carry request x and that the device carried out.
CarriedOut(x) == {n \in executed : sent[n] = x}

\* They are finitely many, and no more than were sent for x.
LEMMA CarriedFacts ==
    ASSUME FramesTyped, NEW x
    PROVE  /\ IsFiniteSet(CarriedOut(x)) /\ CarriedOut(x) \subseteq SentFor(x)
           /\ Carried(x) = Cardinality(CarriedOut(x)) /\ Carried(x) \in Nat
           /\ Carried(x) <= Cardinality(SentFor(x))
<1>1. CarriedOut(x) \subseteq SentFor(x)
  BY DEF CarriedOut, SentFor, FramesTyped
<1>2. IsFiniteSet(SentFor(x))
  BY SentForFinite
<1>3. IsFiniteSet(CarriedOut(x)) /\ Cardinality(CarriedOut(x)) <= Cardinality(SentFor(x))
  BY <1>1, <1>2, FS_Subset
<1>4. Carried(x) = Cardinality(CarriedOut(x))
  BY DEF Carried, CarriedOut
<1>. QED BY <1>1, <1>3, <1>4, FS_CardinalityType

\* Frames are only added to those sent.
Grows == \A n \in 1..Len(sent) : sent'[n] = sent[n]

\* Sending carries out nothing.
LEMMA CarriedStays ==
    ASSUME FramesTyped, Grows, executed' = executed
    PROVE  \A x \in Requests : Carried(x)' = Carried(x)
<1>1. ASSUME NEW x PROVE {n \in executed' : sent'[n] = x} = {n \in executed : sent[n] = x}
  BY DEF FramesTyped, Grows
<1>. QED BY <1>1 DEF Carried

\* A step that carries out nothing and ends nothing is none to the promise.
LEMMA Stutters ==
    ASSUME FramesTyped, Grows, executed' = executed, outcome' = outcome
    PROVE  UNCHANGED Promise!vars
BY CarriedStays DEF Promise!vars

\* A frame carried out is its request carried out once more, within the limit.
LEMMA CarryingOut ==
    ASSUME ExchangeInv, NEW n \in 1..Len(sent), sent[n] # 0, sent' = sent,
           executed' = executed \cup {n}, outcome' = outcome
    PROVE  [Promise!Next]_(Promise!vars)
<1>1. FramesTyped /\ sent[n] \in Requests
  BY DEF ExchangeInv, FramesInv, FramesTyped
<1>2. CASE n \in executed
  <2>1. executed' = executed
    BY <1>2
  <2>2. Grows
    BY DEF Grows
  <2>. QED BY <1>1, <2>1, <2>2, Stutters
<1>3. CASE n \notin executed
  <2>. DEFINE x == sent[n]
  <2>1. x \in Requests
    BY <1>1
  <2>2. \A y \in Requests \ {x} : {m \in executed' : sent'[m] = y} = CarriedOut(y)
    BY DEF CarriedOut
  <2>3. {m \in executed' : sent'[m] = x} = CarriedOut(x) \cup {n} /\ n \notin CarriedOut(x)
    BY <1>3 DEF CarriedOut
  <2>4. n \in SentFor(x)
    BY DEF SentFor
  <2>. HIDE DEF x
  <2>5. \A y \in Requests \ {x} : Cardinality({m \in executed' : sent'[m] = y}) = Carried(y)
    BY <1>1, <2>2, CarriedFacts
  <2>6. Cardinality({m \in executed' : sent'[m] = x}) = Carried(x) + 1
    BY <1>1, <2>3, CarriedFacts, FS_AddElement
  <2>7. outcome[x] # "none"
    BY <2>1, <2>4 DEF ExchangeInv, AttemptsAreCounted
  <2>8. Carried(x) < Retries + 1
    <3>1. IsFiniteSet(SentFor(x)) /\ Cardinality(SentFor(x)) \in Nat
          /\ Cardinality(SentFor(x)) <= Retries + 1
      BY <1>1, <2>1, SentForFinite DEF ExchangeInv, AttemptsAreCounted
    <3>2. CarriedOut(x) # SentFor(x)
      BY <2>3, <2>4
    <3>3. CarriedOut(x) \subseteq SentFor(x) /\ Carried(x) = Cardinality(CarriedOut(x))
          /\ Carried(x) \in Nat
      BY <1>1, CarriedFacts
    <3>4. Carried(x) < Cardinality(SentFor(x))
      BY <3>1, <3>2, <3>3, FS_Subset
    <3>. QED BY <3>1, <3>3, <3>4, Parameters
  <2>9. [y \in Requests |-> Carried(y)]' = [[y \in Requests |-> Carried(y)] EXCEPT ![x] = @ + 1]
    BY <2>1, <2>5, <2>6 DEF Carried
  <2>10. Promise!CarryOut(x)
    BY <2>1, <2>7, <2>8, <2>9 DEF Promise!CarryOut
  <2>. QED BY <2>1, <2>10 DEF Promise!Next
<1>. QED BY <1>2, <1>3

\* A departure gives a request up or answers it, or is none to the promise.
LEMMA DepartureKeepsPromise ==
    ASSUME ExchangeInv, NEW t \in Tasks, Departure(t)
    PROVE  [Promise!Next]_(Promise!vars)
<1>1. PICK k : Legal(t, k) /\ (Pause(t, k) \/ Again(t, k) \/ Ends(t, k)) /\ Forgets(t)
  BY DEF Departure, Departs
<1>2. FramesTyped /\ Grows /\ executed' = executed
  BY <1>1 DEF Forgets, Grows, ExchangeInv, FramesInv
<1>3. CASE outcome' = outcome
  BY <1>2, <1>3, Stutters
<1>4. CASE outcome' # outcome
  <2>. DEFINE x == request[t]
  <2>1. /\ Ends(t, k) /\ x # 0
        /\ outcome' = [outcome EXCEPT ![x] = "failed"]
              \/ outcome' = [outcome EXCEPT ![x] = "answered"]
        /\ outcome' = [outcome EXCEPT ![x] = "answered"] =>
              outcome' = [outcome EXCEPT ![x] = "failed"]
              \/ (pc[t] = "waiting" /\ current.reply # 0)
    BY <1>1, <1>4 DEF Pause, Again, Ends, Over, exchange
  <2>2. x \in Requests /\ outcome[x] = "asked"
    BY <2>1 DEF ExchangeInv, TasksInv, TasksTyped, LockIsHeld
  <2>3. [y \in Requests |-> Carried(y)]' = [y \in Requests |-> Carried(y)]
    BY <1>2, CarriedStays
  <2>4. CASE outcome' = [outcome EXCEPT ![x] = "failed"]
    <3>1. Promise!GiveUp(x)
      BY <2>2, <2>3, <2>4 DEF Promise!GiveUp
    <3>. QED BY <2>2, <3>1 DEF Promise!Next
  <2>5. CASE outcome' # [outcome EXCEPT ![x] = "failed"]
    <3>1. pc[t] = "waiting" /\ current.reply # 0
          /\ outcome' = [outcome EXCEPT ![x] = "answered"]
      BY <2>1, <2>5
    <3>2. current.frame = current.reply /\ current.frame \in executed
      BY <3>1 DEF ExchangeInv, FramesInv, ReplyIsOwn, ReplyWasExecuted
    <3>3. lock = t
      BY <2>1, <3>1 DEF ExchangeInv, TasksInv, LockIsHeld
    <3>4. sent[current.frame] = x
      BY <3>1, <3>2, <3>3 DEF ExchangeInv, FramesInv, FrameIsCurrent
    <3>5. CarriedOut(x) # {}
      BY <3>2, <3>4 DEF CarriedOut
    <3>6. Carried(x) > 0
      <4>1. IsFiniteSet(CarriedOut(x)) /\ Carried(x) = Cardinality(CarriedOut(x))
            /\ Carried(x) \in Nat
        BY <1>2, CarriedFacts
      <4>. QED BY <3>5, <4>1, FS_EmptySet
    <3>. HIDE DEF x
    <3>7. Promise!Answer(x)
      BY <2>2, <2>3, <3>1, <3>6 DEF Promise!Answer
    <3>. QED BY <2>2, <3>7 DEF Promise!Next
  <2>. QED BY <2>4, <2>5
<1>. QED BY <1>3, <1>4

\* An attempt and a negotiation add to what was sent.
LEMMA SentGrows ==
    ASSUME FramesTyped, NEW before \in {sent, Append(sent, 0)}, NEW x,
           sent' = before \/ sent' = Append(before, x)
    PROVE  Grows
<1>1. /\ Len(sent) \in Nat /\ Len(before) \in {Len(sent), Len(sent) + 1}
      /\ before \in Seq(Requests \cup {0})
      /\ \A i \in 1..Len(sent) : before[i] = sent[i]
  BY BeforeFacts
<1>2. \A i \in 1..Len(sent) : i \in 1..Len(before) /\ Append(before, x)[i] = before[i]
  BY <1>1
<1>. QED BY <1>1, <1>2 DEF Grows

\* Every step of a call keeps the promise,
LEMMA StepKeepsPromise ==
    ASSUME ExchangeInv, NEW t \in Tasks, Step(t)
    PROVE  [Promise!Next]_(Promise!vars)
<1>. USE DEF ExchangeInv, FramesInv
<1>1. CASE Departure(t)
  BY <1>1, DepartureKeepsPromise
<1>2. CASE Attempt(t)
  BY <1>2, SentGrows, Stutters DEF Attempt, SendRequest, exchange
<1>3. CASE \E c \in Conns : Opened(t, c)
  BY <1>3, SentGrows, Stutters DEF Opened, Connected, SendRequest, exchange
<1>4. CASE Usable /\ \E n \in 1..Len(sent) : Shaken(t, n)
  BY <1>4, SentGrows, Stutters DEF Shaken, Connected, SendRequest, exchange
<1>. QED BY <1>1, <1>2, <1>3, <1>4, StepIsDeparture

\* and so does a new request,
LEMMA AskKeepsPromise ==
    ASSUME ExchangeInv, NEW t \in Callers, Ask(t)
    PROVE  [Promise!Next]_(Promise!vars)
<1>1. PICK x \in Requests : outcome[x] = "none"
           /\ outcome' = [outcome EXCEPT ![x] = "asked"]
  BY DEF Ask, NextRequest
<1>2. FramesTyped /\ Grows /\ executed' = executed
  BY DEF Ask, Grows, device, ExchangeInv, FramesInv
<1>3. [y \in Requests |-> Carried(y)]' = [y \in Requests |-> Carried(y)]
  BY <1>2, CarriedStays
<1>4. Promise!Ask(x)
  BY <1>1, <1>3 DEF Promise!Ask
<1>. QED BY <1>4 DEF Promise!Next

\* and what readers, device and network do.
LEMMA OutsideKeepsPromise ==
    ASSUME ExchangeInv, Environment \/ \E r \in Conns : Reader(r)
    PROVE  [Promise!Next]_(Promise!vars)
<1>1. sent' = sent /\ outcome' = outcome
  BY  DEF Environment, Reset, CarriesOut, Reader, ReaderLoops, ReadsPush,
     ReaderFails, ReadsReply, exchange
<1>2. CASE executed' = executed
  BY <1>1, <1>2, Stutters DEF Grows, ExchangeInv, FramesInv
<1>3. CASE executed' # executed
  <2>1. PICK n \in 1..Len(sent) : sent[n] # 0 /\ executed' = executed \cup {n}
    BY <1>3 DEF Environment, Reset, CarriesOut, Reader, ReaderLoops, ReadsPush,
       ReaderFails, ReadsReply, device
  <2>. QED BY <1>1, <2>1, CarryingOut
<1>. QED BY <1>2, <1>3

\* _exchange implements RequestReply: each request is asked once and has one
\* outcome, an answered one was carried out, and none is carried out more often
\* than Retries + 1 times, through timeouts, late replies and lost connections.
THEOREM KeepsItsPromise == Spec => KeepsRequests
<1>1. Init => Promise!Init
  <2>1. SUFFICES ASSUME Init PROVE Promise!Init
    OBVIOUS
  <2>2. \A x \in Requests : Carried(x) = 0
    <3>1. \A x : {n \in executed : sent[n] = x} = {}
      BY <2>1 DEF Init
    <3>. QED BY <3>1, FS_EmptySet DEF Carried
  <2>. QED BY <2>1, <2>2 DEF Init, Promise!Init
<1>2. IInv /\ [Next]_vars => [Promise!Next]_(Promise!vars)
  <2>1. SUFFICES ASSUME IInv, [Next]_vars
                 PROVE  [Promise!Next]_(Promise!vars)
    OBVIOUS
  <2>2. ExchangeInv /\ TasksInv /\ FramesInv /\ FramesTyped
    BY <2>1, InvParts DEF ExchangeInv, FramesInv
  <2>3. CASE EndSession \/ Connect \/ UNCHANGED vars
             \/ \E t \in Callers : Cancelled(t) /\ pc[t] = "idle"
    BY <2>2, <2>3, Stutters DEF EndSession, Connect, Cancelled, vars, device,
       exchange, Grows
  <2>4. ASSUME NEW t \in Callers, Cancelled(t), pc[t] # "idle"
        PROVE  [Promise!Next]_(Promise!vars)
    BY <2>2, <2>4, CancelledDeparture, DepartureKeepsPromise DEF Tasks
  <2>5. CASE \E t \in Tasks : Step(t)
    BY <2>2, <2>5, StepKeepsPromise
  <2>6. CASE \E t \in Callers : Ask(t)
    BY <2>2, <2>6, AskKeepsPromise
  <2>7. CASE PublisherLeaves \/ MainDisconnects
    BY <2>2, <2>7, DisconnectDeparture, DepartureKeepsPromise DEF Tasks, Callers
  <2>8. CASE Environment \/ \E r \in Conns : Reader(r)
    BY <2>2, <2>8, OutsideKeepsPromise
  <2>. QED BY <2>1, <2>3, <2>4, <2>5, <2>6, <2>7, <2>8 DEF Next
<1>. QED BY <1>1, <1>2, InductiveInvariant, PTL DEF Spec, KeepsRequests, Promise!Spec
=============================================================================
