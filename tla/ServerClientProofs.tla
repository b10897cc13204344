------------------------- MODULE ServerClientProofs --------------------------
(***************************************************************************)
(* Proofs about ServerClient: IInv is inductive, and the safety properties *)
(* of the session follow from it for any set of lights.  The queue of the  *)
(* send lock is reasoned about through three lemmas, one for each way a    *)
(* step changes it (Joined, Dropped).                                      *)
(***************************************************************************)
EXTENDS ServerClient, TLAPS

\* What is left of the queue without S, with t behind it.
Joined(S, t, kind, light) ==
    /\ outbox' \in Queues
    /\ Ordered(outbox')
    /\ Queued(outbox') = (Queued(outbox) \ S) \cup {t}
    /\ outbox'[t].kind = kind
    /\ outbox'[t].light = light
    /\ outbox'[t].ahead = Queued(outbox) \ S
    /\ \A u \in S \ {t} : outbox'[u].kind = "none"
    /\ \A u \in Tasks \ (S \cup {t}) :
          /\ outbox'[u].kind = outbox[u].kind
          /\ outbox'[u].light = outbox[u].light
          /\ outbox'[u].ahead = outbox[u].ahead \ S

\* What is left of the queue without S.
Dropped(S) ==
    /\ outbox' \in Queues
    /\ Ordered(outbox')
    /\ Queued(outbox') = Queued(outbox) \ S
    /\ \A u \in S : outbox'[u].kind = "none"
    /\ \A u \in Tasks \ S :
          /\ outbox'[u].kind = outbox[u].kind
          /\ outbox'[u].light = outbox[u].light
          /\ outbox'[u].ahead = outbox[u].ahead \ S

\* A task that joins a queue is behind all of it; the order stays total.
LEMMA JoinFacts ==
    ASSUME NEW queue \in Queues, Ordered(queue), NEW t \in Tasks,
           t \notin Queued(queue), NEW kind \in Kinds \ {"none"},
           NEW light \in Lights \cup {None}
    PROVE  /\ Join(queue, t, kind, light) \in Queues
           /\ Ordered(Join(queue, t, kind, light))
           /\ Queued(Join(queue, t, kind, light)) = Queued(queue) \cup {t}
           /\ Join(queue, t, kind, light)[t] = Waiting(kind, light, Queued(queue))
           /\ \A u \in Tasks \ {t} : Join(queue, t, kind, light)[u] = queue[u]
<1>. DEFINE q == Join(queue, t, kind, light)
<1>1. q \in Queues /\ q[t] = Waiting(kind, light, Queued(queue))
  BY DEF Join, Queues, Waiting, Queued
<1>2. \A u \in Tasks \ {t} : q[u] = queue[u]
  BY DEF Join, Queues
<1>. HIDE DEF q
<1>3. Queued(q) = Queued(queue) \cup {t}
  BY <1>1, <1>2 DEF Queued, Waiting
<1>4. Ordered(q)
  <2>1. \A u \in Tasks : q[u].ahead \subseteq Queued(q) \ {u}
    BY <1>1, <1>2, <1>3 DEF Ordered, Waiting
  <2>2. \A u \in Tasks : u \notin Queued(q) => q[u] = NotWaiting
    BY <1>1, <1>2, <1>3 DEF Ordered
  <2>3. \A u, v \in Queued(q) : u = v \/ u \in q[v].ahead \/ v \in q[u].ahead
    <3>1. \A u \in Queued(queue) : u \in Tasks \ {t} /\ u \in q[t].ahead
      BY <1>1 DEF Queued, Waiting
    <3>2. \A u, v \in Queued(queue) : u = v \/ u \in q[v].ahead \/ v \in q[u].ahead
      BY <1>2, <3>1 DEF Ordered
    <3>. QED
      BY <1>3, <3>1, <3>2
  <2>. QED
    BY <2>1, <2>2, <2>3 DEF Ordered
<1>. QED
  BY <1>1, <1>2, <1>3, <1>4 DEF q

\* The queue without some tasks is the same queue without them.
LEMMA DropFacts ==
    ASSUME outbox \in Queues, Ordered(outbox), NEW S \in SUBSET Tasks
    PROVE  /\ DropFrom(S) \in Queues
           /\ Ordered(DropFrom(S))
           /\ Queued(DropFrom(S)) = Queued(outbox) \ S
           /\ \A u \in S : DropFrom(S)[u] = NotWaiting
           /\ \A u \in Tasks \ S :
                 DropFrom(S)[u] =
                     Waiting(outbox[u].kind, outbox[u].light, outbox[u].ahead \ S)
<1>. DEFINE q == DropFrom(S)
<1>1. \A u \in S : q[u] = NotWaiting
  BY DEF DropFrom
<1>2. \A u \in Tasks \ S :
        q[u] = Waiting(outbox[u].kind, outbox[u].light, outbox[u].ahead \ S)
  BY DEF DropFrom
<1>3. q \in Queues
  BY DEF DropFrom, Queues, NotWaiting, Waiting, Kinds
<1>. HIDE DEF q
<1>4. \A u \in S : q[u].kind = "none" /\ q[u].ahead = {}
  BY <1>1 DEF NotWaiting, Waiting
<1>5. \A u \in Tasks \ S :
        q[u].kind = outbox[u].kind /\ q[u].ahead = outbox[u].ahead \ S
  <2>. SUFFICES ASSUME NEW u \in Tasks \ S
                PROVE  q[u].kind = outbox[u].kind /\ q[u].ahead = outbox[u].ahead \ S
    OBVIOUS
  <2>1. q[u] = Waiting(outbox[u].kind, outbox[u].light, outbox[u].ahead \ S)
    BY <1>2
  <2>. QED
    BY <2>1 DEF Waiting
<1>6. Queued(q) = Queued(outbox) \ S
  BY <1>4, <1>5 DEF Queued
<1>7. Ordered(q)
  <2>1. \A u \in Tasks : q[u].ahead \subseteq Queued(q) \ {u}
    BY <1>4, <1>5, <1>6 DEF Ordered
  <2>2. \A u \in Tasks : u \notin Queued(q) => q[u] = NotWaiting
    <3>. SUFFICES ASSUME NEW u \in Tasks \ S, u \notin Queued(outbox)
                  PROVE  q[u] = NotWaiting
      BY <1>1, <1>6
    <3>1. outbox[u] = NotWaiting
      BY DEF Ordered
    <3>. QED
      BY <1>2, <3>1 DEF NotWaiting, Waiting
  <2>3. \A u, v \in Queued(q) : u = v \/ u \in q[v].ahead \/ v \in q[u].ahead
    BY <1>4, <1>5, <1>6 DEF Ordered, Queued
  <2>. QED
    BY <2>1, <2>2, <2>3 DEF Ordered
<1>. QED
  BY <1>1, <1>2, <1>3, <1>6, <1>7 DEF q

\* The program starts in the invariant.
LEMMA InitIInv == Init => IInv
<1>. SUFFICES ASSUME Init PROVE IInv
  OBVIOUS
<1>1. \A t \in Tasks : outbox[t].kind = "none" /\ outbox[t].ahead = {}
  BY DEF Init, NotWaiting, Waiting
<1>2. Queued(outbox) = {}
  BY <1>1 DEF Queued
<1>3. Ordered(outbox)
  BY <1>1, <1>2 DEF Ordered, Init
<1>4. TypeOK
  BY NoneIsNeither DEF Init, TypeOK, Queues, NotWaiting, Waiting, Kinds,
       Nothing, Message, Readers
<1>. QED
  BY <1>1, <1>2, <1>3, <1>4 DEF Init, IInv, LockIsHeld, TasksSendTheirOwn,
       BeforeSession, InSession, AfterSession, SessionLeavesNothing,
       LightsAreAnnounced, ReportedWasAnnounced, Tasks, Readers


\* DropFacts for a step, field by field.
LEMMA DropStep ==
    ASSUME IInv, NEW S \in SUBSET Tasks, outbox' = DropFrom(S)
    PROVE  Dropped(S)
<1>1. /\ outbox' \in Queues
      /\ Ordered(outbox')
      /\ Queued(outbox') = Queued(outbox) \ S
      /\ \A u \in S : outbox'[u] = NotWaiting
      /\ \A u \in Tasks \ S :
            outbox'[u] =
                Waiting(outbox[u].kind, outbox[u].light, outbox[u].ahead \ S)
  BY DropFacts DEF IInv, TypeOK
<1>2. \A u \in S : outbox'[u].kind = "none"
  BY <1>1 DEF NotWaiting, Waiting
<1>3. \A u \in Tasks \ S :
          /\ outbox'[u].kind = outbox[u].kind
          /\ outbox'[u].light = outbox[u].light
          /\ outbox'[u].ahead = outbox[u].ahead \ S
  <2>. SUFFICES ASSUME NEW u \in Tasks \ S
                PROVE  /\ outbox'[u].kind = outbox[u].kind
                       /\ outbox'[u].light = outbox[u].light
                       /\ outbox'[u].ahead = outbox[u].ahead \ S
    OBVIOUS
  <2>1. outbox'[u] = Waiting(outbox[u].kind, outbox[u].light, outbox[u].ahead \ S)
    BY <1>1
  <2>. QED
    BY <2>1 DEF Waiting
<1>. QED
  BY <1>1, <1>2, <1>3 DEF Dropped

\* JoinFacts for a step, field by field.
LEMMA JoinStep ==
    ASSUME IInv, NEW t \in Tasks, t \notin Queued(outbox),
           NEW kind \in Kinds \ {"none"}, NEW light \in Lights \cup {None},
           outbox' = Join(outbox, t, kind, light)
    PROVE  Joined({}, t, kind, light)
<1>1. /\ outbox' \in Queues
      /\ Ordered(outbox')
      /\ Queued(outbox') = Queued(outbox) \cup {t}
      /\ outbox'[t] = Waiting(kind, light, Queued(outbox))
      /\ \A u \in Tasks \ {t} : outbox'[u] = outbox[u]
  BY JoinFacts DEF IInv, TypeOK
<1>. QED
  BY <1>1 DEF Joined, Waiting

\* A step that drops tasks and then joins (a retried exchange, a follow-up).
LEMMA DropJoinStep ==
    ASSUME IInv, NEW S \in SUBSET Tasks, NEW t \in Tasks, t \notin Queued(outbox) \ S,
           NEW kind \in Kinds \ {"none"}, NEW light \in Lights \cup {None},
           outbox' = Join(DropFrom(S), t, kind, light)
    PROVE  Joined(S, t, kind, light)
<1>. DEFINE q == DropFrom(S)
<1>1. /\ q \in Queues
      /\ Ordered(q)
      /\ Queued(q) = Queued(outbox) \ S
      /\ \A u \in S : q[u] = NotWaiting
      /\ \A u \in Tasks \ S :
            q[u] = Waiting(outbox[u].kind, outbox[u].light, outbox[u].ahead \ S)
  BY DropFacts DEF IInv, TypeOK
<1>. HIDE DEF q
<1>2. /\ Join(q, t, kind, light) \in Queues
      /\ Ordered(Join(q, t, kind, light))
      /\ Queued(Join(q, t, kind, light)) = Queued(q) \cup {t}
      /\ Join(q, t, kind, light)[t] = Waiting(kind, light, Queued(q))
      /\ \A u \in Tasks \ {t} : Join(q, t, kind, light)[u] = q[u]
  BY <1>1, JoinFacts
<1>3. outbox' = Join(q, t, kind, light)
  BY DEF q
<1>4. \A u \in S \ {t} : outbox'[u].kind = "none"
  BY <1>1, <1>2, <1>3 DEF NotWaiting, Waiting
<1>5. \A u \in Tasks \ (S \cup {t}) :
          /\ outbox'[u].kind = outbox[u].kind
          /\ outbox'[u].light = outbox[u].light
          /\ outbox'[u].ahead = outbox[u].ahead \ S
  <2>. SUFFICES ASSUME NEW u \in Tasks \ (S \cup {t})
                PROVE  /\ outbox'[u].kind = outbox[u].kind
                       /\ outbox'[u].light = outbox[u].light
                       /\ outbox'[u].ahead = outbox[u].ahead \ S
    OBVIOUS
  <2>1. outbox'[u] = Waiting(outbox[u].kind, outbox[u].light, outbox[u].ahead \ S)
    BY <1>1, <1>2, <1>3
  <2>. QED
    BY <2>1 DEF Waiting
<1>6. /\ outbox'[t].kind = kind
      /\ outbox'[t].light = light
      /\ outbox'[t].ahead = Queued(outbox) \ S
  BY <1>1, <1>2, <1>3 DEF Waiting
<1>. QED
  BY <1>1, <1>2, <1>3, <1>4, <1>5, <1>6 DEF Joined

\* A queue that loses a reader is the same for everybody else.
LEMMA ReaderDropped ==
    ASSUME IInv, NEW r \in {current, Other}, Dropped({r})
    PROVE  /\ \A u \in {"main", "receiver", "publisher"} :
                 /\ outbox'[u].kind = outbox[u].kind
                 /\ outbox'[u].light = outbox[u].light
           /\ Queued(outbox') = Queued(outbox) \ {r}
           /\ outbox'[r].kind = "none"
           /\ \A u \in Tasks \ {r} :
                 /\ outbox'[u].kind = outbox[u].kind
                 /\ outbox'[u].light = outbox[u].light
                 /\ "receiver" \in outbox'[u].ahead <=> "receiver" \in outbox[u].ahead
<1>1. r \in Readers
  BY DEF IInv, TypeOK, Readers, Other
<1>2. "receiver" # r /\ {"main", "receiver", "publisher"} \subseteq Tasks \ {r}
  BY <1>1 DEF Readers, Tasks
<1>. QED
  BY <1>1, <1>2 DEF Dropped

\* What the readers send, when the driver's connection is closed.
LEMMA ClosedReaders ==
    ASSUME IInv, Dropped({current}), connected' = FALSE, UNCHANGED readers
    PROVE  TasksSendTheirOwn'
<1>. USE ReaderDropped DEF IInv, TasksSendTheirOwn, readers
<1>1. \A t \in Readers : t # current =>
         outbox'[t].kind = outbox[t].kind
  BY DEF Tasks
<1>2. outbox'[current].kind = "none"
  OBVIOUS
<1>. QED
  BY <1>1, <1>2

\* The lights announced are the same.
LEMMA ReaderDroppedLights ==
    ASSUME IInv, NEW r \in {current, Other}, Dropped({r}),
           UNCHANGED <<ws, bound, told>>, main' = "session" => main = "session"
    PROVE  LightsAreAnnounced'
<1>. SUFFICES ASSUME (main = "session" /\ ws = "open")'
              PROVE  /\ bound' = IF outbox'["receiver"].kind = "paired"
                                   THEN outbox'["receiver"].light ELSE told'
                     /\ \A t \in Tasks :
                           outbox'[t].kind \in {"state", "applied"} =>
                               outbox'[t].light = ToldBefore(t)'
  BY DEF LightsAreAnnounced
<1>1. /\ bound = IF outbox["receiver"].kind = "paired"
                   THEN outbox["receiver"].light ELSE told
      /\ \A t \in Tasks :
            outbox[t].kind \in {"state", "applied"} => outbox[t].light = ToldBefore(t)
  BY DEF IInv, LightsAreAnnounced
<1>. QED
  BY <1>1, ReaderDropped DEF ToldBefore

\* What the readers send, when connect is done.
LEMMA ConnectedReaders ==
    ASSUME IInv, Connected, UNCHANGED outbox
    PROVE  TasksSendTheirOwn' /\ current' \in Readers /\ stray' \in BOOLEAN
<1>. USE DEF IInv, TypeOK, TasksSendTheirOwn, Connected, readers, Readers, Other
<1>1. CASE connected
  <2>1. current' = Other /\ stray' = TRUE /\ connected' = TRUE
    BY <1>1
  <2>. QED
    BY <2>1
<1>2. CASE ~connected
  <2>1. current' = current /\ stray' = stray /\ connected' = TRUE
    BY <1>2
  <2>. QED
    BY <1>2, <2>1
<1>. QED
  BY <1>1, <1>2

-----------------------------------------------------------------------------
\* The steps that leave the queue alone preserve the invariant.
LEMMA QuietSteps ==
    ASSUME IInv, UNCHANGED outbox,
           \/ SignalStop \/ ServerCloses \/ LoopHead \/ ConnectFails
           \/ \E work \in {"discovering", "wantsPairing", "commanding"} : Receive(work)
           \/ ReceiverEnds \/ Reject \/ StartScan \/ Reach \/ Reached
           \/ Check \/ NapOver \/ Open \/ Poll \/ IntervalOver
           \/ \E made \in BOOLEAN : Opened(made)
           \/ Unsubscribe \/ PauseOver \/ ScanEnds
           \/ OpenFails(FALSE) \/ PollFails(FALSE)
           \/ UNCHANGED vars
    PROVE  IInv'
<1>1. Ordered(outbox)' /\ outbox' \in Queues
  BY DEF IInv, Ordered, TypeOK, Queued
<1>. USE NoneIsNeither, <1>1 DEF IInv, TypeOK, LockIsHeld, TasksSendTheirOwn,
       BeforeSession, InSession, AfterSession, SessionLeavesNothing,
       LightsAreAnnounced, ReportedWasAnnounced, ToldBefore, Queued, session,
       device, readers
<1>2. CASE SignalStop
  BY <1>2 DEF SignalStop
<1>3. CASE ServerCloses
  BY <1>3 DEF ServerCloses
<1>4. CASE LoopHead
  BY <1>4 DEF LoopHead
<1>5. CASE ConnectFails
  BY <1>5 DEF ConnectFails
<1>6. CASE Reach
  BY <1>6 DEF Reach
<1>7. CASE ReceiverEnds
  BY <1>7 DEF ReceiverEnds, Receiving
<1>8. CASE Reject
  BY <1>8 DEF Reject
<1>9. CASE StartScan
  BY <1>9 DEF StartScan
<1>10. CASE Check
  BY <1>10 DEF Check
<1>11. CASE NapOver
  BY <1>11 DEF NapOver
<1>12. CASE Open
  BY <1>12 DEF Open, Acquire
<1>13. CASE Poll
  BY <1>13 DEF Poll, Acquire
<1>14. ASSUME NEW made \in BOOLEAN, Opened(made)
       PROVE  IInv'
  <2>1. subscribed' \in BOOLEAN
    BY <1>14 DEF Opened
  <2>2. CASE made
    <3>1. /\ TasksSendTheirOwn' /\ current' \in Readers /\ stray' \in BOOLEAN
          /\ connected' = TRUE
      BY <1>14, <2>2, ConnectedReaders DEF Opened, Connected
    <3>2. TypeOK'
      BY <1>14, <2>1, <3>1 DEF Opened
    <3>. QED
      BY <1>14, <3>1, <3>2 DEF Opened
  <2>3. CASE ~made
    BY <1>14, <2>1, <2>3 DEF Opened
  <2>. QED
    BY <2>2, <2>3
<1>15. CASE IntervalOver
  BY <1>15 DEF IntervalOver
<1>16. CASE Unsubscribe
  <2>1. subscribed' \in BOOLEAN
    BY <1>16 DEF Unsubscribe
  <2>2. TypeOK'
    BY <1>16, <2>1 DEF Unsubscribe
  <2>. QED
    BY <1>16, <2>2 DEF Unsubscribe
<1>17. CASE PauseOver
  BY <1>17 DEF PauseOver
<1>18. CASE ScanEnds
  <2>1. scan' \in BOOLEAN
    BY <1>18 DEF ScanEnds
  <2>2. TypeOK'
    BY <1>18, <2>1 DEF ScanEnds
  <2>. QED
    BY <1>18, <2>2 DEF ScanEnds
<1>19. ASSUME NEW work \in {"discovering", "wantsPairing", "commanding"},
             Receive(work)
      PROVE  IInv'
  BY <1>19 DEF Receive, Receiving
<1>20. CASE OpenFails(FALSE)
  BY <1>20 DEF OpenFails, MayClose
<1>21. CASE PollFails(FALSE)
  BY <1>21 DEF PollFails, MayClose
<1>22. CASE UNCHANGED vars
  BY <1>22 DEF vars
<1>23. CASE Reached
  <2>1. /\ TasksSendTheirOwn' /\ current' \in Readers /\ stray' \in BOOLEAN
        /\ connected' = TRUE
    BY <1>23, ConnectedReaders DEF Reached, Connected
  <2>2. TypeOK'
    BY <1>23, <2>1 DEF Reached
  <2>. QED
    BY <1>23, <2>1, <2>2 DEF Reached
<1>. QED
  BY <1>2, <1>3, <1>4, <1>5, <1>6, <1>7, <1>8, <1>9, <1>10, <1>11, <1>12,
     <1>13, <1>14, <1>15, <1>16, <1>17, <1>18, <1>19, <1>20, <1>21, <1>22,
     <1>23

-----------------------------------------------------------------------------
\* The steps by which a task queues a message preserve it.
LEMMA JoinSteps ==
    ASSUME IInv,
           \/ Discovered \/ ScanReturns \/ ScanTimesOut \/ RefusePairing
           \/ PairingFails \/ (\E l \in Lights : Paired(l)) \/ Connect
           \/ Push \/ StrayPush
           \/ \E kind \in {"applied", "result"} : CommandAnswered(kind)
    PROVE  IInv'
<1>1. /\ main = "session" /\ receiver # "sending" => "receiver" \notin Queued(outbox)
      /\ main = "session" /\ publisher # "publishing" => "publisher" \notin Queued(outbox)
      /\ main \in {"start", "connecting"} => "main" \notin Queued(outbox)
      /\ receiver \notin {"none", "done"} => main = "session"
      /\ publisher = "polling" => main = "session"
      /\ {"main", "receiver", "publisher", current, Other} \subseteq Tasks
      /\ {"register", "discovery", "applied", "result", "paired",
           "pairing_failed", "state"} \subseteq Kinds \ {"none"}
      /\ bound \in Lights \cup {None}
  BY DEF IInv, TypeOK, InSession, BeforeSession, AfterSession,
       SessionLeavesNothing, Queued, Tasks, Kinds, Readers, Other
<1>2. ASSUME NEW t \in {current, Other}, PushFrom(t)
      PROVE  Joined({}, t, "state", bound)
  BY <1>1, <1>2, JoinStep DEF Queue, PushFrom
<1>3. ASSUME Discovered
      PROVE  Joined({}, "receiver", "discovery", None)
  BY <1>1, <1>3, JoinStep DEF Queue, Discovered, Answer
<1>4. ASSUME ScanReturns
      PROVE  Joined({}, "receiver", "discovery", None)
  BY <1>1, <1>4, JoinStep DEF Queue, ScanReturns, Answer
<1>5. ASSUME ScanTimesOut
      PROVE  Joined({}, "receiver", "discovery", None)
  BY <1>1, <1>5, JoinStep DEF Queue, ScanTimesOut, Answer
<1>6. ASSUME RefusePairing
      PROVE  Joined({}, "receiver", "pairing_failed", None)
  BY <1>1, <1>6, JoinStep DEF Queue, RefusePairing
<1>7. ASSUME PairingFails
      PROVE  Joined({}, "receiver", "pairing_failed", None)
  BY <1>1, <1>7, JoinStep DEF Queue, PairingFails
<1>8. ASSUME NEW l \in Lights, Paired(l)
      PROVE  Joined({}, "receiver", "paired", l)
  BY <1>1, <1>8, JoinStep DEF Queue, Paired
<1>9. ASSUME Connect
      PROVE  Joined({}, "main", "register", bound)
  BY <1>1, <1>9, JoinStep DEF Queue, Connect
<1>. USE NoneIsNeither DEF IInv, TypeOK, LockIsHeld,
       TasksSendTheirOwn, BeforeSession, InSession, AfterSession,
       SessionLeavesNothing, LightsAreAnnounced, ReportedWasAnnounced, ToldBefore,
       Queued, session, device, readers, Tasks, Readers, Other, Kinds
<1>10. ASSUME NEW t \in {current, Other}, PushFrom(t),
             IF t = current THEN connected ELSE stray
      PROVE  IInv'
  <2>1. Joined({}, t, "state", bound)
    BY <1>2, <1>10
  <2>2. connected' \in BOOLEAN /\ scan' \in BOOLEAN /\ subscribed' \in BOOLEAN
    BY <1>10 DEF Queue, PushFrom
  <2>3. TypeOK'
    BY <1>10, <2>1, <2>2 DEF PushFrom, Joined
  <2>4. (LockIsHeld /\ TasksSendTheirOwn /\ BeforeSession /\ InSession)'
    BY <1>10, <2>1, <2>3 DEF PushFrom, Joined
  <2>5. (AfterSession /\ SessionLeavesNothing /\ ReportedWasAnnounced)'
    BY <1>10, <2>1, <2>3 DEF PushFrom, Joined
  <2>6. LightsAreAnnounced'
    BY <1>10, <2>1 DEF PushFrom, Joined
  <2>. QED
    BY <2>1, <2>3, <2>4, <2>5, <2>6 DEF Joined
<1>11. ASSUME Discovered
      PROVE  IInv'
  <2>1. Joined({}, "receiver", "discovery", None)
    BY <1>3, <1>11
  <2>2. connected' \in BOOLEAN /\ scan' \in BOOLEAN /\ subscribed' \in BOOLEAN
    BY <1>11 DEF Queue, Discovered, Answer
  <2>3. TypeOK'
    BY <1>11, <2>1, <2>2 DEF Queue, Discovered, Answer, Joined
  <2>. QED
    BY <1>11, <2>1, <2>3 DEF Queue, Discovered, Answer, Joined
<1>12. ASSUME ScanReturns
      PROVE  IInv'
  <2>1. Joined({}, "receiver", "discovery", None)
    BY <1>4, <1>12
  <2>2. connected' \in BOOLEAN /\ scan' \in BOOLEAN /\ subscribed' \in BOOLEAN
    BY <1>12 DEF Queue, ScanReturns, Answer
  <2>3. TypeOK'
    BY <1>12, <2>1, <2>2 DEF Queue, ScanReturns, Answer, Joined
  <2>. QED
    BY <1>12, <2>1, <2>3 DEF Queue, ScanReturns, Answer, Joined
<1>13. ASSUME ScanTimesOut
      PROVE  IInv'
  <2>1. Joined({}, "receiver", "discovery", None)
    BY <1>5, <1>13
  <2>2. connected' \in BOOLEAN /\ scan' \in BOOLEAN /\ subscribed' \in BOOLEAN
    BY <1>13 DEF Queue, ScanTimesOut, Answer
  <2>3. TypeOK'
    BY <1>13, <2>1, <2>2 DEF Queue, ScanTimesOut, Answer, Joined
  <2>. QED
    BY <1>13, <2>1, <2>3 DEF Queue, ScanTimesOut, Answer, Joined
<1>14. ASSUME RefusePairing
      PROVE  IInv'
  <2>1. Joined({}, "receiver", "pairing_failed", None)
    BY <1>6, <1>14
  <2>2. connected' \in BOOLEAN /\ scan' \in BOOLEAN /\ subscribed' \in BOOLEAN
    BY <1>14 DEF Queue, RefusePairing
  <2>3. TypeOK'
    BY <1>14, <2>1, <2>2 DEF Queue, RefusePairing, Joined
  <2>. QED
    BY <1>14, <2>1, <2>3 DEF Queue, RefusePairing, Joined
<1>15. ASSUME PairingFails
      PROVE  IInv'
  <2>1. Joined({}, "receiver", "pairing_failed", None)
    BY <1>7, <1>15
  <2>2. connected' \in BOOLEAN /\ scan' \in BOOLEAN /\ subscribed' \in BOOLEAN
    BY <1>15 DEF Queue, PairingFails
  <2>3. TypeOK'
    BY <1>15, <2>1, <2>2 DEF Queue, PairingFails, Joined
  <2>. QED
    BY <1>15, <2>1, <2>3 DEF Queue, PairingFails, Joined
<1>16. ASSUME NEW l \in Lights, Paired(l)
      PROVE  IInv'
  <2>1. Joined({}, "receiver", "paired", l)
    BY <1>8, <1>16
  <2>2. connected' \in BOOLEAN /\ scan' \in BOOLEAN /\ subscribed' \in BOOLEAN
    BY <1>16 DEF Queue, Paired
  <2>3. TypeOK'
    BY <1>16, <2>1, <2>2 DEF Queue, Paired, Joined
  <2>4. \A t \in Tasks : "receiver" \notin outbox[t].ahead /\ outbox'[t].kind # "applied"
    BY <1>16, <2>1 DEF Paired, Joined, Ordered
  <2>5. LightsAreAnnounced'
    BY <1>16, <2>1, <2>4 DEF Paired, Joined
  <2>6. (LockIsHeld /\ TasksSendTheirOwn /\ BeforeSession /\ InSession)'
    BY <1>16, <2>1, <2>3 DEF Paired, Joined
  <2>7. (AfterSession /\ SessionLeavesNothing /\ ReportedWasAnnounced)'
    BY <1>16, <2>1, <2>3 DEF Paired, Joined
  <2>. QED
    BY <2>1, <2>3, <2>5, <2>6, <2>7 DEF Joined
<1>17. ASSUME Connect
      PROVE  IInv'
  <2>1. Joined({}, "main", "register", bound)
    BY <1>9, <1>17
  <2>2. connected' \in BOOLEAN /\ scan' \in BOOLEAN /\ subscribed' \in BOOLEAN
    BY <1>17 DEF Queue, Connect
  <2>3. TypeOK'
    BY <1>17, <2>1, <2>2 DEF Nothing, Message, Queue, Connect, Joined
  <2>. QED
    BY <1>17, <2>1, <2>3 DEF Nothing, Message, Queue, Connect, Joined
<1>18. ASSUME NEW kind \in {"applied", "result"}, CommandAnswered(kind)
      PROVE  IInv'
  <2>1. Joined({}, "receiver", kind, bound)
    BY <1>1, <1>18, JoinStep DEF Queue, CommandAnswered
  <2>2. connected' \in BOOLEAN /\ scan' \in BOOLEAN /\ subscribed' \in BOOLEAN
    BY <1>18 DEF CommandAnswered
  <2>3. TypeOK'
    BY <1>18, <2>1, <2>2 DEF CommandAnswered, Joined
  <2>4. (LockIsHeld /\ TasksSendTheirOwn /\ BeforeSession /\ InSession)'
    BY <1>18, <2>1, <2>3 DEF CommandAnswered, Joined
  <2>5. (AfterSession /\ SessionLeavesNothing /\ ReportedWasAnnounced)'
    BY <1>18, <2>1, <2>3 DEF CommandAnswered, Joined
  <2>6. LightsAreAnnounced'
    BY <1>18, <2>1 DEF CommandAnswered, Joined
  <2>. QED
    BY <2>1, <2>3, <2>4, <2>5, <2>6 DEF Joined
<1>19. ASSUME Push \/ StrayPush
      PROVE  IInv'
  BY <1>10, <1>19 DEF Push, StrayPush
<1>. QED
  BY <1>11, <1>12, <1>13, <1>14, <1>15, <1>16, <1>17, <1>18, <1>19

\* The steps by which tasks leave the queue unsent preserve it: a closed
\* connection, a failed send, the end of a session.
LEMMA DropSteps ==
    ASSUME IInv,
           \/ StartPairing \/ EndSession \/ CloseDriver \/ Disconnect
           \/ AttemptFails \/ Backoff
           \/ OpenFails(TRUE) \/ PollFails(TRUE)
           \/ \E t \in Tasks : SendFails(t)
    PROVE  IInv'
<1>1. {"main", "receiver", "publisher", current, Other} \subseteq Tasks
  BY DEF Tasks, Readers, Other, IInv, TypeOK
<1>2. ASSUME StartPairing
      PROVE  Dropped({current})
  BY <1>1, <1>2, DropStep DEF StartPairing, ClosedDevice
<1>3. ASSUME CloseDriver
      PROVE  Dropped({current})
  BY <1>1, <1>3, DropStep DEF CloseDriver, ClosedDevice
<1>4. ASSUME Disconnect
      PROVE  Dropped({current})
  BY <1>1, <1>4, DropStep DEF Disconnect, ClosedDevice
<1>5. ASSUME OpenFails(TRUE)
      PROVE  Dropped({current})
  BY <1>1, <1>5, DropStep DEF OpenFails, MayClose, ClosedDevice
<1>6. ASSUME PollFails(TRUE)
      PROVE  Dropped({current})
  BY <1>1, <1>6, DropStep DEF PollFails, MayClose, ClosedDevice
<1>7. ASSUME EndSession, outbox' = DropFrom({"receiver", "publisher", current})
      PROVE  Dropped({"receiver", "publisher", current})
  BY <1>1, <1>7, DropStep
<1>8. ASSUME EndSession, outbox' = DropFrom({"receiver", "publisher"})
      PROVE  Dropped({"receiver", "publisher"})
  BY <1>1, <1>8, DropStep
<1>9. ASSUME NEW t \in Tasks, SendFails(t)
      PROVE  Dropped({t})
  BY <1>1, <1>9, DropStep DEF SendFails, Served
<1>. USE NoneIsNeither DEF IInv, TypeOK, LockIsHeld,
       TasksSendTheirOwn, BeforeSession, InSession, AfterSession,
       SessionLeavesNothing, LightsAreAnnounced, ReportedWasAnnounced, ToldBefore,
       Queued, session, device, readers, Tasks, Readers, Other, Kinds
<1>10. ASSUME StartPairing
      PROVE  IInv'
  <2>1. Dropped({current})
    BY <1>2, <1>10
  <2>2. connected' \in BOOLEAN /\ subscribed' \in BOOLEAN /\ cancelled' \in BOOLEAN
    BY <1>10 DEF StartPairing, ClosedDevice
  <2>3. TypeOK'
    BY <1>10, <2>1, <2>2 DEF StartPairing, ClosedDevice, Dropped
  <2>4. connected' = FALSE /\ UNCHANGED readers
    BY <1>10 DEF StartPairing, ClosedDevice
  <2>7. TasksSendTheirOwn'
    BY <2>1, <2>4, ClosedReaders
  <2>8. (LockIsHeld /\ BeforeSession /\ InSession)'
    BY <1>10, <2>1, <2>3, ReaderDropped DEF StartPairing, ClosedDevice
  <2>5. (AfterSession /\ SessionLeavesNothing /\ ReportedWasAnnounced)'
    BY <1>10, <2>1, <2>3 DEF StartPairing, ClosedDevice, Dropped
  <2>6. LightsAreAnnounced'
    BY <1>10, <2>1, ReaderDroppedLights DEF StartPairing, ClosedDevice
  <2>. QED
    BY <2>1, <2>3, <2>5, <2>6, <2>7, <2>8 DEF Dropped
<1>11. ASSUME CloseDriver
      PROVE  IInv'
  <2>1. Dropped({current})
    BY <1>3, <1>11
  <2>2. connected' \in BOOLEAN /\ subscribed' \in BOOLEAN /\ cancelled' \in BOOLEAN
    BY <1>11 DEF CloseDriver, ClosedDevice
  <2>3. TypeOK'
    BY <1>11, <2>1, <2>2 DEF CloseDriver, ClosedDevice, Dropped
  <2>4. connected' = FALSE /\ UNCHANGED readers
    BY <1>11 DEF CloseDriver, ClosedDevice
  <2>7. TasksSendTheirOwn'
    BY <2>1, <2>4, ClosedReaders
  <2>8. (LockIsHeld /\ BeforeSession /\ InSession)'
    BY <1>11, <2>1, <2>3, ReaderDropped DEF CloseDriver, ClosedDevice
  <2>5. (AfterSession /\ SessionLeavesNothing /\ ReportedWasAnnounced)'
    BY <1>11, <2>1, <2>3 DEF CloseDriver, ClosedDevice, Dropped
  <2>6. LightsAreAnnounced'
    BY <1>11, <2>1, ReaderDroppedLights DEF CloseDriver, ClosedDevice
  <2>. QED
    BY <2>1, <2>3, <2>5, <2>6, <2>7, <2>8 DEF Dropped
<1>12. ASSUME Disconnect
      PROVE  IInv'
  <2>1. Dropped({current})
    BY <1>4, <1>12
  <2>2. connected' \in BOOLEAN /\ subscribed' \in BOOLEAN /\ cancelled' \in BOOLEAN
    BY <1>12 DEF Disconnect, ClosedDevice
  <2>3. TypeOK'
    BY <1>12, <2>1, <2>2 DEF Disconnect, ClosedDevice, Dropped
  <2>4. connected' = FALSE /\ UNCHANGED readers
    BY <1>12 DEF Disconnect, ClosedDevice
  <2>7. TasksSendTheirOwn'
    BY <2>1, <2>4, ClosedReaders
  <2>8. (LockIsHeld /\ BeforeSession /\ InSession)'
    BY <1>12, <2>1, <2>3, ReaderDropped DEF Disconnect, ClosedDevice
  <2>5. (AfterSession /\ SessionLeavesNothing /\ ReportedWasAnnounced)'
    BY <1>12, <2>1, <2>3 DEF Disconnect, ClosedDevice, Dropped
  <2>6. LightsAreAnnounced'
    BY <1>12, <2>1, ReaderDroppedLights DEF Disconnect, ClosedDevice
  <2>. QED
    BY <2>1, <2>3, <2>5, <2>6, <2>7, <2>8 DEF Dropped
<1>13. ASSUME OpenFails(TRUE)
      PROVE  IInv'
  <2>1. Dropped({current})
    BY <1>5, <1>13
  <2>2. connected' \in BOOLEAN /\ subscribed' \in BOOLEAN /\ cancelled' \in BOOLEAN
    BY <1>13 DEF OpenFails, MayClose, ClosedDevice
  <2>3. TypeOK'
    BY <1>13, <2>1, <2>2 DEF OpenFails, MayClose, ClosedDevice, Dropped
  <2>4. connected' = FALSE /\ UNCHANGED readers
    BY <1>13 DEF OpenFails, MayClose, ClosedDevice
  <2>7. TasksSendTheirOwn'
    BY <2>1, <2>4, ClosedReaders
  <2>8. (LockIsHeld /\ BeforeSession /\ InSession)'
    BY <1>13, <2>1, <2>3, ReaderDropped DEF OpenFails, MayClose, ClosedDevice
  <2>5. (AfterSession /\ SessionLeavesNothing /\ ReportedWasAnnounced)'
    BY <1>13, <2>1, <2>3 DEF OpenFails, MayClose, ClosedDevice, Dropped
  <2>6. LightsAreAnnounced'
    BY <1>13, <2>1, ReaderDroppedLights DEF OpenFails, MayClose, ClosedDevice
  <2>. QED
    BY <2>1, <2>3, <2>5, <2>6, <2>7, <2>8 DEF Dropped
<1>14. ASSUME PollFails(TRUE)
      PROVE  IInv'
  <2>1. Dropped({current})
    BY <1>6, <1>14
  <2>2. connected' \in BOOLEAN /\ subscribed' \in BOOLEAN /\ cancelled' \in BOOLEAN
    BY <1>14 DEF PollFails, MayClose, ClosedDevice
  <2>3. TypeOK'
    BY <1>14, <2>1, <2>2 DEF PollFails, MayClose, ClosedDevice, Dropped
  <2>4. connected' = FALSE /\ UNCHANGED readers
    BY <1>14 DEF PollFails, MayClose, ClosedDevice
  <2>7. TasksSendTheirOwn'
    BY <2>1, <2>4, ClosedReaders
  <2>8. (LockIsHeld /\ BeforeSession /\ InSession)'
    BY <1>14, <2>1, <2>3, ReaderDropped DEF PollFails, MayClose, ClosedDevice
  <2>5. (AfterSession /\ SessionLeavesNothing /\ ReportedWasAnnounced)'
    BY <1>14, <2>1, <2>3 DEF PollFails, MayClose, ClosedDevice, Dropped
  <2>6. LightsAreAnnounced'
    BY <1>14, <2>1, ReaderDroppedLights DEF PollFails, MayClose, ClosedDevice
  <2>. QED
    BY <2>1, <2>3, <2>5, <2>6, <2>7, <2>8 DEF Dropped
<1>15. ASSUME EndSession, ~connected',
             outbox' = DropFrom({"receiver", "publisher", current})
      PROVE  IInv'
  <2>1. Dropped({"receiver", "publisher", current})
    BY <1>7, <1>15
  <2>2. connected' \in BOOLEAN /\ subscribed' \in BOOLEAN /\ cancelled' \in BOOLEAN
    BY <1>15 DEF EndSession, FinallyOf
  <2>3. TypeOK'
    BY <1>15, <2>1, <2>2 DEF EndSession, FinallyOf, Dropped
  <2>4. /\ main' = "gathering" /\ driverLock' = None /\ cancelled'
        /\ receiver' = "done"
        /\ publisher' \in {"unsubscribing", "disconnecting", "done"}
        /\ connected' = FALSE /\ UNCHANGED <<current, stray>>
    BY <1>15 DEF EndSession, FinallyOf
  <2>7. TasksSendTheirOwn'
    <3>1. /\ \A u \in Tasks : outbox'[u].kind \in {"none", outbox[u].kind}
          /\ outbox'[current].kind = "none"
      BY <2>1 DEF Dropped
    <3>. QED
      BY <2>4, <3>1
  <2>8. (LockIsHeld /\ BeforeSession /\ InSession)'
    BY <2>4
  <2>5. (AfterSession /\ SessionLeavesNothing /\ ReportedWasAnnounced)'
    <3>1. outbox["main"].kind = "none"
      BY <1>15 DEF EndSession
    <3>2. \A u \in {"main", "receiver", "publisher"} : outbox'[u].kind = "none"
      BY <2>1, <3>1 DEF Dropped
    <3>3. Queued(outbox') \subseteq Readers
      BY <3>2
    <3>. QED
      BY <2>4, <3>3
  <2>6. LightsAreAnnounced'
    BY <1>15, <2>1 DEF EndSession, FinallyOf, Dropped
  <2>. QED
    BY <2>1, <2>3, <2>5, <2>6, <2>7, <2>8 DEF Dropped
<1>16. ASSUME EndSession, UNCHANGED connected,
             outbox' = DropFrom({"receiver", "publisher"})
      PROVE  IInv'
  <2>1. Dropped({"receiver", "publisher"})
    BY <1>8, <1>16
  <2>2. connected' \in BOOLEAN /\ subscribed' \in BOOLEAN /\ cancelled' \in BOOLEAN
    BY <1>16 DEF EndSession, FinallyOf
  <2>3. TypeOK'
    BY <1>16, <2>1, <2>2 DEF EndSession, FinallyOf, Dropped
  <2>4. (LockIsHeld /\ TasksSendTheirOwn /\ BeforeSession /\ InSession)'
    BY <1>16, <2>1, <2>3 DEF EndSession, FinallyOf, Dropped
  <2>5. (AfterSession /\ SessionLeavesNothing /\ ReportedWasAnnounced)'
    BY <1>16, <2>1, <2>3 DEF EndSession, FinallyOf, Dropped
  <2>6. LightsAreAnnounced'
    BY <1>16, <2>1 DEF EndSession, FinallyOf, Dropped
  <2>. QED
    BY <2>1, <2>3, <2>4, <2>5, <2>6 DEF Dropped
<1>17. ASSUME NEW t \in Tasks, SendFails(t)
      PROVE  IInv'
  <2>1. Dropped({t})
    BY <1>9, <1>17
  <2>2. connected' \in BOOLEAN /\ subscribed' \in BOOLEAN /\ cancelled' \in BOOLEAN
    BY <1>17 DEF SendFails, Served
  <2>3. TypeOK'
    BY <1>17, <2>1, <2>2 DEF SendFails, Served, Dropped
  <2>4. /\ t = "main" => main = "registering"
        /\ t \in {"receiver", "publisher"} => main = "session"
        /\ t \in Readers => main \in {"session", "gathering", "backoff"}
    BY <1>17 DEF SendFails, Served
  <2>5. LockIsHeld'
    BY <1>17, <2>1, <2>4 DEF SendFails, Served, Dropped
  <2>6. TasksSendTheirOwn'
    <3>1. \A u \in Tasks : outbox'[u].kind \in {"none", outbox[u].kind}
      BY <2>1 DEF Dropped
    <3>2. UNCHANGED <<connected, current, stray>>
      BY <1>17 DEF SendFails
    <3>. QED
      BY <3>1, <3>2
  <2>7. BeforeSession'
    BY <1>17, <2>1, <2>4 DEF SendFails, Served, Dropped
  <2>8. InSession'
    <3>1. CASE t = "main"
      BY <1>17, <2>4, <3>1 DEF SendFails
    <3>2. CASE t = "receiver"
      BY <1>17, <2>1, <2>4, <3>2 DEF SendFails, Dropped
    <3>3. CASE t = "publisher"
      BY <1>17, <2>1, <2>4, <3>3 DEF SendFails, Dropped
    <3>4. CASE t \in Readers
      <4>1. t \notin {"main", "receiver", "publisher"}
        BY <3>4
      <4>2. \A u \in {"main", "receiver", "publisher"} : outbox'[u].kind = outbox[u].kind
        BY <2>1, <4>1 DEF Dropped
      <4>3. UNCHANGED <<main, receiver, publisher, cancelled>>
        BY <1>17, <4>1 DEF SendFails
      <4>. QED
        BY <4>2, <4>3
    <3>. QED
      BY <3>1, <3>2, <3>3, <3>4
  <2>9. AfterSession'
    BY <1>17, <2>1, <2>4 DEF SendFails, Served, Dropped
  <2>10. SessionLeavesNothing'
    <3>1. CASE t = "main"
      BY <1>17, <2>1, <2>4, <3>1 DEF SendFails, Dropped
    <3>2. CASE t # "main"
      BY <1>17, <2>1, <2>4, <3>2 DEF SendFails, Dropped
    <3>. QED
      BY <3>1, <3>2
  <2>11. ReportedWasAnnounced'
    BY <1>17, <2>1, <2>4 DEF SendFails, Served, Dropped
  <2>12. LightsAreAnnounced'
    BY <1>17, <2>1 DEF SendFails, Served, Dropped
  <2>. QED
    BY <2>1, <2>3, <2>5, <2>6, <2>7, <2>8, <2>9, <2>10, <2>11, <2>12 DEF Dropped
<1>18. ASSUME AttemptFails
      PROVE  IInv'
  <2>1. Dropped({current})
    BY <1>1, <1>18, DropStep DEF AttemptFails, ClosedDevice
  <2>2. connected' \in BOOLEAN /\ subscribed' \in BOOLEAN /\ cancelled' \in BOOLEAN
    BY <1>18 DEF AttemptFails, ClosedDevice
  <2>3. TypeOK'
    BY <1>18, <2>1, <2>2 DEF AttemptFails, ClosedDevice, Dropped
  <2>4. connected' = FALSE /\ UNCHANGED readers
    BY <1>18 DEF AttemptFails, ClosedDevice
  <2>7. TasksSendTheirOwn'
    BY <2>1, <2>4, ClosedReaders
  <2>8. (LockIsHeld /\ BeforeSession /\ InSession)'
    BY <1>18, <2>1, <2>3, ReaderDropped DEF AttemptFails, ClosedDevice
  <2>5. (AfterSession /\ SessionLeavesNothing /\ ReportedWasAnnounced)'
    BY <1>18, <2>1, <2>3 DEF AttemptFails, ClosedDevice, Dropped
  <2>6. LightsAreAnnounced'
    BY <1>18, <2>1, ReaderDroppedLights DEF AttemptFails, ClosedDevice
  <2>. QED
    BY <2>1, <2>3, <2>5, <2>6, <2>7, <2>8 DEF Dropped
<1>19. ASSUME Backoff
      PROVE  IInv'
  <2>1. Dropped({Other})
    BY <1>1, <1>19, DropStep DEF Backoff
  <2>2. /\ main = "backoff" /\ main' = "exited"
        /\ stray' = FALSE /\ connected' = FALSE
        /\ UNCHANGED <<stop, ws, receiver, publisher, cancelled, driverLock,
                       bound, subscribed, current, told, wire, scan>>
    BY <1>19 DEF Backoff
  <2>8. connected' \in BOOLEAN /\ stray' \in BOOLEAN
    BY <2>2
  <2>3. TypeOK'
    BY <2>1, <2>2, <2>8 DEF Dropped
  <2>4. \A u \in Tasks : outbox'[u].kind = "none"
    BY <2>1, <2>2 DEF Dropped
  <2>5. (TasksSendTheirOwn /\ SessionLeavesNothing)'
    BY <2>2, <2>4
  <2>6. (LockIsHeld /\ BeforeSession /\ InSession)'
    BY <2>2
  <2>7. (AfterSession /\ ReportedWasAnnounced /\ LightsAreAnnounced)'
    BY <2>2
  <2>. QED
    BY <2>1, <2>3, <2>5, <2>6, <2>7 DEF Dropped
<1>20. ASSUME EndSession PROVE IInv'
  BY <1>15, <1>16, <1>20 DEF EndSession
<1>. QED
  BY <1>10, <1>11, <1>12, <1>13, <1>14, <1>17, <1>18, <1>19, <1>20

\* A poll that is answered, with or without retries, preserves it.
LEMMA PolledSteps ==
    ASSUME IInv, \E retried \in BOOLEAN : Polled(retried)
    PROVE  IInv'
<1>1. /\ main = "session" /\ receiver # "sending" => "receiver" \notin Queued(outbox)
      /\ main = "session" /\ publisher # "publishing" => "publisher" \notin Queued(outbox)
      /\ receiver \notin {"none", "done"} => main = "session"
      /\ publisher = "polling" => main = "session"
      /\ {"main", "receiver", "publisher", current, Other} \subseteq Tasks
      /\ {"register", "discovery", "applied", "result", "paired",
           "pairing_failed", "state"} \subseteq Kinds \ {"none"}
      /\ bound \in Lights \cup {None}
  BY DEF IInv, TypeOK, InSession, BeforeSession, AfterSession,
       SessionLeavesNothing, Queued, Tasks, Kinds, Readers, Other
<1>2. ASSUME Polled(FALSE)
      PROVE  Joined({}, "publisher", "state", bound)
  BY <1>1, <1>2, JoinStep DEF Polled, Exchanged
<1>3. ASSUME Polled(TRUE)
      PROVE  Joined({current}, "publisher", "state", bound)
  BY <1>1, <1>3, DropJoinStep DEF Polled, Exchanged
<1>. USE NoneIsNeither DEF IInv, TypeOK, LockIsHeld,
       TasksSendTheirOwn, BeforeSession, InSession, AfterSession,
       SessionLeavesNothing, LightsAreAnnounced, ReportedWasAnnounced, ToldBefore,
       Queued, session, device, readers, Tasks, Readers, Other, Kinds
<1>6. ASSUME Polled(FALSE)
      PROVE  IInv'
  <2>1. Joined({}, "publisher", "state", bound)
    BY <1>2, <1>6
  <2>2. /\ publisher = "polling" /\ publisher' = "publishing"
        /\ connected' /\ connected' \in BOOLEAN /\ driverLock' = None
        /\ UNCHANGED <<stop, main, ws, receiver, cancelled, bound, subscribed,
                       current, stray, told, wire, scan>>
    BY <1>6 DEF Polled, Queues
  <2>3. \A t, u \in Tasks : u \in outbox[t].ahead => u # t /\ outbox[u].kind # "none"
    BY DEF Ordered
  <2>4. TypeOK'
    BY <2>1, <2>2 DEF Joined
  <2>5. (LockIsHeld /\ TasksSendTheirOwn)'
    BY <2>1, <2>2, <2>4 DEF Joined
  <2>6. (BeforeSession /\ InSession)'
    BY <2>1, <2>2, <2>4 DEF Joined
  <2>7. (AfterSession /\ SessionLeavesNothing /\ ReportedWasAnnounced)'
    BY <2>1, <2>2, <2>4, <2>3 DEF Joined
  <2>8. LightsAreAnnounced'
    BY <2>1, <2>2, <2>3 DEF Joined
  <2>. QED
    BY <2>1, <2>4, <2>5, <2>6, <2>7, <2>8 DEF Joined
<1>7. ASSUME Polled(TRUE)
      PROVE  IInv'
  <2>1. Joined({current}, "publisher", "state", bound)
    BY <1>3, <1>7
  <2>2. /\ publisher = "polling" /\ publisher' = "publishing"
        /\ connected' /\ connected' \in BOOLEAN /\ driverLock' = None
        /\ UNCHANGED <<stop, main, ws, receiver, cancelled, bound, subscribed,
                       current, stray, told, wire, scan>>
    BY <1>7 DEF Polled, Queues
  <2>3. \A t, u \in Tasks : u \in outbox[t].ahead => u # t /\ outbox[u].kind # "none"
    BY DEF Ordered
  <2>4. TypeOK'
    BY <2>1, <2>2 DEF Joined
  <2>5. (LockIsHeld /\ TasksSendTheirOwn)'
    BY <2>1, <2>2, <2>4 DEF Joined
  <2>6. (BeforeSession /\ InSession)'
    BY <2>1, <2>2, <2>4 DEF Joined
  <2>7. (AfterSession /\ SessionLeavesNothing /\ ReportedWasAnnounced)'
    BY <2>1, <2>2, <2>4, <2>3 DEF Joined
  <2>8. LightsAreAnnounced'
    BY <2>1, <2>2, <2>3 DEF Joined
  <2>. QED
    BY <2>1, <2>4, <2>5, <2>6, <2>7, <2>8 DEF Joined
<1>8. PICK retried \in BOOLEAN : Polled(retried)
  OBVIOUS
<1>9. CASE retried
  <2>1. Polled(TRUE)
    BY <1>8, <1>9
  <2>. QED
    BY <1>7, <2>1
<1>10. CASE ~retried
  <2>1. Polled(FALSE)
    BY <1>8, <1>10
  <2>. QED
    BY <1>6, <2>1
<1>. QED
  BY <1>9, <1>10

\* A send preserves it: what is served is first in the queue, so that an
\* announcement reaches the server before the states behind it.
LEMMA SendSteps ==
    ASSUME IInv,
           \E t \in Tasks : Send(t)
    PROVE  IInv'
<1>1. /\ \A t \in {"main", "publisher"} \cup Readers : outbox[t].kind # "applied"
      /\ {"main", "receiver", "publisher", current, Other} \subseteq Tasks
      /\ "state" \in Kinds \ {"none"}
      /\ outbox["receiver"].light \in Lights \cup {None}
      /\ Readers \subseteq Tasks
  BY DEF IInv, TypeOK, TasksSendTheirOwn, Tasks, Kinds, Queues, Readers, Other
<1>2. ASSUME Send("main")
      PROVE  Dropped({"main"})
  BY <1>1, <1>2, DropStep DEF Send, Served, FollowUp, AfterSend, Message
<1>3. ASSUME Send("publisher")
      PROVE  Dropped({"publisher"})
  BY <1>1, <1>3, DropStep DEF Send, Served, FollowUp, AfterSend, Message
<1>4. ASSUME NEW t \in Readers, Send(t)
      PROVE  Dropped({t})
  BY <1>1, <1>4, DropStep DEF Send, Served, FollowUp, AfterSend, Message
<1>5. ASSUME Send("receiver"), outbox["receiver"].kind # "applied"
      PROVE  Dropped({"receiver"})
  BY <1>1, <1>5, DropStep DEF Send, Served, FollowUp, AfterSend, Message
<1>6. ASSUME Send("receiver"), outbox["receiver"].kind = "applied"
      PROVE  Joined({"receiver"}, "receiver", "state", outbox["receiver"].light)
  BY <1>1, <1>6, DropJoinStep DEF Send, Served, FollowUp, AfterSend, Message
<1>. USE NoneIsNeither DEF IInv, TypeOK, LockIsHeld,
       TasksSendTheirOwn, BeforeSession, InSession, AfterSession,
       SessionLeavesNothing, LightsAreAnnounced, ReportedWasAnnounced, ToldBefore,
       Queued, session, device, readers, Tasks, Readers, Other, Kinds
<1>7. ASSUME Send("main")
      PROVE  IInv'
  <2>1. Dropped({"main"})
    BY <1>2, <1>7
  <2>2. /\ ws = "open" /\ outbox["main"].kind # "none" /\ outbox["main"].ahead = {}
        /\ wire' \in [kind : Kinds, light : Lights \cup {None}]
        /\ wire'.kind = outbox["main"].kind /\ wire'.light = outbox["main"].light
        /\ told' = outbox["main"].light
        /\ main' = "session" /\ receiver' = "reading" /\ publisher' = "check"
        /\ UNCHANGED <<stop, ws, cancelled, driverLock, bound, connected,
                       subscribed, current, stray, scan>>
    BY <1>7 DEF Send, Served, FollowUp, AfterSend, Message, Queues
  <2>3. \A t, u \in Tasks : u \in outbox[t].ahead => u # t /\ outbox[u].kind # "none"
    BY DEF Ordered
  <2>4. TypeOK'
    BY <2>1, <2>2 DEF Dropped
  <2>5. (LockIsHeld /\ TasksSendTheirOwn)'
    BY <2>1, <2>2, <2>4 DEF Dropped
  <2>6. (BeforeSession /\ InSession)'
    BY <2>1, <2>2, <2>4 DEF Dropped
  <2>7. (AfterSession /\ SessionLeavesNothing /\ ReportedWasAnnounced)'
    BY <2>1, <2>2, <2>4, <2>3 DEF Dropped
  <2>8. LightsAreAnnounced'
    BY <2>1, <2>2, <2>3 DEF Dropped
  <2>. QED
    BY <2>1, <2>4, <2>5, <2>6, <2>7, <2>8 DEF Dropped
<1>8. ASSUME Send("publisher")
      PROVE  IInv'
  <2>1. Dropped({"publisher"})
    BY <1>3, <1>8
  <2>2. /\ ws = "open" /\ outbox["publisher"].kind # "none" /\ outbox["publisher"].ahead = {}
        /\ wire' \in [kind : Kinds, light : Lights \cup {None}]
        /\ wire'.kind = outbox["publisher"].kind /\ wire'.light = outbox["publisher"].light
        /\ UNCHANGED <<told, main, receiver>> /\ publisher' = "resting"
        /\ UNCHANGED <<stop, ws, cancelled, driverLock, bound, connected,
                       subscribed, current, stray, scan>>
    BY <1>8 DEF Send, Served, FollowUp, AfterSend, Message, Queues
  <2>3. \A t, u \in Tasks : u \in outbox[t].ahead => u # t /\ outbox[u].kind # "none"
    BY DEF Ordered
  <2>4. TypeOK'
    BY <2>1, <2>2 DEF Dropped
  <2>5. (LockIsHeld /\ TasksSendTheirOwn)'
    BY <2>1, <2>2, <2>4 DEF Dropped
  <2>6. (BeforeSession /\ InSession)'
    BY <2>1, <2>2, <2>4 DEF Dropped
  <2>7. (AfterSession /\ SessionLeavesNothing /\ ReportedWasAnnounced)'
    BY <2>1, <2>2, <2>4, <2>3 DEF Dropped
  <2>8. LightsAreAnnounced'
    BY <2>1, <2>2, <2>3 DEF Dropped
  <2>. QED
    BY <2>1, <2>4, <2>5, <2>6, <2>7, <2>8 DEF Dropped
<1>9. ASSUME NEW r \in Readers, Send(r)
      PROVE  IInv'
  <2>1. Dropped({r})
    BY <1>4, <1>9
  <2>2. /\ ws = "open" /\ outbox[r].kind # "none" /\ outbox[r].ahead = {}
        /\ wire' \in [kind : Kinds, light : Lights \cup {None}]
        /\ wire'.kind = outbox[r].kind /\ wire'.light = outbox[r].light
        /\ UNCHANGED <<told, main, receiver, publisher>>
        /\ UNCHANGED <<stop, ws, cancelled, driverLock, bound, connected,
                       subscribed, current, stray, scan>>
    BY <1>9 DEF Send, Served, FollowUp, AfterSend, Message, Queues
  <2>3. \A t, u \in Tasks : u \in outbox[t].ahead => u # t /\ outbox[u].kind # "none"
    BY DEF Ordered
  <2>4. TypeOK'
    BY <2>1, <2>2 DEF Dropped
  <2>5. (LockIsHeld /\ TasksSendTheirOwn)'
    BY <2>1, <2>2, <2>4 DEF Dropped
  <2>6. (BeforeSession /\ InSession)'
    BY <2>1, <2>2, <2>4 DEF Dropped
  <2>7. (AfterSession /\ SessionLeavesNothing /\ ReportedWasAnnounced)'
    BY <2>1, <2>2, <2>4, <2>3 DEF Dropped
  <2>8. LightsAreAnnounced'
    BY <2>1, <2>2, <2>3 DEF Dropped
  <2>. QED
    BY <2>1, <2>4, <2>5, <2>6, <2>7, <2>8 DEF Dropped
<1>10. ASSUME Send("receiver"), outbox["receiver"].kind # "applied"
      PROVE  IInv'
  <2>1. Dropped({"receiver"})
    BY <1>5, <1>10
  <2>2. /\ ws = "open" /\ outbox["receiver"].kind # "none" /\ outbox["receiver"].ahead = {}
        /\ wire' \in [kind : Kinds, light : Lights \cup {None}]
        /\ wire'.kind = outbox["receiver"].kind /\ wire'.light = outbox["receiver"].light
        /\ UNCHANGED <<main, publisher>> /\ receiver' = "reading"
        /\ told' = IF outbox["receiver"].kind = "paired" THEN outbox["receiver"].light ELSE told
        /\ UNCHANGED <<stop, ws, cancelled, driverLock, bound, connected,
                       subscribed, current, stray, scan>>
    BY <1>10 DEF Send, Served, FollowUp, AfterSend, Message, Queues
  <2>3. \A t, u \in Tasks : u \in outbox[t].ahead => u # t /\ outbox[u].kind # "none"
    BY DEF Ordered
  <2>4. TypeOK'
    BY <2>1, <2>2 DEF Dropped
  <2>5. (LockIsHeld /\ TasksSendTheirOwn)'
    BY <2>1, <2>2, <2>4 DEF Dropped
  <2>6. (BeforeSession /\ InSession)'
    BY <2>1, <2>2, <2>4 DEF Dropped
  <2>7. (AfterSession /\ SessionLeavesNothing /\ ReportedWasAnnounced)'
    BY <2>1, <2>2, <2>4, <2>3 DEF Dropped
  <2>8. LightsAreAnnounced'
    <3>1. \A t \in Tasks : t # "receiver" /\ outbox[t].kind # "none"
                           => "receiver" \in outbox[t].ahead
      BY <2>2 DEF Ordered
    <3>2. \A t \in Tasks : t # "receiver" => outbox'[t].kind = outbox[t].kind
                                          /\ outbox'[t].light = outbox[t].light
      BY <2>1 DEF Dropped
    <3>3. outbox'["receiver"].kind = "none"
      BY <2>1 DEF Dropped
    <3>. SUFFICES ASSUME main = "session" PROVE LightsAreAnnounced'
      BY <2>2
    <3>4. CASE outbox["receiver"].kind = "paired"
      BY <2>2, <3>1, <3>2, <3>3, <3>4
    <3>5. CASE outbox["receiver"].kind # "paired"
      BY <2>2, <3>2, <3>3, <3>5
    <3>. QED
      BY <3>4, <3>5
  <2>. QED
    BY <2>1, <2>4, <2>5, <2>6, <2>7, <2>8 DEF Dropped
<1>11. ASSUME Send("receiver"), outbox["receiver"].kind = "applied"
      PROVE  IInv'
  <2>1. Joined({"receiver"}, "receiver", "state", outbox["receiver"].light)
    BY <1>6, <1>11
  <2>2. /\ ws = "open" /\ outbox["receiver"].kind = "applied" /\ outbox["receiver"].ahead = {}
        /\ wire' \in [kind : Kinds, light : Lights \cup {None}]
        /\ wire'.kind = outbox["receiver"].kind /\ wire'.light = outbox["receiver"].light
        /\ UNCHANGED <<told, main, receiver, publisher>>
        /\ UNCHANGED <<stop, ws, cancelled, driverLock, bound, connected,
                       subscribed, current, stray, scan>>
    BY <1>11 DEF Send, Served, FollowUp, AfterSend, Message, Queues
  <2>3. \A t, u \in Tasks : u \in outbox[t].ahead => u # t /\ outbox[u].kind # "none"
    BY DEF Ordered
  <2>4. TypeOK'
    BY <2>1, <2>2 DEF Joined
  <2>5. (LockIsHeld /\ TasksSendTheirOwn)'
    BY <2>1, <2>2, <2>4 DEF Joined
  <2>6. (BeforeSession /\ InSession)'
    BY <2>1, <2>2, <2>4 DEF Joined
  <2>7. (AfterSession /\ SessionLeavesNothing /\ ReportedWasAnnounced)'
    BY <2>1, <2>2, <2>4, <2>3 DEF Joined
  <2>8. LightsAreAnnounced'
    BY <2>1, <2>2, <2>3 DEF Joined
  <2>. QED
    BY <2>1, <2>4, <2>5, <2>6, <2>7, <2>8 DEF Joined
<1>. QED
  BY <1>7, <1>8, <1>9, <1>10, <1>11

\* Every step preserves the invariant.
LEMMA NextIInv == IInv /\ [Next]_vars => IInv'
<1>. SUFFICES ASSUME IInv, [Next]_vars PROVE IInv'
  OBVIOUS
<1>1. CASE UNCHANGED vars
  BY <1>1, QuietSteps DEF vars
<1>2. CASE SignalStop \/ ServerCloses
  BY <1>2, QuietSteps DEF SignalStop, ServerCloses
<1>3. CASE Main
  <2>1. CASE LoopHead \/ ConnectFails
    BY <2>1, QuietSteps DEF LoopHead, ConnectFails
  <2>. QED
    BY <1>3, <2>1, JoinSteps, DropSteps DEF Main
<1>4. CASE \E t \in Tasks : Send(t) \/ SendFails(t)
  BY <1>4, SendSteps, DropSteps
<1>5. CASE \E work \in {"discovering", "wantsPairing", "commanding"} : Receive(work)
  BY <1>5, QuietSteps DEF Receive
<1>6. CASE Receiver
  <2>1. CASE ReceiverEnds \/ Reject \/ StartScan \/ Reach \/ Reached
    BY <2>1, QuietSteps DEF ReceiverEnds, Reject, StartScan, Reach, Reached,
         session, device
  <2>. QED
    BY <1>6, <2>1, JoinSteps, DropSteps DEF Receiver
<1>7. CASE Publisher
  <2>1. CASE \/ Check \/ NapOver \/ Open \/ Poll \/ IntervalOver
             \/ Unsubscribe \/ PauseOver
             \/ \E made \in BOOLEAN : Opened(made)
    <3>1. UNCHANGED outbox
      BY <2>1 DEF Check, NapOver, Open, Poll, Acquire, Opened, IntervalOver,
           Unsubscribe, PauseOver
    <3>. QED
      BY <2>1, <3>1, QuietSteps
  <2>2. ASSUME NEW closes \in BOOLEAN, OpenFails(closes) \/ PollFails(closes)
        PROVE  IInv'
    <3>1. CASE closes
      BY <2>2, <3>1, DropSteps
    <3>2. CASE ~closes
      <4>1. UNCHANGED outbox
        BY <2>2, <3>2 DEF OpenFails, PollFails, MayClose
      <4>2. OpenFails(FALSE) \/ PollFails(FALSE)
        BY <2>2, <3>2
      <4>. QED
        BY <4>1, <4>2, QuietSteps
    <3>. QED
      BY <3>1, <3>2
  <2>3. CASE Disconnect \/ \E retried \in BOOLEAN : Polled(retried)
    BY <2>3, DropSteps, PolledSteps
  <2>. QED
    BY <1>7, <2>1, <2>2, <2>3 DEF Publisher
<1>8. CASE Push \/ StrayPush
  BY <1>8, JoinSteps
<1>9. CASE ScanEnds
  BY <1>9, QuietSteps DEF ScanEnds
<1>. QED
  BY <1>1, <1>2, <1>3, <1>4, <1>5, <1>6, <1>7, <1>8, <1>9 DEF Next

-----------------------------------------------------------------------------
\* The inductive invariant holds whatever the server, the device and the
\* signals do, for any number of lights.
THEOREM InductiveInvariant == Spec => []IInv
<1>1. Init => IInv
  BY InitIInv
<1>2. IInv /\ [Next]_vars => IInv'
  BY NextIInv
<1>. QED
  BY <1>1, <1>2, PTL DEF Spec

\* The program counters, the queue and the lock keep their types.
THEOREM TypeCorrect == Spec => []TypeOK
<1>1. IInv => TypeOK
  BY DEF IInv
<1>. QED
  BY <1>1, InductiveInvariant, PTL

\* Whatever the publisher does, pairing has the driver to itself: a task
\* that works under the driver lock is the one that holds it.
THEOREM PairingHasTheDriver == Spec => []PairingIsAlone
<1>1. IInv => PairingIsAlone
  BY DEF IInv, LockIsHeld, PairingIsAlone
<1>. QED
  BY <1>1, InductiveInvariant, PTL

\* However a session ends, in a send, by its receiver or by stop, the
\* cancelled tasks, the lock, the connection the driver holds and everything
\* queued end with it, except the reader of a connection that an overlapping
\* connect replaced and what it is sending, which end with the process.
THEOREM SessionEndsWhole == Spec => []SessionLeavesNothing
<1>1. IInv => SessionLeavesNothing
  BY DEF IInv
<1>. QED
  BY <1>1, InductiveInvariant, PTL

\* No order of pairing, polls, pushes and sends puts a state on the wire
\* before the light it names is announced: the light changes and its
\* announcement is queued in one step, and the send lock is first come first
\* served.
THEOREM StatesFollowTheirAnnouncement == Spec => []ReportedWasAnnounced
<1>1. IInv => ReportedWasAnnounced
  BY DEF IInv
<1>. QED
  BY <1>1, InductiveInvariant, PTL
=============================================================================
