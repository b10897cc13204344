------------------------ MODULE LightCommandsProofs -------------------------
(***************************************************************************)
(* Proofs about LightCommands, for any number of handlers, lights, keys    *)
(* and commands, with a durable or a process-local journal.                *)
(***************************************************************************)
EXTENDS LightCommands, TLAPS

\* How an operation may end, and where a handler may be.
Endings == {"confirmed", "unconfirmed", "interrupted", "unrecorded"}

Places == {"idle", "waiting", "executing", "storing", "stored"}

-----------------------------------------------------------------------------
(* Lemmas about the operators.                                             *)

\* What _result is given is a payload, whatever the envelope lacks.
LEMMA PayloadType ==
    ASSUME TypeOK, NEW e \in Envelopes,
           NEW status \in {"applied", "failed", "rejected"},
           NEW error \in Errors, NEW run \in Nat
    PROVE  Payload(status, error, e, run) \in Payloads
<1>1. /\ e.eid \in EnvelopeIds
      /\ e.light \in Lights \cup {None}
      /\ e.id \in Ids \cup {None}
      /\ e.key \in Keys \cup {None}
  BY EnvelopeTypes
<1>2. NamedLight(e) \in Lights \cup {None}
  BY <1>1 DEF NamedLight, TypeOK
<1>3. NamedId(e) \in Ids \cup EnvelopeIds
  BY <1>1 DEF NamedId
<1>4. NamedKey(e) \in Keys \cup PlaceholderKeys
  BY <1>1 DEF NamedKey, PlaceholderKeys
<1>5. QED
  BY <1>2, <1>3, <1>4 DEF Payload, Payloads

\* The payload of an accepted command names the command's own fields.
LEMMA PayloadNames ==
    ASSUME NEW e \in Envelopes, ~MalformedMetadata(e),
           NEW status, NEW error, NEW run
    PROVE  /\ Payload(status, error, e, run).status = status
           /\ Payload(status, error, e, run).error = error
           /\ Payload(status, error, e, run).run = run
           /\ Payload(status, error, e, run).light = e.light
           /\ Payload(status, error, e, run).id = e.id
           /\ Payload(status, error, e, run).key = e.key
           /\ e.light \in Lights
           /\ e.id \in Ids
           /\ e.key \in Keys
           /\ e.eid \in EnvelopeIds
  BY EnvelopeTypes DEF MalformedMetadata, Payload, NamedLight, NamedId, NamedKey

\* Cancelling a waiter leaves a queue of handlers.
LEMMA WithoutIndexType ==
    ASSUME NEW S, NEW s \in Seq(S), NEW i \in 1..Len(s)
    PROVE  WithoutIndex(s, i) \in Seq(S)
<1>1. SubSeq(s, 1, i - 1) \in Seq(S)
  OBVIOUS
<1>2. SubSeq(s, i + 1, Len(s)) \in Seq(S)
  OBVIOUS
<1>3. QED
  BY <1>1, <1>2 DEF WithoutIndex

\* Ending the running operation changes the last fate and nothing else.
LEMMA EndedFacts ==
    ASSUME TypeOK, operations # <<>>,
           NEW fate \in Endings
    PROVE  /\ Ended(fate) \in Seq(Operation)
           /\ Len(Ended(fate)) = Len(operations)
           /\ Current \in 1..Len(operations)
           /\ \A i \in 1..Len(operations) :
                /\ Ended(fate)[i].key = operations[i].key
                /\ Ended(fate)[i].id = operations[i].id
                /\ Ended(fate)[i].light = operations[i].light
                /\ Ended(fate)[i].device = operations[i].device
                /\ Ended(fate)[i].life = operations[i].life
                /\ i # Current => Ended(fate)[i] = operations[i]
           /\ Ended(fate)[Current].fate = fate
<1>1. /\ operations \in Seq(Operation)
      /\ Current \in 1..Len(operations)
  BY DEF TypeOK, Current
<1>2. operations[Current] \in Operation
  BY <1>1
<1>3. [operations[Current] EXCEPT !.fate = fate] \in Operation
  BY <1>2 DEF Operation, Endings
<1>4. Ended(fate) = [operations EXCEPT ![Current] =
                       [operations[Current] EXCEPT !.fate = fate]]
  BY DEF Ended
<1>5. /\ Ended(fate) \in Seq(Operation)
      /\ Len(Ended(fate)) = Len(operations)
  BY <1>1, <1>3, <1>4
<1>6. Ended(fate)[Current] = [operations[Current] EXCEPT !.fate = fate]
  BY <1>1, <1>4
<1>7. \A i \in 1..Len(operations) : i # Current => Ended(fate)[i] = operations[i]
  BY <1>1, <1>4
<1>8. QED
  BY <1>1, <1>2, <1>5, <1>6, <1>7 DEF Operation

\* put stores a payload under a free key and leaves the rest alone.
LEMMA PutFacts ==
    ASSUME TypeOK, NEW k \in Keys, journal[k] = None, NEW p \in Payloads
    PROVE  /\ Put(k, p) \in [Keys -> Payloads \cup {None}]
           /\ Put(k, p)[k] = p
           /\ \A x \in Keys : x # k => Put(k, p)[x] = journal[x]
  BY DEF TypeOK, Put

-----------------------------------------------------------------------------
(* What the kinds of steps preserve.                                       *)

\* Once backed, a payload stays backed: later operations are appended.
LEMMA AppendKeepsBacked ==
    ASSUME TypeOK, NEW o \in Operation, operations' = Append(operations, o)
    PROVE  \A p \in Payloads : Backed(p) => Backed(p)'
  BY DEF TypeOK, Backed, Confirms, Payloads

\* Ending the latest operation leaves what other operations confirmed.
LEMMA EndKeepsBacked ==
    ASSUME TypeOK, operations # <<>>, NEW fate \in Endings,
           operations' = Ended(fate),
           NEW p \in Payloads, Backed(p),
           p.status = "applied" => ~Confirms(operations[Current], p)
    PROVE  Backed(p)'
<1>1. CASE p.status = "applied"
  <2>1. /\ p.error = "none"
        /\ p.run \in 1..Len(operations)
        /\ Confirms(operations[p.run], p)
    BY <1>1 DEF Backed
  <2>2. p.run # Current
    BY <1>1, <2>1
  <2>3. /\ Len(operations') = Len(operations)
        /\ operations'[p.run] = operations[p.run]
    BY <2>1, <2>2, EndedFacts
  <2>4. QED
    BY <2>1, <2>3 DEF Backed, Confirms
<1>2. CASE p.status # "applied"
  BY <1>2 DEF Backed
<1>3. QED
  BY <1>1, <1>2

\* Nothing is backed by an operation that still runs.
LEMMA EndRunningKeepsBacked ==
    ASSUME TypeOK, operations # <<>>, operations[Current].fate = "running",
           NEW fate \in Endings, operations' = Ended(fate)
    PROVE  \A p \in Payloads : Backed(p) => Backed(p)'
  BY EndKeepsBacked DEF Confirms

\* Ending the latest operation leaves none running, and no key is sent to the
\* driver twice by it.
LEMMA EndKeepsStory ==
    ASSUME IInv, operations # <<>>, NEW fate \in Endings,
           operations' = Ended(fate)
    PROVE  /\ operations' \in Seq(Operation)
           /\ \A i \in 1..Len(operations') :
                operations'[i].life <= life /\ operations'[i].fate # "running"
           /\ AtMostOnce'
<1>1. TypeOK
  BY DEF IInv
<1>2. /\ operations' \in Seq(Operation)
      /\ Len(operations') = Len(operations)
      /\ Current \in 1..Len(operations)
      /\ operations'[Current].fate = fate
  BY <1>1, EndedFacts
<1>3. \A i \in 1..Len(operations) :
        /\ operations'[i].key = operations[i].key
        /\ operations'[i].life = operations[i].life
        /\ i # Current => operations'[i] = operations[i]
  BY <1>1, EndedFacts
<1>4. \A i \in 1..Len(operations) : i # Current => operations[i].fate # "running"
  BY DEF IInv, LockAndOperation, Current
<1>5. \A i \in 1..Len(operations) :
        operations'[i].life <= life /\ operations'[i].fate # "running"
  BY <1>2, <1>3, <1>4 DEF IInv, LockAndOperation, Endings
<1>6. AtMostOnce'
  <2>1. AtMostOnce /\ operations \in Seq(Operation)
    BY DEF IInv, TypeOK
  <2>2. SUFFICES ASSUME NEW i \in 1..Len(operations), NEW j \in 1..Len(operations),
                        i < j,
                        operations'[i].key = operations'[j].key,
                        operations'[i].life = operations'[j].life
                 PROVE  operations'[i].fate \in {"interrupted", "unrecorded"}
    BY <1>2 DEF AtMostOnce
  <2>3. i # Current
    BY <2>1, <2>2 DEF Current
  <2>4. QED
    BY <1>3, <2>1, <2>2, <2>3 DEF AtMostOnce
<1>7. QED
  BY <1>2, <1>5, <1>6

\* Sending a refusal, or a decision the journal holds, keeps every answer
\* journaled and in agreement.
LEMMA AnswerKeepsAgreement ==
    ASSUME IInv, NEW e, e.eid \in EnvelopeIds, NEW p \in Payloads,
           Answer(e, p), Backed(p),
           p.error \in Decisive => p.key \in Keys /\ journal[p.key] = p,
           UNCHANGED <<journal, operations, life>>
    PROVE  /\ results' \subseteq Result
           /\ AnswersJournaled'
           /\ AnswersAgree'
<1> DEFINE new == [to |-> e.eid, life |-> life, payload |-> p]
<1>1. results' = results \cup {new}
  BY DEF Answer
<1>2. new \in Result
  BY DEF IInv, TypeOK, Result
<1>3. results' \subseteq Result
  BY <1>1, <1>2 DEF IInv, TypeOK
<1>4. ASSUME NEW r \in results'
      PROVE  /\ r.life <= life
             /\ Backed(r.payload)
             /\ IsDecision(r) => r.payload.key \in Keys
             /\ IsDecision(r) /\ r.life = life =>
                  journal[r.payload.key] = r.payload
  BY <1>1 DEF IInv, AnswersJournaled, IsDecision, TypeOK
<1>5. AnswersJournaled'
  BY <1>4 DEF AnswersJournaled, Backed, IsDecision
<1>6. ASSUME NEW r \in results', NEW s \in results',
             IsDecision(r), IsDecision(s), r.life = s.life,
             r.payload.key = s.payload.key
      PROVE  r.payload = s.payload
  <2>1. CASE r \in results /\ s \in results
    BY <1>6, <2>1 DEF IInv, AnswersAgree
  <2>2. CASE r = new \/ s = new
    BY <1>4, <1>6, <2>2
  <2>3. QED
    BY <1>1, <2>1, <2>2
<1>7. AnswersAgree'
  BY <1>6 DEF AnswersAgree, IsDecision
<1>8. QED
  BY <1>3, <1>5, <1>7

\* Deciding a free key, at once with its answer or before it, keeps every answer
\* journaled, every entry a decision, and all of them in agreement.
LEMMA DecideKeepsAgreement ==
    ASSUME IInv, NEW e, e.eid \in EnvelopeIds, NEW p \in Payloads,
           p.key \in Keys, journal[p.key] = None, p.error \in Decisive,
           journal' = Put(p.key, p), Answer(e, p) \/ results' = results,
           life' = life, Backed(p)', \A q \in Payloads : Backed(q) => Backed(q)'
    PROVE  /\ journal' \in [Keys -> Payloads \cup {None}]
           /\ \A k \in Keys : k # p.key => journal'[k] = journal[k]
           /\ journal'[p.key] = p
           /\ results' \subseteq Result
           /\ JournalDecides'
           /\ AnswersJournaled'
           /\ AnswersAgree'
<1> DEFINE new == [to |-> e.eid, life |-> life, payload |-> p]
<1>1. TypeOK
  BY DEF IInv
<1>2. /\ journal' \in [Keys -> Payloads \cup {None}]
      /\ journal'[p.key] = p
      /\ \A k \in Keys : k # p.key => journal'[k] = journal[k]
  BY <1>1, PutFacts
<1>3. results' \subseteq results \cup {new}
  BY DEF Answer
<1>4. new \in Result
  BY <1>1 DEF TypeOK, Result
<1>5. results' \subseteq Result
  BY <1>1, <1>3, <1>4 DEF TypeOK
<1>6. JournalDecides'
  <2>1. ASSUME NEW k \in Keys, journal'[k] # None
        PROVE  (/\ journal[k].error \in Decisive
                /\ journal[k].key = k
                /\ Backed(journal[k]))'
    <3>1. CASE k = p.key
      BY <1>2, <3>1 DEF Backed
    <3>2. CASE k # p.key
      <4>1. journal'[k] = journal[k] /\ journal[k] \in Payloads
        BY <1>1, <1>2, <2>1, <3>2 DEF TypeOK
      <4>2. /\ journal[k].error \in Decisive
            /\ journal[k].key = k
            /\ Backed(journal[k])
        BY <2>1, <4>1 DEF IInv, JournalDecides
      <4>3. \A q \in Payloads : q = journal[k] => Backed(q)'
        BY <4>1, <4>2
      <4>4. QED
        BY <4>1, <4>2, <4>3 DEF Backed
    <3>3. QED
      BY <3>1, <3>2
  <2>2. QED
    BY <2>1 DEF JournalDecides
<1>7. ASSUME NEW r \in results'
      PROVE  /\ r.life <= life
             /\ Backed(r.payload)'
             /\ IsDecision(r) => r.payload.key \in Keys
             /\ IsDecision(r) /\ r.life = life =>
                  journal'[r.payload.key] = r.payload
  <2>1. CASE r = new
    BY <1>1, <1>2, <2>1 DEF TypeOK
  <2>2. CASE r \in results
    <3>1. r.payload \in Payloads
      BY <1>1, <2>2 DEF TypeOK, Result
    <3>2. /\ r.life <= life
          /\ Backed(r.payload)
          /\ IsDecision(r) => r.payload.key \in Keys
          /\ IsDecision(r) /\ r.life = life =>
               journal[r.payload.key] = r.payload
      BY <2>2 DEF IInv, AnswersJournaled
    <3>3. \A q \in Payloads : q = r.payload => Backed(q)'
      BY <3>1, <3>2
    <3>4. Backed(r.payload)'
      BY <3>1, <3>3 DEF Backed
    <3>5. ASSUME IsDecision(r), r.life = life
          PROVE  journal'[r.payload.key] = r.payload
      <4>1. journal[r.payload.key] = r.payload /\ r.payload.key \in Keys
        BY <3>2, <3>5
      <4>2. r.payload.key # p.key
        BY <3>1, <4>1, NoneIsNoPayload
      <4>3. QED
        BY <1>2, <4>1, <4>2
    <3>6. QED
      BY <3>2, <3>4, <3>5
  <2>3. QED
    BY <1>3, <2>1, <2>2
<1>8. AnswersJournaled'
  BY <1>7 DEF AnswersJournaled, IsDecision
<1>9. ASSUME NEW r \in results', NEW s \in results',
             IsDecision(r), IsDecision(s), r.life = s.life,
             r.payload.key = s.payload.key
      PROVE  r.payload = s.payload
  <2>1. CASE r \in results /\ s \in results
    BY <1>9, <2>1 DEF IInv, AnswersAgree
  <2>2. CASE r = new \/ s = new
    BY <1>7, <1>9, <2>2
  <2>3. QED
    BY <1>3, <2>1, <2>2
<1>10. AnswersAgree'
  BY <1>9 DEF AnswersAgree, IsDecision
<1>11. QED
  BY <1>2, <1>5, <1>6, <1>8, <1>10

-----------------------------------------------------------------------------
(* One lemma per action of Next.                                           *)

LEMMA InitKeeps == Init => IInv
<1> SUFFICES ASSUME Init PROVE IInv
  OBVIOUS
<1>1. TypeOK
  BY DEF Init, TypeOK
<1>2. HandledAreAccepted /\ LockAndOperation
  BY NoneIsNothing DEF Init, HandledAreAccepted, LockAndOperation
<1>3. OutcomeDecides
  BY DEF Init, OutcomeDecides, StoringOutcome, Storing
<1>4. JournalDecides /\ OutcomesJournaled /\ AnswersJournaled
  BY DEF Init, JournalDecides, OutcomesJournaled, AnswersJournaled
<1>5. AnswersAgree /\ AtMostOnce
  BY DEF Init, AnswersAgree, AtMostOnce
<1>6. QED
  BY <1>1, <1>2, <1>3, <1>4, <1>5 DEF IInv

\* What a step keeps that leaves the journal, the operations and the lock's
\* holder alone.
LEMMA QuietKeeps ==
    ASSUME IInv, UNCHANGED <<journal, holder, outcome, operations, life>>,
           holder # None =>
             pc'[holder] = pc[holder] /\ cmd'[holder] = cmd[holder]
    PROVE  /\ OutcomeDecides'
           /\ JournalDecides'
           /\ OutcomesJournaled'
           /\ AtMostOnce'
<1>1. /\ Storing' = Storing
      /\ StoringOutcome' = StoringOutcome
      /\ \A p : Backed(p)' = Backed(p)
  BY DEF Storing, StoringOutcome, Backed
<1>2. OutcomeDecides'
  <2>1. OutcomeDecides
    BY DEF IInv
  <2>2. CASE holder = None
    BY <2>1, <2>2 DEF OutcomeDecides, StoringOutcome, Storing
  <2>3. CASE holder # None
    BY <1>1, <2>1, <2>3 DEF OutcomeDecides, RunsFor, Backed
  <2>4. QED
    BY <2>2, <2>3
<1>3. JournalDecides'
  BY <1>1 DEF IInv, JournalDecides, Backed
<1>4. OutcomesJournaled' /\ AtMostOnce'
  BY <1>1 DEF IInv, OutcomesJournaled, AtMostOnce
<1>5. QED
  BY <1>2, <1>3, <1>4

\* Answers stay journaled and in agreement when nothing is answered and
\* nothing forgotten.
LEMMA SilentKeeps ==
    ASSUME IInv, UNCHANGED <<journal, results, life>>,
           \A r \in results : Backed(r.payload) => Backed(r.payload)'
    PROVE  AnswersJournaled' /\ AnswersAgree'
  BY DEF IInv, AnswersJournaled, AnswersAgree, IsDecision

LEMMA RefuseKeeps ==
    ASSUME IInv, NEW h \in Handlers, NEW e \in Envelopes, Refuse(h, e)
    PROVE  IInv'
<1>1. /\ UNCHANGED <<boundLight, journal, holder, waiting, pc, outcome, cmd,
                     operations, life>>
      /\ \E error \in {"malformed_metadata", "unknown_light"} :
           Answer(e, Rejection(e, error))
  BY DEF Refuse
<1>2. PICK error \in {"malformed_metadata", "unknown_light"} :
           Answer(e, Rejection(e, error))
  BY <1>1
<1>3. Rejection(e, error) \in Payloads
  BY PayloadType DEF IInv, Rejection, Errors
<1>4. /\ Rejection(e, error).error \notin Decisive
      /\ Backed(Rejection(e, error))
  BY DEF Rejection, Payload, Decisive, Backed
<1>5. e.eid \in EnvelopeIds
  BY EnvelopeTypes
<1>6. /\ results' \subseteq Result
      /\ AnswersJournaled'
      /\ AnswersAgree'
  BY <1>1, <1>2, <1>3, <1>4, <1>5, AnswerKeepsAgreement
<1>7. TypeOK'
  BY <1>1, <1>6 DEF IInv, TypeOK
<1>8. HandledAreAccepted' /\ LockAndOperation'
  BY <1>1 DEF IInv, HandledAreAccepted, LockAndOperation, RunsFor
<1>9. OutcomeDecides' /\ JournalDecides' /\ OutcomesJournaled' /\ AtMostOnce'
  BY <1>1, QuietKeeps
<1>10. QED
  BY <1>6, <1>7, <1>8, <1>9 DEF IInv

LEMMA AcceptKeeps ==
    ASSUME IInv, NEW h \in Handlers, NEW e \in Envelopes, Accept(h, e)
    PROVE  IInv'
<1>1. /\ UNCHANGED <<boundLight, journal, holder, outcome, results, operations,
                     life>>
      /\ pc[h] = "idle"
      /\ waiting' = Append(waiting, h)
      /\ pc' = [pc EXCEPT ![h] = "waiting"]
      /\ cmd' = [cmd EXCEPT ![h] = e]
      /\ ~MalformedMetadata(e)
      /\ boundLight # None
  BY DEF Accept, Accepts, MalformedMetadata
<1>2. TypeOK'
  BY <1>1 DEF IInv, TypeOK
<1>3. HandledAreAccepted'
  BY <1>1 DEF IInv, HandledAreAccepted, TypeOK
<1>4. holder # h
  BY <1>1 DEF IInv, LockAndOperation
<1>5. holder # None => pc'[holder] = pc[holder] /\ cmd'[holder] = cmd[holder]
  BY <1>1, <1>4 DEF IInv, TypeOK
<1>6. LockAndOperation'
  BY <1>1, <1>4, <1>5 DEF IInv, LockAndOperation, TypeOK, RunsFor
<1>7. OutcomeDecides' /\ JournalDecides' /\ OutcomesJournaled' /\ AtMostOnce'
  BY <1>1, <1>5, QuietKeeps
<1>8. AnswersJournaled' /\ AnswersAgree'
  BY <1>1, SilentKeeps DEF Backed
<1>9. QED
  BY <1>2, <1>3, <1>6, <1>7, <1>8 DEF IInv

\* A handler that leaves the block while nobody holds the lock, or gives the
\* lock back, leaves the lock's story alone.
LEMMA LeaveKeepsStory ==
    ASSUME IInv, NEW h \in Handlers, holder \in {None, h}, holder' = None,
           Leave(h), UNCHANGED boundLight,
           \A i \in 1..Len(operations') :
             operations'[i].life <= life' /\ operations'[i].fate # "running"
    PROVE  /\ pc' \in [Handlers -> Places]
           /\ cmd' \in [Handlers -> Envelopes \cup {None}]
           /\ HandledAreAccepted'
           /\ LockAndOperation'
<1>1. /\ pc' = [pc EXCEPT ![h] = "idle"]
      /\ cmd' = [cmd EXCEPT ![h] = None]
  BY DEF Leave
<1>2. /\ pc' \in [Handlers -> Places]
      /\ cmd' \in [Handlers -> Envelopes \cup {None}]
  BY <1>1 DEF IInv, TypeOK, Places
<1>3. HandledAreAccepted'
  BY <1>1 DEF IInv, HandledAreAccepted, TypeOK
<1>4. \A g \in Handlers : pc'[g] \notin {"executing", "storing", "stored"}
  BY <1>1, NoneIsNothing DEF IInv, LockAndOperation, TypeOK
<1>5. \A g \in Handlers :
        pc'[g] \in {"executing", "storing", "stored"} <=> holder' = g
  BY <1>4, NoneIsNothing
<1>6. LockAndOperation'
  BY <1>5 DEF LockAndOperation
<1>7. QED
  BY <1>2, <1>3, <1>6

\* While nobody holds the lock no operation runs.
LEMMA NoneRuns ==
    ASSUME IInv, holder = None \/ pc[holder] # "executing"
    PROVE  \A i \in 1..Len(operations) :
             operations[i].life <= life /\ operations[i].fate # "running"
  BY DEF IInv, LockAndOperation

\* The lock's holder is the handler in its block.
LEMMA HolderIs ==
    ASSUME IInv, NEW h \in Handlers
    PROVE  /\ pc[h] \in {"executing", "storing", "stored"} <=> holder = h
           /\ h # None
  BY NoneIsNothing DEF IInv, LockAndOperation

\* What a handler at the head of the queue knows of its command.
LEMMA TurnFacts ==
    ASSUME IInv, NEW h \in Handlers, HasLock(h)
    PROVE  /\ cmd[h] \in Envelopes
           /\ ~MalformedMetadata(cmd[h])
           /\ cmd[h].key \in Keys
           /\ cmd[h].id \in Ids
           /\ cmd[h].light \in Lights
           /\ cmd[h].eid \in EnvelopeIds
           /\ boundLight \in Lights
           /\ Tail(waiting) \in Seq(Handlers)
           /\ holder = None
<1>1. /\ cmd[h] \in Envelopes
      /\ ~MalformedMetadata(cmd[h])
      /\ boundLight \in Lights
  BY DEF IInv, TypeOK, HandledAreAccepted, HasLock
<1>2. Tail(waiting) \in Seq(Handlers)
  BY DEF IInv, TypeOK, HasLock
<1>3. QED
  BY <1>1, <1>2, PayloadNames DEF HasLock

LEMMA RepeatKeeps ==
    ASSUME IInv, NEW h \in Handlers, Repeat(h)
    PROVE  IInv'
<1> DEFINE e == cmd[h]
           cached == journal[e.key]
           p == IF cached.id = e.id THEN cached ELSE Rejection(e, "key_conflict")
<1>1. /\ HasLock(h)
      /\ cached # None
      /\ Answer(e, p)
      /\ waiting' = Tail(waiting)
      /\ Leave(h)
      /\ UNCHANGED <<boundLight, journal, holder, outcome, operations, life>>
  BY DEF Repeat
<1>2. /\ e \in Envelopes
      /\ e.key \in Keys
      /\ e.eid \in EnvelopeIds
      /\ waiting' \in Seq(Handlers)
      /\ holder = None
  BY <1>1, TurnFacts
<1>3. /\ cached \in Payloads
      /\ cached.key = e.key
      /\ Backed(cached)
  BY <1>1, <1>2 DEF IInv, TypeOK, JournalDecides
<1>4. /\ Rejection(e, "key_conflict") \in Payloads
      /\ Rejection(e, "key_conflict").error \notin Decisive
      /\ Backed(Rejection(e, "key_conflict"))
  <2>1. Rejection(e, "key_conflict") \in Payloads
    BY <1>2, PayloadType DEF IInv, Rejection, Errors
  <2>2. QED
    BY <2>1 DEF Rejection, Payload, Decisive, Backed
<1>5. /\ p \in Payloads
      /\ Backed(p)
      /\ p.error \in Decisive => p.key \in Keys /\ journal[p.key] = p
  BY <1>2, <1>3, <1>4
<1>6. /\ results' \subseteq Result
      /\ AnswersJournaled'
      /\ AnswersAgree'
  <2> HIDE DEF e, p
  <2>1. QED
    BY <1>1, <1>2, <1>5, AnswerKeepsAgreement
<1>7. /\ pc' \in [Handlers -> Places]
      /\ cmd' \in [Handlers -> Envelopes \cup {None}]
      /\ HandledAreAccepted'
      /\ LockAndOperation'
  BY <1>1, <1>2, NoneRuns, LeaveKeepsStory
<1>8. TypeOK'
  BY <1>1, <1>2, <1>6, <1>7 DEF IInv, TypeOK, Places
<1>9. OutcomeDecides' /\ JournalDecides' /\ OutcomesJournaled' /\ AtMostOnce'
  BY <1>1, <1>2, QuietKeeps
<1>10. QED
  BY <1>6, <1>7, <1>8, <1>9 DEF IInv

\* Every operation is of a known key.
LEMMA OperationKeys ==
    ASSUME TypeOK
    PROVE  \A i \in 1..Len(operations) :
             operations[i] \in Operation /\ operations[i].key \in Keys
<1>1. operations \in Seq(Operation)
  BY DEF TypeOK
<1>2. \A o \in Operation : o.key \in Keys
  BY DEF Operation
<1>3. QED
  BY <1>1, <1>2

\* With the lock free, or after the entry is stored, every outcome of this
\* life is an entry.
LEMMA AllJournaled ==
    ASSUME IInv, ~Storing, NEW i \in 1..Len(operations),
           operations[i].life = life,
           operations[i].fate \in {"confirmed", "unconfirmed"}
    PROVE  journal[operations[i].key] # None
  BY DEF IInv, OutcomesJournaled, StoringOutcome

\* The handler h, alone under the lock, gets its decision p: with a memory
\* journal it is put and answered, with a durable one its put begins.
LEMMA DecideKeeps ==
    ASSUME IInv, NEW h \in Handlers, holder \in {None, h}, ~Storing,
           pc[h] # "idle", NEW p \in Payloads, Decide(h, p),
           p.key = cmd[h].key, p.error \in Decisive, journal[p.key] = None,
           UNCHANGED <<boundLight, life>>, waiting' \in Seq(Handlers),
           operations' \in Seq(Operation), AtMostOnce',
           \A i \in 1..Len(operations') :
             operations'[i].life <= life /\ operations'[i].fate # "running",
           \A i \in 1..Len(operations') :
             /\ operations'[i].life = life
             /\ operations'[i].fate \in {"confirmed", "unconfirmed"}
             => \/ journal[operations'[i].key] # None
                \/ /\ operations'[i].key = p.key
                   /\ i = Len(operations')
                   /\ p.status # "rejected",
           Backed(p)', \A q \in Payloads : Backed(q) => Backed(q)',
           p.status # "rejected" =>
             /\ operations' # <<>>
             /\ operations'[Len(operations')].fate \in {"confirmed", "unconfirmed"}
             /\ operations'[Len(operations')].key = cmd[h].key
             /\ operations'[Len(operations')].id = cmd[h].id
             /\ operations'[Len(operations')].light = cmd[h].light
             /\ operations'[Len(operations')].life = life
    PROVE  IInv'
<1>1. /\ TypeOK
      /\ cmd[h] \in Envelopes
      /\ ~MalformedMetadata(cmd[h])
      /\ h # None
      /\ p # None
  BY NoneIsNothing, NoneIsNoPayload DEF IInv, HandledAreAccepted
<1>2. p.key \in Keys /\ cmd[h].eid \in EnvelopeIds
  BY <1>1, PayloadNames
<1>3. \A i \in 1..Len(operations') : operations'[i].key \in Keys
  <2>1. \A o \in Operation : o.key \in Keys
    BY DEF Operation
  <2>2. QED
    BY <2>1
<1>4. CASE ~Durable
  <2>1. /\ journal' = Put(p.key, p)
        /\ Answer(cmd[h], p)
        /\ holder' = None
        /\ Leave(h)
        /\ outcome' = outcome
    BY <1>4 DEF Decide
  <2>2. /\ journal' \in [Keys -> Payloads \cup {None}]
        /\ \A k \in Keys : k # p.key => journal'[k] = journal[k]
        /\ journal'[p.key] = p
        /\ results' \subseteq Result
        /\ JournalDecides'
        /\ AnswersJournaled'
        /\ AnswersAgree'
    <3>1. PICK e : e = cmd[h]
      OBVIOUS
    <3>2. e.eid \in EnvelopeIds /\ Answer(e, p)
      BY <1>2, <2>1, <3>1
    <3>3. QED
      BY <1>2, <2>1, <3>2, DecideKeepsAgreement
  <2>3. /\ pc' \in [Handlers -> Places]
        /\ cmd' \in [Handlers -> Envelopes \cup {None}]
        /\ HandledAreAccepted'
        /\ LockAndOperation'
    BY <2>1, LeaveKeepsStory
  <2>4. TypeOK'
    BY <1>1, <2>1, <2>2, <2>3 DEF TypeOK, Places
  <2>5. OutcomeDecides'
    BY <2>1 DEF IInv, OutcomeDecides, StoringOutcome, Storing
  <2>6. OutcomesJournaled'
    BY <1>1, <1>3, <2>2 DEF OutcomesJournaled
  <2>7. QED
    BY <2>2, <2>3, <2>4, <2>5, <2>6 DEF IInv
<1>5. CASE Durable
  <2>1. /\ outcome' = p
        /\ holder' = h
        /\ pc' = [pc EXCEPT ![h] = "storing"]
        /\ UNCHANGED <<journal, cmd, results>>
    BY <1>5 DEF Decide
  <2>2. pc'[h] = "storing"
    BY <1>1, <2>1 DEF TypeOK
  <2>3. TypeOK'
    BY <1>1, <2>1 DEF TypeOK
  <2>4. HandledAreAccepted'
    BY <1>1, <2>1 DEF IInv, HandledAreAccepted, TypeOK
  <2>5. LockAndOperation'
    <3>1. \A g \in Handlers :
            pc'[g] \in {"executing", "storing", "stored"} <=> holder' = g
      BY <1>1, <2>1, NoneIsNothing DEF IInv, LockAndOperation, TypeOK
    <3>2. pc'[holder'] # "executing"
      BY <2>1, <2>2
    <3>3. \A i \in 1..Len(operations') :
            operations'[i].life <= life' /\ operations'[i].fate # "running"
      OBVIOUS
    <3>4. QED
      BY <3>1, <3>2, <3>3 DEF LockAndOperation
  <2>6. Storing' /\ (StoringOutcome' <=> p.status # "rejected")
    BY <1>1, <2>1, <2>2 DEF Storing, StoringOutcome
  <2>7. OutcomeDecides'
    <3>1. Durable => life = 0
      BY DEF IInv, OutcomeDecides
    <3>2. Backed(outcome)'
      BY <2>1 DEF Backed
    <3>3. QED
      BY <1>1, <1>5, <2>1, <2>6, <3>1, <3>2 DEF OutcomeDecides, RunsFor
  <2>8. JournalDecides'
    BY <1>1, <2>1 DEF IInv, TypeOK, JournalDecides, Backed
  <2>9. OutcomesJournaled'
    BY <2>1, <2>6 DEF OutcomesJournaled
  <2>10. AnswersJournaled' /\ AnswersAgree'
    <3>1. \A r \in results : r.payload \in Payloads
      BY <1>1 DEF TypeOK, Result
    <3>2. \A r \in results : Backed(r.payload) => Backed(r.payload)'
      BY <2>1, <3>1 DEF Backed
    <3>3. QED
      BY <2>1, <3>2, SilentKeeps
  <2>11. QED
    BY <2>3, <2>4, <2>5, <2>7, <2>8, <2>9, <2>10 DEF IInv
<1>6. QED
  BY <1>4, <1>5

LEMMA RejectValueKeeps ==
    ASSUME IInv, NEW h \in Handlers, RejectValue(h)
    PROVE  IInv'
<1>1. /\ HasLock(h)
      /\ journal[cmd[h].key] = None
      /\ Decide(h, Rejection(cmd[h], "malformed_value"))
      /\ waiting' = Tail(waiting)
      /\ UNCHANGED <<boundLight, operations, life>>
  BY DEF RejectValue
<1>2. PICK e \in Envelopes : e = cmd[h]
  BY <1>1, TurnFacts
<1>3. /\ ~MalformedMetadata(e)
      /\ waiting' \in Seq(Handlers)
      /\ holder = None
      /\ ~Storing
      /\ pc[h] # "idle"
  BY <1>1, <1>2, TurnFacts DEF Storing, HasLock
<1>4. PICK p \in Payloads : p = Rejection(e, "malformed_value")
  BY PayloadType DEF IInv, Rejection, Errors
<1>5. /\ p.key = e.key
      /\ p.error \in Decisive
      /\ p.status = "rejected"
  BY <1>3, <1>4, PayloadNames DEF Rejection, Decisive
<1>6. Backed(p)' /\ \A q \in Payloads : Backed(q) => Backed(q)'
  BY <1>1, <1>5 DEF Backed
<1>7. /\ Decide(h, p)
      /\ p.key = cmd[h].key
      /\ journal[p.key] = None
      /\ UNCHANGED <<boundLight, life>>
  BY <1>1, <1>2, <1>4, <1>5
<1>8. /\ operations' \in Seq(Operation)
      /\ AtMostOnce'
      /\ \A i \in 1..Len(operations') :
           operations'[i].life <= life /\ operations'[i].fate # "running"
      /\ \A i \in 1..Len(operations') :
           /\ operations'[i].life = life
           /\ operations'[i].fate \in {"confirmed", "unconfirmed"}
           => journal[operations'[i].key] # None
  BY <1>1, <1>3, NoneRuns, AllJournaled DEF IInv, TypeOK, AtMostOnce
<1>9. QED
  BY <1>3, <1>5, <1>6, <1>7, <1>8, DecideKeeps

LEMMA StartKeeps ==
    ASSUME IInv, NEW h \in Handlers, Start(h)
    PROVE  IInv'
<1>1. /\ HasLock(h)
      /\ journal[cmd[h].key] = None
      /\ holder' = h
      /\ waiting' = Tail(waiting)
      /\ pc' = [pc EXCEPT ![h] = "executing"]
      /\ UNCHANGED <<boundLight, journal, outcome, cmd, results, life>>
  BY DEF Start
<1>2. /\ cmd[h] \in Envelopes
      /\ ~MalformedMetadata(cmd[h])
      /\ cmd[h].key \in Keys
      /\ cmd[h].id \in Ids
      /\ cmd[h].light \in Lights
      /\ boundLight \in Lights
      /\ waiting' \in Seq(Handlers)
      /\ holder = None
      /\ ~Storing
  BY <1>1, TurnFacts DEF Storing
<1>3. PICK o : /\ o = [key |-> cmd[h].key, id |-> cmd[h].id,
                       light |-> cmd[h].light, device |-> boundLight,
                       life |-> life, fate |-> "running"]
               /\ operations' = Append(operations, o)
  BY DEF Start
<1>4. /\ o.key = cmd[h].key
      /\ o.id = cmd[h].id
      /\ o.light = cmd[h].light
      /\ o.life = life
      /\ o.fate = "running"
  BY <1>3
<1>5. o \in Operation
  BY <1>2, <1>3 DEF IInv, TypeOK, Operation
<1>6. /\ operations \in Seq(Operation)
      /\ operations' \in Seq(Operation)
      /\ Len(operations') = Len(operations) + 1
      /\ operations'[Len(operations')] = o
      /\ \A i \in 1..Len(operations) : operations'[i] = operations[i]
  BY <1>3, <1>5 DEF IInv, TypeOK
<1>7. TypeOK'
  BY <1>1, <1>2, <1>6 DEF IInv, TypeOK
<1>8. HandledAreAccepted'
  BY <1>1, <1>2, NoneIsNothing DEF IInv, HandledAreAccepted, TypeOK
<1>9. \A i \in 1..Len(operations) :
        operations[i].life <= life /\ operations[i].fate # "running"
  BY <1>2, NoneRuns
<1>10. pc'[h] = "executing" /\ h # None
  BY <1>1, NoneIsNothing DEF IInv, TypeOK
<1>11. LockAndOperation'
  <2>1. \A g \in Handlers :
          pc'[g] \in {"executing", "storing", "stored"} <=> holder' = g
    BY <1>1, <1>2, NoneIsNothing DEF IInv, LockAndOperation, TypeOK
  <2>2. \A i \in 1..Len(operations') :
          /\ operations'[i].life <= life'
          /\ operations'[i].fate = "running" =>
               i = Len(operations') /\ holder' # None /\ pc'[holder'] = "executing"
    <3>1. life \in Nat /\ Len(operations) \in Nat /\ life' = life
      BY <1>1, <1>6 DEF IInv, TypeOK
    <3>2. holder' # None /\ pc'[holder'] = "executing"
      BY <1>1, <1>10
    <3>3. \A i \in 1..Len(operations) :
            operations'[i].life <= life' /\ operations'[i].fate # "running"
      BY <1>6, <1>9, <3>1
    <3>4. o.life <= life'
      BY <1>4, <3>1
    <3>5. QED
      BY <1>6, <3>1, <3>2, <3>3, <3>4
  <2>3. operations' # <<>> /\ holder' = h /\ cmd' = cmd /\ journal' = journal
    BY <1>1, <1>6
  <2>4. QED
    BY <1>1, <1>4, <1>6, <2>1, <2>2, <2>3 DEF LockAndOperation, RunsFor
<1>12. \A q \in Payloads : Backed(q) => Backed(q)'
  BY <1>3, <1>5, AppendKeepsBacked DEF IInv
<1>13. OutcomeDecides'
  BY <1>1, <1>10 DEF IInv, OutcomeDecides, StoringOutcome, Storing
<1>14. JournalDecides'
  BY <1>1, <1>12 DEF IInv, JournalDecides, TypeOK, Backed
<1>15. OutcomesJournaled'
  <2>1. SUFFICES ASSUME NEW i \in 1..Len(operations'), operations'[i].life = life,
                        operations'[i].fate \in {"confirmed", "unconfirmed"}
                 PROVE  journal[operations'[i].key] # None
    BY <1>1 DEF OutcomesJournaled
  <2>2. i \in 1..Len(operations) /\ operations'[i] = operations[i]
    BY <1>4, <1>6, <2>1
  <2>3. QED
    BY <1>2, <2>1, <2>2, AllJournaled
<1>16. AnswersJournaled' /\ AnswersAgree'
  <2>1. \A r \in results : r.payload \in Payloads
    BY DEF IInv, TypeOK, Result
  <2>2. \A r \in results : Backed(r.payload) => Backed(r.payload)'
    BY <1>1, <1>12, <2>1 DEF Backed
  <2>3. QED
    BY <1>1, <2>2, SilentKeeps
<1>17. AtMostOnce'
  <2>1. ASSUME NEW i \in 1..Len(operations), operations[i].key = o.key,
               operations[i].life = o.life
        PROVE  operations[i].fate \in {"interrupted", "unrecorded"}
    <3>1. operations[i].fate \notin {"confirmed", "unconfirmed"}
      BY <1>1, <1>2, <1>4, <2>1, AllJournaled
    <3>2. operations[i].fate # "running"
      BY <1>9
    <3>3. operations[i] \in Operation
      BY OperationKeys DEF IInv
    <3>4. QED
      BY <3>1, <3>2, <3>3 DEF Operation
  <2>2. QED
    BY <1>6, <2>1 DEF IInv, AtMostOnce
<1>18. QED
  BY <1>7, <1>8, <1>11, <1>13, <1>14, <1>15, <1>16, <1>17 DEF IInv

\* The command of the handler that executes, and its operation.
LEMMA ExecutingFacts ==
    ASSUME IInv, NEW h \in Handlers, pc[h] = "executing"
    PROVE  /\ holder = h
           /\ ~Storing
           /\ cmd[h] \in Envelopes
           /\ ~MalformedMetadata(cmd[h])
           /\ operations # <<>>
           /\ Current \in 1..Len(operations)
           /\ operations[Current].fate = "running"
           /\ operations[Current].key = cmd[h].key
           /\ operations[Current].id = cmd[h].id
           /\ operations[Current].light = cmd[h].light
           /\ operations[Current].life = life
           /\ journal[cmd[h].key] = None
<1>1. /\ cmd[h] \in Envelopes
      /\ ~MalformedMetadata(cmd[h])
  BY DEF IInv, HandledAreAccepted
<1>2. holder = h /\ h # None /\ ~Storing
  BY HolderIs DEF Storing
<1>3. operations # <<>>
  BY <1>2 DEF IInv, LockAndOperation
<1>4. Current \in 1..Len(operations)
  BY <1>3 DEF IInv, TypeOK, Current
<1>5. QED
  BY <1>1, <1>2, <1>3, <1>4 DEF IInv, LockAndOperation, Current, RunsFor

\* Finishing with a payload that decides the command's key, and that claims
\* "applied" only of the operation that ends now as confirmed.
LEMMA FinishKeeps ==
    ASSUME IInv, NEW h \in Handlers,
           NEW fate \in {"confirmed", "unconfirmed"}, NEW p \in Payloads,
           Finish(h, fate, p), p.key = cmd[h].key, p.error \in Decisive,
           p.status # "rejected",
           p.status = "applied" =>
             /\ fate = "confirmed"
             /\ p.error = "none"
             /\ p.run = Current
             /\ p.id = cmd[h].id
             /\ p.light = cmd[h].light
    PROVE  IInv'
<1>1. /\ pc[h] = "executing"
      /\ operations' = Ended(fate)
      /\ Decide(h, p)
      /\ UNCHANGED <<boundLight, waiting, life>>
  BY DEF Finish
<1>2. PICK e \in Envelopes : e = cmd[h]
  BY <1>1, ExecutingFacts
<1>3. /\ holder = h
      /\ ~Storing
      /\ operations # <<>>
      /\ Current \in 1..Len(operations)
      /\ operations[Current].fate = "running"
      /\ operations[Current].key = e.key
      /\ operations[Current].id = e.id
      /\ operations[Current].light = e.light
      /\ operations[Current].life = life
      /\ journal[p.key] = None
      /\ waiting' \in Seq(Handlers)
  BY <1>1, <1>2, ExecutingFacts DEF IInv, TypeOK
<1>4. TypeOK /\ fate \in Endings
  BY DEF IInv, Endings
<1>5. /\ Len(operations') = Len(operations)
      /\ Current = Len(operations')
      /\ operations'[Current].fate = fate
      /\ \A i \in 1..Len(operations) :
           /\ operations'[i].key = operations[i].key
           /\ operations'[i].id = operations[i].id
           /\ operations'[i].light = operations[i].light
           /\ operations'[i].life = operations[i].life
           /\ i # Current => operations'[i] = operations[i]
  BY <1>1, <1>3, <1>4, EndedFacts DEF Current
<1>6. /\ operations' \in Seq(Operation)
      /\ \A i \in 1..Len(operations') :
           operations'[i].life <= life /\ operations'[i].fate # "running"
      /\ AtMostOnce'
  BY <1>1, <1>3, <1>4, EndKeepsStory
<1>7. \A q \in Payloads : Backed(q) => Backed(q)'
  BY <1>1, <1>3, <1>4, EndRunningKeepsBacked
<1>8. Backed(p)'
  <2>1. CASE p.status = "applied"
    <3>1. p.run \in 1..Len(operations') /\ p.run = Current
      BY <1>3, <1>5, <2>1
    <3>2. /\ operations'[p.run].fate = "confirmed"
          /\ operations'[p.run].key = p.key
          /\ operations'[p.run].id = p.id
          /\ operations'[p.run].light = p.light
      BY <1>2, <1>3, <1>5, <2>1, <3>1
    <3>3. QED
      BY <2>1, <3>1, <3>2 DEF Backed, Confirms
  <2>2. CASE p.status # "applied"
    BY <2>2 DEF Backed
  <2>3. QED
    BY <2>1, <2>2
<1>9. \A i \in 1..Len(operations') :
        /\ operations'[i].life = life
        /\ operations'[i].fate \in {"confirmed", "unconfirmed"}
        => \/ journal[operations'[i].key] # None
           \/ /\ operations'[i].key = p.key
              /\ i = Len(operations')
  <2>1. SUFFICES ASSUME NEW i \in 1..Len(operations'), operations'[i].life = life,
                        operations'[i].fate \in {"confirmed", "unconfirmed"},
                        i # Current
                 PROVE  journal[operations'[i].key] # None
    BY <1>2, <1>3, <1>5
  <2>2. i \in 1..Len(operations) /\ operations'[i] = operations[i]
    BY <1>5, <2>1
  <2>3. QED
    BY <1>3, <2>1, <2>2, AllJournaled
<1>10. /\ operations' # <<>>
       /\ operations'[Len(operations')].fate \in {"confirmed", "unconfirmed"}
       /\ operations'[Len(operations')].key = cmd[h].key
       /\ operations'[Len(operations')].id = cmd[h].id
       /\ operations'[Len(operations')].light = cmd[h].light
       /\ operations'[Len(operations')].life = life
  BY <1>2, <1>3, <1>5
<1>11. QED
  BY <1>1, <1>3, <1>6, <1>7, <1>8, <1>9, <1>10, DecideKeeps

LEMMA SucceedKeeps ==
    ASSUME IInv, NEW h \in Handlers, Succeed(h)
    PROVE  IInv'
<1>1. pc[h] = "executing"
  BY DEF Succeed, Finish
<1>2. PICK e \in Envelopes : e = cmd[h] /\ ~MalformedMetadata(e)
  BY <1>1, ExecutingFacts
<1>3. Current \in Nat
  BY <1>1, ExecutingFacts DEF IInv, TypeOK, Current
<1>4. PICK p \in Payloads : p = Applied(e, Current)
  BY <1>3, PayloadType DEF IInv, Applied, Errors
<1>5. /\ p.key = e.key
      /\ p.status = "applied"
      /\ p.error = "none"
      /\ p.error \in Decisive
      /\ p.run = Current
      /\ p.id = e.id
      /\ p.light = e.light
  BY <1>2, <1>4, PayloadNames DEF Applied, Decisive
<1>6. Finish(h, "confirmed", p)
  BY <1>2, <1>4 DEF Succeed
<1>7. QED
  BY <1>2, <1>5, <1>6, FinishKeeps

LEMMA FailKeeps ==
    ASSUME IInv, NEW h \in Handlers, Fail(h)
    PROVE  IInv'
<1>1. pc[h] = "executing"
  BY DEF Fail, Finish
<1>2. PICK e \in Envelopes : e = cmd[h] /\ ~MalformedMetadata(e)
  BY <1>1, ExecutingFacts
<1>3. PICK p \in Payloads : p = Failed(e)
  BY PayloadType DEF IInv, Failed, Errors
<1>4. /\ p.key = e.key
      /\ p.error \in Decisive
      /\ p.status = "failed"
  BY <1>2, <1>3, PayloadNames DEF Failed, Decisive
<1>5. Finish(h, "unconfirmed", p)
  BY <1>2, <1>3 DEF Fail
<1>6. QED
  BY <1>2, <1>4, <1>5, FinishKeeps

\* What a durable put is storing, or has stored.
LEMMA StoringFacts ==
    ASSUME IInv, NEW h \in Handlers, pc[h] \in {"storing", "stored"}
    PROVE  /\ holder = h
           /\ cmd[h] \in Envelopes
           /\ ~MalformedMetadata(cmd[h])
           /\ cmd[h].key \in Keys
           /\ cmd[h].eid \in EnvelopeIds
           /\ Durable
           /\ outcome \in Payloads
           /\ outcome.error \in Decisive
           /\ outcome.key = cmd[h].key
           /\ Backed(outcome)
           /\ Storing <=> pc[h] = "storing"
           /\ journal[outcome.key] = IF Storing THEN None ELSE outcome
           /\ \A i \in 1..Len(operations) :
                operations[i].life <= life /\ operations[i].fate # "running"
<1>1. holder = h /\ h # None
  BY HolderIs
<1>2. cmd[h] \in Envelopes /\ ~MalformedMetadata(cmd[h])
  BY DEF IInv, HandledAreAccepted
<1>3. cmd[h].key \in Keys /\ cmd[h].eid \in EnvelopeIds
  BY <1>2, PayloadNames
<1>4. Storing <=> pc[h] = "storing"
  BY <1>1 DEF Storing
<1>5. pc[holder] # "executing"
  BY <1>1
<1>6. QED
  BY <1>1, <1>2, <1>3, <1>4, <1>5, NoneRuns DEF IInv, TypeOK, OutcomeDecides

LEMMA StoreKeeps ==
    ASSUME IInv, NEW h \in Handlers, Store(h)
    PROVE  IInv'
<1>1. /\ pc[h] = "storing"
      /\ journal' = Put(cmd[h].key, outcome)
      /\ pc' = [pc EXCEPT ![h] = "stored"]
      /\ UNCHANGED <<boundLight, holder, waiting, outcome, cmd, results,
                     operations, life>>
  BY DEF Store
<1>2. PICK p \in Payloads : p = outcome
  BY <1>1, StoringFacts
<1>3. /\ TypeOK
      /\ holder = h
      /\ h # None
      /\ p # None
      /\ Durable
      /\ p.key \in Keys
      /\ p.key = cmd[h].key
      /\ p.error \in Decisive
      /\ journal[p.key] = None
      /\ cmd[h].eid \in EnvelopeIds
      /\ \A i \in 1..Len(operations) :
           operations[i].life <= life /\ operations[i].fate # "running"
  BY <1>1, <1>2, StoringFacts, NoneIsNothing, NoneIsNoPayload DEF IInv
<1>4. \A q : Backed(q)' = Backed(q)
  BY <1>1 DEF Backed
<1>5. Backed(p)' /\ \A q \in Payloads : Backed(q) => Backed(q)'
  BY <1>1, <1>2, <1>4, StoringFacts DEF Backed
<1>6. /\ journal' \in [Keys -> Payloads \cup {None}]
      /\ \A k \in Keys : k # p.key => journal'[k] = journal[k]
      /\ journal'[p.key] = p
      /\ JournalDecides'
      /\ AnswersJournaled'
      /\ AnswersAgree'
  <2>1. PICK e : e.eid \in EnvelopeIds
    BY <1>3
  <2>2. journal' = Put(p.key, p) /\ results' = results /\ life' = life
    BY <1>1, <1>2, <1>3
  <2>3. QED
    BY <1>3, <1>5, <2>1, <2>2, DecideKeepsAgreement
<1>7. pc'[h] = "stored" /\ pc'[holder'] = "stored"
  BY <1>1, <1>3 DEF TypeOK
<1>8. TypeOK'
  BY <1>1, <1>3, <1>6 DEF TypeOK
<1>9. HandledAreAccepted'
  BY <1>1 DEF IInv, HandledAreAccepted, TypeOK
<1>10. LockAndOperation'
  <2>1. \A g \in Handlers :
          pc'[g] \in {"executing", "storing", "stored"} <=> holder' = g
    BY <1>1, <1>3 DEF IInv, LockAndOperation, TypeOK
  <2>2. QED
    BY <1>1, <1>3, <1>7, <2>1 DEF LockAndOperation
<1>11. ~Storing'
  BY <1>7 DEF Storing
<1>12. OutcomeDecides'
  <2>1. outcome' = p /\ Backed(outcome)' /\ cmd'[holder'] = cmd[h]
    BY <1>1, <1>2, <1>3, <1>5 DEF Backed
  <2>2. ~StoringOutcome' /\ (Durable => life' = 0)
    BY <1>1, <1>11 DEF IInv, OutcomeDecides, StoringOutcome
  <2>3. QED
    BY <1>3, <1>6, <1>11, <2>1, <2>2 DEF OutcomeDecides
<1>13. OutcomesJournaled'
  <2>1. SUFFICES ASSUME NEW i \in 1..Len(operations), operations[i].life = life,
                        operations[i].fate \in {"confirmed", "unconfirmed"}
                 PROVE  journal'[operations[i].key] # None
    BY <1>1 DEF OutcomesJournaled
  <2>2. operations[i].key \in Keys
    BY <1>3, OperationKeys
  <2>3. CASE operations[i].key = p.key
    BY <1>3, <1>6, <2>3
  <2>4. CASE operations[i].key # p.key
    <3>1. ~(StoringOutcome /\ i = Len(operations))
      BY <1>3, <2>4 DEF IInv, OutcomeDecides, RunsFor
    <3>2. journal[operations[i].key] # None
      BY <2>1, <3>1 DEF IInv, OutcomesJournaled
    <3>3. QED
      BY <1>6, <2>2, <2>4, <3>2
  <2>5. QED
    BY <2>3, <2>4
<1>14. AtMostOnce'
  BY <1>1 DEF IInv, AtMostOnce
<1>15. QED
  BY <1>6, <1>8, <1>9, <1>10, <1>12, <1>13, <1>14 DEF IInv

LEMMA ReplyKeeps ==
    ASSUME IInv, NEW h \in Handlers, Reply(h)
    PROVE  IInv'
<1>1. /\ pc[h] = "stored"
      /\ Answer(cmd[h], outcome)
      /\ outcome' = None
      /\ holder' = None
      /\ Leave(h)
      /\ UNCHANGED <<boundLight, journal, waiting, operations, life>>
  BY DEF Reply
<1>2. PICK p \in Payloads, e \in Envelopes : p = outcome /\ e = cmd[h]
  BY <1>1, StoringFacts
<1>3. /\ TypeOK
      /\ holder = h
      /\ ~Storing
      /\ p.key \in Keys
      /\ journal[p.key] = p
      /\ Backed(p)
      /\ e.eid \in EnvelopeIds
      /\ Answer(e, p)
      /\ \A i \in 1..Len(operations) :
           operations[i].life <= life /\ operations[i].fate # "running"
  BY <1>1, <1>2, StoringFacts DEF IInv
<1>4. /\ results' \subseteq Result
      /\ AnswersJournaled'
      /\ AnswersAgree'
  BY <1>1, <1>3, AnswerKeepsAgreement
<1>5. /\ pc' \in [Handlers -> Places]
      /\ cmd' \in [Handlers -> Envelopes \cup {None}]
      /\ HandledAreAccepted'
      /\ LockAndOperation'
  BY <1>1, <1>3, LeaveKeepsStory
<1>6. TypeOK'
  BY <1>1, <1>3, <1>4, <1>5 DEF TypeOK, Places
<1>7. OutcomeDecides'
  BY <1>1 DEF IInv, OutcomeDecides, StoringOutcome, Storing
<1>8. JournalDecides' /\ AtMostOnce'
  BY <1>1 DEF IInv, JournalDecides, AtMostOnce, Backed
<1>9. OutcomesJournaled'
  BY <1>1, <1>3, AllJournaled DEF OutcomesJournaled
<1>10. QED
  BY <1>4, <1>5, <1>6, <1>7, <1>8, <1>9 DEF IInv

LEMMA CancelWaitingKeeps ==
    ASSUME IInv, NEW h \in Handlers, CancelWaiting(h)
    PROVE  IInv'
<1>1. /\ pc[h] = "waiting"
      /\ pc' = [pc EXCEPT ![h] = "idle"]
      /\ cmd' = [cmd EXCEPT ![h] = None]
      /\ UNCHANGED <<boundLight, journal, holder, outcome, results, operations,
                     life>>
  BY DEF CancelWaiting, Leave
<1>2. waiting' \in Seq(Handlers)
  <2>1. PICK i \in 1..Len(waiting) : waiting' = WithoutIndex(waiting, i)
    BY DEF CancelWaiting
  <2>2. QED
    BY <2>1, WithoutIndexType DEF IInv, TypeOK
<1>3. TypeOK'
  BY <1>1, <1>2 DEF IInv, TypeOK
<1>4. HandledAreAccepted'
  BY <1>1 DEF IInv, HandledAreAccepted, TypeOK
<1>5. holder # h
  BY <1>1 DEF IInv, LockAndOperation
<1>6. holder # None => pc'[holder] = pc[holder] /\ cmd'[holder] = cmd[holder]
  BY <1>1, <1>5 DEF IInv, TypeOK
<1>7. LockAndOperation'
  BY <1>1, <1>5, <1>6 DEF IInv, LockAndOperation, TypeOK, RunsFor
<1>8. OutcomeDecides' /\ JournalDecides' /\ OutcomesJournaled' /\ AtMostOnce'
  BY <1>1, <1>6, QuietKeeps
<1>9. AnswersJournaled' /\ AnswersAgree'
  BY <1>1, SilentKeeps DEF Backed
<1>10. QED
  BY <1>3, <1>4, <1>7, <1>8, <1>9 DEF IInv

\* What the journal holds or the server was told.
Kept(q) ==
    (\E k \in Keys : journal[k] = q) \/ (\E r \in results : r.payload = q)

\* An outcome that is not stored yet was told to nobody: what is kept is backed
\* by other operations.
LEMMA UnstoredIsUnknown ==
    ASSUME IInv, StoringOutcome, NEW q \in Payloads, Kept(q), Backed(q),
           q.status = "applied"
    PROVE  ~Confirms(operations[Current], q)
<1> SUFFICES ASSUME Confirms(operations[Current], q) PROVE FALSE
  OBVIOUS
<1>1. PICK h \in Handlers : h = holder /\ pc[h] = "storing"
  BY DEF IInv, TypeOK, StoringOutcome, Storing
<1>2. q.key = cmd[h].key /\ Durable /\ life = 0
  BY <1>1, StoringFacts DEF IInv, OutcomeDecides, RunsFor, Confirms, Current
<1>3. journal[q.key] = None /\ q # None /\ q.error \in Decisive
  BY <1>1, <1>2, StoringFacts, NoneIsNoPayload DEF Backed, Decisive
<1>4. CASE \E k \in Keys : journal[k] = q
  BY <1>3, <1>4 DEF IInv, JournalDecides
<1>5. CASE \E r \in results : r.payload = q
  <2>1. PICK r \in results : r.payload = q
    BY <1>5
  <2>2. r.life \in Nat /\ r.life <= life
    BY DEF IInv, TypeOK, Result, AnswersJournaled
  <2>3. r.life = life
    BY <1>2, <2>2
  <2>4. QED
    BY <1>3, <2>1, <2>3 DEF IInv, AnswersJournaled, IsDecision
<1>6. QED
  BY <1>4, <1>5 DEF Kept

\* When the lock's holder, if any, is cut short no operation runs any more,
\* no answer and no entry loses the operation that backs it, and the outcomes
\* that remain are journaled.
LEMMA CutShortKeeps ==
    ASSUME IInv,
           operations' = IF holder = None THEN operations ELSE CutShort(holder)
    PROVE  /\ operations' \in Seq(Operation)
           /\ AtMostOnce'
           /\ \A i \in 1..Len(operations') :
                operations'[i].life <= life /\ operations'[i].fate # "running"
           /\ \A i \in 1..Len(operations') :
                /\ operations'[i].life = life
                /\ operations'[i].fate \in {"confirmed", "unconfirmed"}
                => journal[operations'[i].key] # None
           /\ \A q \in Payloads : Kept(q) /\ Backed(q) => Backed(q)'
<1>1. TypeOK
  BY DEF IInv
<1>2. CASE operations' = operations /\ ~StoringOutcome
           /\ (holder = None \/ pc[holder] # "executing")
  <2>1. operations' \in Seq(Operation) /\ AtMostOnce'
    BY <1>2 DEF IInv, TypeOK, AtMostOnce
  <2>2. \A i \in 1..Len(operations) :
          operations[i].life <= life /\ operations[i].fate # "running"
    BY <1>2, NoneRuns
  <2>3. \A i \in 1..Len(operations) :
          /\ operations[i].life = life
          /\ operations[i].fate \in {"confirmed", "unconfirmed"}
          => journal[operations[i].key] # None
    BY <1>2 DEF IInv, OutcomesJournaled
  <2>4. \A q \in Payloads : Backed(q) => Backed(q)'
    BY <1>2 DEF Backed
  <2>5. QED
    BY <1>2, <2>1, <2>2, <2>3, <2>4
\* One operation ends: those before it keep their fate.
<1>3. ASSUME operations # <<>>, NEW fate \in {"interrupted", "unrecorded"},
             operations' = Ended(fate),
             \A i \in 1..Len(operations) : ~(StoringOutcome /\ i = Len(operations))
               \/ i = Current
      PROVE  /\ operations' \in Seq(Operation)
             /\ AtMostOnce'
             /\ \A i \in 1..Len(operations') :
                  operations'[i].life <= life /\ operations'[i].fate # "running"
             /\ \A i \in 1..Len(operations') :
                  /\ operations'[i].life = life
                  /\ operations'[i].fate \in {"confirmed", "unconfirmed"}
                  => journal[operations'[i].key] # None
  <2>1. fate \in Endings
    BY DEF Endings
  <2>2. /\ Len(operations') = Len(operations)
        /\ operations'[Current].fate = fate
        /\ \A i \in 1..Len(operations) :
             i # Current => operations'[i] = operations[i]
    BY <1>1, <1>3, <2>1, EndedFacts
  <2>3. ASSUME NEW i \in 1..Len(operations'), operations'[i].life = life,
               operations'[i].fate \in {"confirmed", "unconfirmed"}
        PROVE  journal[operations'[i].key] # None
    <3>1. i \in 1..Len(operations) /\ operations'[i] = operations[i] /\ i # Current
      BY <2>2, <2>3
    <3>2. QED
      BY <1>3, <2>3, <3>1 DEF IInv, OutcomesJournaled, Current
  <2>4. QED
    BY <1>3, <2>1, <2>3, EndKeepsStory
<1>4. CASE holder # None /\ pc[holder] = "executing"
  <2>1. PICK h \in Handlers : h = holder
    BY <1>1, <1>4 DEF TypeOK
  <2>2. /\ operations # <<>>
        /\ operations[Current].fate = "running"
        /\ operations' = Ended("interrupted")
    BY <1>4, <2>1, ExecutingFacts DEF CutShort
  <2>3. \A q \in Payloads : Backed(q) => Backed(q)'
    BY <1>1, <2>2, EndRunningKeepsBacked DEF Endings
  <2>4. QED
    BY <1>3, <2>2, <2>3 DEF Current
<1>5. CASE StoringOutcome
  <2>1. operations # <<>> /\ operations' = Ended("unrecorded")
    BY <1>5 DEF IInv, OutcomeDecides, StoringOutcome, Storing, CutShort
  <2>2. ASSUME NEW q \in Payloads, Kept(q), Backed(q) PROVE Backed(q)'
    BY <1>1, <1>5, <2>1, <2>2, UnstoredIsUnknown, EndKeepsBacked DEF Endings
  <2>3. QED
    BY <1>3, <2>1, <2>2 DEF Current
<1>6. CASE holder = None
  BY <1>2, <1>6 DEF StoringOutcome, Storing
<1>7. CASE holder # None /\ pc[holder] # "executing" /\ ~StoringOutcome
  BY <1>2, <1>7 DEF StoringOutcome, Storing, CutShort
<1>8. QED
  BY <1>4, <1>5, <1>6, <1>7

\* Entries, and answers, stay backed when what is kept does.
LEMMA EntriesStayBacked ==
    ASSUME IInv, \A q \in Payloads : Kept(q) /\ Backed(q) => Backed(q)',
           journal' = journal
    PROVE  JournalDecides'
<1>1. SUFFICES ASSUME NEW k \in Keys, journal[k] # None
               PROVE  /\ journal[k].error \in Decisive
                      /\ journal[k].key = k
                      /\ Backed(journal[k])'
  BY DEF JournalDecides
<1>2. PICK q \in Payloads : q = journal[k]
  BY <1>1 DEF IInv, TypeOK
<1>3. /\ q.error \in Decisive
      /\ q.key = k
      /\ Backed(q)
      /\ Kept(q)
  BY <1>1, <1>2 DEF IInv, JournalDecides, Kept
<1>4. Backed(q)'
  BY <1>3
<1>5. QED
  BY <1>2, <1>3, <1>4 DEF Backed

LEMMA AnswersStayBacked ==
    ASSUME IInv, \A q \in Payloads : Kept(q) /\ Backed(q) => Backed(q)',
           NEW r \in results
    PROVE  Backed(r.payload)'
<1>1. PICK q \in Payloads : q = r.payload
  BY DEF IInv, TypeOK, Result
<1>2. Kept(q) /\ Backed(q)
  BY <1>1 DEF IInv, AnswersJournaled, Kept
<1>3. Backed(q)'
  BY <1>2
<1>4. QED
  BY <1>1, <1>3

LEMMA CancelHolderKeeps ==
    ASSUME IInv, NEW h \in Handlers, CancelHolder(h)
    PROVE  IInv'
<1>1. /\ holder = h
      /\ h # None
      /\ operations' = IF holder = None THEN operations ELSE CutShort(holder)
      /\ outcome' = None
      /\ holder' = None
      /\ Leave(h)
      /\ UNCHANGED <<boundLight, journal, waiting, results, life>>
  BY NoneIsNothing DEF CancelHolder
<1>2. /\ operations' \in Seq(Operation)
      /\ AtMostOnce'
      /\ \A i \in 1..Len(operations') :
           operations'[i].life <= life' /\ operations'[i].fate # "running"
      /\ \A i \in 1..Len(operations') :
           /\ operations'[i].life = life
           /\ operations'[i].fate \in {"confirmed", "unconfirmed"}
           => journal[operations'[i].key] # None
      /\ \A q \in Payloads : Kept(q) /\ Backed(q) => Backed(q)'
  BY <1>1, CutShortKeeps
<1>3. /\ pc' \in [Handlers -> Places]
      /\ cmd' \in [Handlers -> Envelopes \cup {None}]
      /\ HandledAreAccepted'
      /\ LockAndOperation'
  BY <1>1, <1>2, LeaveKeepsStory
<1>4. TypeOK'
  BY <1>1, <1>2, <1>3 DEF IInv, TypeOK, Places
<1>5. OutcomeDecides'
  BY <1>1 DEF IInv, OutcomeDecides, StoringOutcome, Storing
<1>6. JournalDecides'
  BY <1>1, <1>2, EntriesStayBacked
<1>7. OutcomesJournaled'
  BY <1>1, <1>2 DEF OutcomesJournaled
<1>8. AnswersJournaled' /\ AnswersAgree'
  <2>1. \A r \in results : Backed(r.payload) => Backed(r.payload)'
    BY <1>1, <1>2, AnswersStayBacked
  <2>2. QED
    BY <1>1, <2>1, SilentKeeps
<1>9. QED
  BY <1>2, <1>3, <1>4, <1>5, <1>6, <1>7, <1>8 DEF IInv

LEMMA RestartKeeps ==
    ASSUME IInv, Restart
    PROVE  IInv'
<1>1. /\ holder' = None
      /\ outcome' = None
      /\ waiting' = <<>>
      /\ pc' = [h \in Handlers |-> "idle"]
      /\ cmd' = [h \in Handlers |-> None]
      /\ UNCHANGED <<boundLight, results>>
      /\ operations' = IF holder = None THEN operations ELSE CutShort(holder)
  BY DEF Restart
<1>2. \/ life' = life /\ journal' = journal
      \/ life' = life + 1 /\ journal' = [k \in Keys |-> None] /\ ~Durable
  BY DEF Restart
<1>3. life \in Nat /\ life' \in Nat
  BY <1>2 DEF IInv, TypeOK
<1>4. /\ operations' \in Seq(Operation)
      /\ AtMostOnce'
      /\ \A i \in 1..Len(operations') :
           operations'[i].life <= life /\ operations'[i].fate # "running"
      /\ \A i \in 1..Len(operations') :
           /\ operations'[i].life = life
           /\ operations'[i].fate \in {"confirmed", "unconfirmed"}
           => journal[operations'[i].key] # None
      /\ \A q \in Payloads : Kept(q) /\ Backed(q) => Backed(q)'
  BY <1>1, CutShortKeeps
<1>5. TypeOK'
  BY <1>1, <1>2, <1>3, <1>4 DEF IInv, TypeOK
<1>6. HandledAreAccepted'
  BY <1>1 DEF HandledAreAccepted
<1>7. \A i \in 1..Len(operations') : operations'[i].life \in Nat
  <2>1. \A o \in Operation : o.life \in Nat
    BY DEF Operation
  <2>2. QED
    BY <1>4, <2>1
<1>8. LockAndOperation'
  <2>1. \A i \in 1..Len(operations') :
          operations'[i].life <= life' /\ operations'[i].fate # "running"
    BY <1>2, <1>3, <1>4, <1>7
  <2>2. QED
    BY <1>1, <2>1, NoneIsNothing DEF LockAndOperation
<1>9. OutcomeDecides'
  BY <1>1, <1>2 DEF IInv, OutcomeDecides, StoringOutcome, Storing
<1>10. JournalDecides'
  <2>1. CASE journal' = journal
    BY <1>4, <2>1, EntriesStayBacked
  <2>2. CASE journal' = [k \in Keys |-> None]
    BY <2>2 DEF JournalDecides
  <2>3. QED
    BY <1>2, <2>1, <2>2
<1>11. OutcomesJournaled'
  <2>1. SUFFICES ASSUME NEW i \in 1..Len(operations'),
                        operations'[i].life = life',
                        operations'[i].fate \in {"confirmed", "unconfirmed"}
                 PROVE  journal'[operations'[i].key] # None
    BY DEF OutcomesJournaled
  <2>2. operations'[i].life <= life /\ operations'[i].life \in Nat
    BY <1>4, <1>7
  <2>3. life' = life /\ journal' = journal
    BY <1>2, <1>3, <2>1, <2>2
  <2>4. QED
    BY <1>4, <2>1, <2>3
<1>12. AnswersJournaled'
  <2>1. ASSUME NEW r \in results
        PROVE  /\ r.life <= life'
               /\ Backed(r.payload)'
               /\ IsDecision(r) => r.payload.key \in Keys
               /\ IsDecision(r) /\ r.life = life' =>
                    journal'[r.payload.key] = r.payload
    <3>1. r.life \in Nat
      BY DEF IInv, TypeOK, Result
    <3>2. /\ r.life <= life
          /\ Backed(r.payload)
          /\ IsDecision(r) => r.payload.key \in Keys
          /\ IsDecision(r) /\ r.life = life =>
               journal[r.payload.key] = r.payload
      BY DEF IInv, AnswersJournaled
    <3>3. Backed(r.payload)'
      BY <1>1, <1>4, <3>2, AnswersStayBacked
    <3>4. r.life <= life' /\ (r.life = life' => life' = life /\ journal' = journal)
      BY <1>2, <1>3, <3>1, <3>2
    <3>5. QED
      BY <3>2, <3>3, <3>4
  <2>2. QED
    BY <1>1, <2>1 DEF AnswersJournaled, IsDecision
<1>13. AnswersAgree'
  BY <1>1 DEF IInv, AnswersAgree, IsDecision
<1>14. QED
  BY <1>4, <1>5, <1>6, <1>8, <1>9, <1>10, <1>11, <1>12, <1>13 DEF IInv

LEMMA PairKeeps ==
    ASSUME IInv, NEW h \in Handlers, NEW l \in Lights, Pair(h, l)
    PROVE  IInv'
<1>1. /\ boundLight' = l
      /\ l # None
      /\ UNCHANGED <<journal, holder, waiting, pc, outcome, cmd, results,
                     operations, life>>
  BY NoneIsNothing DEF Pair
<1>2. TypeOK' /\ HandledAreAccepted' /\ LockAndOperation'
  BY <1>1 DEF IInv, TypeOK, HandledAreAccepted, LockAndOperation, RunsFor
<1>3. OutcomeDecides' /\ JournalDecides' /\ OutcomesJournaled' /\ AtMostOnce'
  BY <1>1, QuietKeeps
<1>4. AnswersJournaled' /\ AnswersAgree'
  BY <1>1, SilentKeeps DEF Backed
<1>5. QED
  BY <1>2, <1>3, <1>4 DEF IInv

LEMMA StutterKeeps ==
    ASSUME IInv, UNCHANGED vars
    PROVE  IInv'
<1>1. TypeOK' /\ HandledAreAccepted' /\ LockAndOperation'
  BY DEF vars, IInv, TypeOK, HandledAreAccepted, LockAndOperation, RunsFor
<1>2. OutcomeDecides' /\ JournalDecides' /\ OutcomesJournaled' /\ AtMostOnce'
  BY QuietKeeps DEF vars
<1>3. AnswersJournaled' /\ AnswersAgree'
  BY SilentKeeps DEF vars, Backed
<1>4. QED
  BY <1>1, <1>2, <1>3 DEF IInv

\* The invariant holds in every reachable state: handle, its cancellation,
\* pairing and restarts preserve it.
THEOREM InductiveInvariant == Spec => []IInv
<1>1. Init => IInv
  BY InitKeeps
<1>2. IInv /\ [Next]_vars => IInv'
  <2> SUFFICES ASSUME IInv, [Next]_vars PROVE IInv'
    OBVIOUS
  <2>1. CASE \E h \in Handlers, e \in Envelopes : Refuse(h, e) \/ Accept(h, e)
    BY <2>1, RefuseKeeps, AcceptKeeps
  <2>2. CASE \E h \in Handlers : Work(h)
    BY <2>2, RepeatKeeps, RejectValueKeeps, StartKeeps, SucceedKeeps, FailKeeps,
       StoreKeeps, ReplyKeeps
       DEF Work
  <2>3. CASE \E h \in Handlers : CancelWaiting(h) \/ CancelHolder(h)
    BY <2>3, CancelWaitingKeeps, CancelHolderKeeps
  <2>4. CASE \E h \in Handlers, l \in Lights : Pair(h, l)
    BY <2>4, PairKeeps
  <2>5. CASE Restart
    BY <2>5, RestartKeeps
  <2>6. CASE UNCHANGED vars
    BY <2>6, StutterKeeps
  <2>7. QED
    BY <2>1, <2>2, <2>3, <2>4, <2>5, <2>6 DEF Next
<1>3. QED
  BY <1>1, <1>2, PTL DEF Spec

\* The boundary's state has its types in every reachable state.
THEOREM TypeCorrect == Spec => []TypeOK
<1>1. IInv => TypeOK
  BY DEF IInv
<1>2. QED
  BY <1>1, InductiveInvariant, PTL

\* A redelivered command is always told the same decision (handle's cached
\* path against its first answer).
THEOREM RetriesAgree == Spec => []AnswersAgree
<1>1. IInv => AnswersAgree
  BY DEF IInv
<1>2. QED
  BY <1>1, InductiveInvariant, PTL

\* A key reaches the driver again only after an operation that was cut short
\* before its outcome was known or stored.
THEOREM RetriesDoNotRepeat == Spec => []AtMostOnce
<1>1. IInv => AtMostOnce
  BY DEF IInv
<1>2. QED
  BY <1>1, InductiveInvariant, PTL

\* "applied" is only ever said of a confirmed operation of that command.
THEOREM AppliedIsConfirmed == Spec => []AppliedWasConfirmed
<1>1. IInv => AppliedWasConfirmed
  <2>1. SUFFICES ASSUME IInv, NEW r \in results, r.payload.status = "applied"
                 PROVE  \E i \in 1..Len(operations) :
                          i = r.payload.run /\ Confirms(operations[i], r.payload)
    BY DEF AppliedWasConfirmed, Confirms
  <2>2. Backed(r.payload)
    BY <2>1 DEF IInv, AnswersJournaled
  <2>3. QED
    BY <2>1, <2>2 DEF Backed
<1>2. QED
  BY <1>1, InductiveInvariant, PTL

\* One driver operation at a time, and only under the command lock.
THEOREM OperationsAreSerial == Spec => []OneAtATime
<1>1. IInv => OneAtATime
  BY DEF IInv, TypeOK, LockAndOperation, OneAtATime
<1>2. QED
  BY <1>1, InductiveInvariant, PTL

\* One receiver handles the messages of a session, one after the other.
OneHandler == \A g, h \in Handlers : g = h

\* Under one receiver every command is carried out on the light it names,
\* whatever is paired between commands.
THEOREM SerialReachesNamedLight ==
    ASSUME OneHandler
    PROVE  Spec => []ReachesNamedLight
<1> DEFINE Inv == HandledNameBoundLight /\ ReachesNamedLight
<1>1. Init => Inv
  BY DEF Init, HandledNameBoundLight, ReachesNamedLight
<1>2. IInv /\ Inv /\ [Next]_vars => Inv'
  <2> SUFFICES ASSUME IInv, Inv, [Next]_vars PROVE Inv'
    OBVIOUS
  <2> USE DEF HandledNameBoundLight, ReachesNamedLight
  <2>1. ASSUME NEW h \in Handlers, NEW e \in Envelopes,
               Refuse(h, e) \/ Accept(h, e)
        PROVE  Inv'
    <3>1. /\ UNCHANGED <<boundLight, operations>>
          /\ \/ UNCHANGED <<pc, cmd>>
             \/ /\ pc' = [pc EXCEPT ![h] = "waiting"]
                /\ cmd' = [cmd EXCEPT ![h] = e]
                /\ e.light = boundLight
      BY <2>1 DEF Refuse, Accept, Accepts
    <3>2. QED
      BY <3>1 DEF IInv, TypeOK
  <2>2. ASSUME NEW h \in Handlers,
               \/ Repeat(h) \/ RejectValue(h) \/ Store(h) \/ Reply(h)
               \/ CancelWaiting(h)
        PROVE  Inv'
    <3>1. /\ UNCHANGED <<boundLight, operations>>
          /\ pc[h] # "idle"
          /\ \/ Leave(h)
             \/ /\ cmd' = cmd
                /\ \E place \in Places : pc' = [pc EXCEPT ![h] = place]
      BY <2>2 DEF Repeat, RejectValue, Store, Reply, CancelWaiting, Decide,
                  HasLock, Places
    <3>2. HandledNameBoundLight'
      BY <3>1 DEF Leave, IInv, TypeOK
    <3>3. QED
      BY <3>1, <3>2
  <2>3. ASSUME NEW h \in Handlers, Start(h)
        PROVE  Inv'
    <3>1. /\ pc[h] = "waiting"
          /\ operations' = Append(operations,
               [key |-> cmd[h].key, id |-> cmd[h].id, light |-> cmd[h].light,
                device |-> boundLight, life |-> life, fate |-> "running"])
          /\ pc' = [pc EXCEPT ![h] = "executing"]
          /\ UNCHANGED <<boundLight, cmd>>
      BY <2>3 DEF Start, HasLock
    <3>2. cmd[h].light = boundLight
      BY <3>1
    <3>3. PICK o : o.device = o.light /\ operations' = Append(operations, o)
      BY <3>1, <3>2
    <3>4. operations \in Seq(Operation)
      BY DEF IInv, TypeOK
    <3>5. ReachesNamedLight'
      BY <3>3, <3>4
    <3>6. HandledNameBoundLight'
      BY <3>1 DEF IInv, TypeOK
    <3>7. QED
      BY <3>5, <3>6
  <2>4. ASSUME NEW fate \in Endings, operations # <<>>,
               operations' = Ended(fate)
        PROVE  ReachesNamedLight'
    <3>1. /\ Len(operations') = Len(operations)
          /\ \A i \in 1..Len(operations) :
               /\ operations'[i].light = operations[i].light
               /\ operations'[i].device = operations[i].device
      BY <2>4, EndedFacts DEF IInv
    <3>2. QED
      BY <3>1
  <2>5. ASSUME NEW h \in Handlers, Succeed(h) \/ Fail(h)
        PROVE  Inv'
    <3>1. /\ pc[h] = "executing"
          /\ boundLight' = boundLight
          /\ \E fate \in Endings : operations' = Ended(fate)
          /\ \/ Leave(h)
             \/ cmd' = cmd /\ pc' = [pc EXCEPT ![h] = "storing"]
      BY <2>5 DEF Succeed, Fail, Finish, Decide, Endings
    <3>2. operations # <<>>
      BY <3>1, ExecutingFacts
    <3>3. ReachesNamedLight'
      BY <2>4, <3>1, <3>2
    <3>4. HandledNameBoundLight'
      BY <3>1 DEF Leave, IInv, TypeOK
    <3>5. QED
      BY <3>3, <3>4
  <2>6. ASSUME operations' = IF holder = None THEN operations ELSE CutShort(holder)
        PROVE  ReachesNamedLight'
    <3>1. operations' = operations \/ \E fate \in Endings : operations' = Ended(fate)
      BY <2>6 DEF CutShort, Endings
    <3>2. CASE operations' = operations
      BY <3>2
    <3>3. CASE operations' # operations
      <4>1. /\ holder # None
            /\ pc[holder] = "executing" \/ StoringOutcome
        BY <2>6, <3>3 DEF CutShort, StoringOutcome, Storing
      <4>2. operations # <<>>
        BY <4>1 DEF IInv, LockAndOperation, OutcomeDecides
      <4>3. QED
        BY <2>4, <3>1, <3>3, <4>2
    <3>4. QED
      BY <3>2, <3>3
  <2>7. ASSUME NEW h \in Handlers, CancelHolder(h)
        PROVE  Inv'
    <3>1. /\ Leave(h)
          /\ boundLight' = boundLight
          /\ operations' = IF holder = None THEN operations ELSE CutShort(holder)
      BY <2>7, NoneIsNothing DEF CancelHolder
    <3>2. HandledNameBoundLight'
      BY <3>1 DEF Leave, IInv, TypeOK
    <3>3. QED
      BY <2>6, <3>1, <3>2
  <2>8. ASSUME NEW h \in Handlers, NEW l \in Lights, Pair(h, l)
        PROVE  Inv'
    <3>1. \A g \in Handlers : pc[g] = "idle"
      BY <2>8 DEF Pair, OneHandler
    <3>2. QED
      BY <2>8, <3>1 DEF Pair
  <2>9. CASE Restart
    <3>1. /\ pc' = [h \in Handlers |-> "idle"]
          /\ operations' = IF holder = None THEN operations ELSE CutShort(holder)
      BY <2>9 DEF Restart
    <3>2. QED
      BY <2>6, <3>1
  <2>10. CASE UNCHANGED vars
    BY <2>10 DEF vars
  <2>11. QED
    BY <2>1, <2>2, <2>3, <2>5, <2>7, <2>8, <2>9, <2>10 DEF Next, Work
<1>3. Inv => ReachesNamedLight
  OBVIOUS
<1>4. QED
  BY <1>1, <1>2, <1>3, InductiveInvariant, PTL DEF Spec

\* Once the server was told a decision, its key is never sent to the driver
\* again in that life of the journal, through cancellations and, with a
\* durable journal, restarts.
THEOREM AnsweredStaysFinal == Spec => AnsweredIsFinal
<1> DEFINE Final ==
        \A r \in results :
          IsDecision(r) /\ r.life = life /\ operations' # operations =>
              \A i \in Len(operations) + 1 .. Len(operations') :
                  operations'[i].key # r.payload.key
<1>1. IInv /\ [Next]_vars => [Final]_vars
  <2> SUFFICES ASSUME IInv, Next PROVE Final
    OBVIOUS
  <2>1. operations \in Seq(Operation)
    BY DEF IInv, TypeOK
  <2>2. ASSUME NEW h \in Handlers, Start(h)
        PROVE  Final
    <3>1. journal[cmd[h].key] = None
      BY <2>2 DEF Start
    <3>2. PICK o : o.key = cmd[h].key /\ operations' = Append(operations, o)
      BY <2>2 DEF Start
    <3>3. \A i \in Len(operations) + 1 .. Len(operations') :
            operations'[i].key = cmd[h].key
      BY <2>1, <3>2
    <3>4. ASSUME NEW r \in results, IsDecision(r), r.life = life
          PROVE  r.payload.key # cmd[h].key
      <4>1. journal[r.payload.key] = r.payload /\ r.payload \in Payloads
        BY <3>4 DEF IInv, TypeOK, Result, AnswersJournaled
      <4>2. QED
        BY <3>1, <4>1, NoneIsNoPayload
    <3>5. QED
      BY <3>3, <3>4
  <2>3. ASSUME Len(operations') = Len(operations)
        PROVE  Final
    BY <2>1, <2>3
  <2>4. ASSUME NEW fate \in Endings, operations' = Ended(fate)
        PROVE  Len(operations') = Len(operations)
    BY <2>1, <2>4 DEF Ended
  <2>5. CASE \E h \in Handlers, e \in Envelopes : Refuse(h, e) \/ Accept(h, e)
    BY <2>3, <2>5 DEF Refuse, Accept
  <2>6. CASE \E h \in Handlers : Succeed(h) \/ Fail(h)
    BY <2>3, <2>4, <2>6 DEF Succeed, Fail, Finish, Endings
  <2>7. CASE \E h \in Handlers :
               \/ Repeat(h) \/ RejectValue(h) \/ Store(h) \/ Reply(h)
               \/ CancelWaiting(h)
    BY <2>3, <2>7 DEF Repeat, RejectValue, Store, Reply, CancelWaiting
  <2>8. CASE Restart \/ \E h \in Handlers : CancelHolder(h)
    BY <2>3, <2>4, <2>8 DEF Restart, CancelHolder, CutShort, Endings
  <2>9. CASE \E h \in Handlers, l \in Lights : Pair(h, l)
    BY <2>3, <2>9 DEF Pair
  <2>10. QED
    BY <2>2, <2>5, <2>6, <2>7, <2>8, <2>9 DEF Next, Work
<1>2. QED
  BY <1>1, InductiveInvariant, PTL DEF Spec, AnsweredIsFinal

-----------------------------------------------------------------------------
(* LightCommands implements IdempotentCommands.                            *)

\* A result sent is an answer of the service.
LEMMA AnswerIsSaid ==
    ASSUME NEW e, NEW p, Answer(e, p)
    PROVE  Service!Say(p)
<1>1. results' = results \cup {[to |-> e.eid, life |-> life, payload |-> p]}
  BY DEF Answer
<1> DEFINE Untagged(r) == [life |-> r.life, payload |-> r.payload]
           new == [to |-> e.eid, life |-> life, payload |-> p]
<1>2. Untagged(new) = [life |-> life, payload |-> p]
  OBVIOUS
<1>3. Said = {Untagged(r) : r \in results}
  BY DEF Said
<1>4. Said' = {Untagged(r) : r \in results'}
  BY DEF Said
<1>5. Said' = Said \cup {Untagged(new)}
  <2> HIDE DEF Untagged, new
  <2>1. results' = results \cup {new}
    BY <1>1 DEF new
  <2>2. QED
    BY <1>3, <1>4, <2>1
<1>6. Said' = Said \cup {[life |-> life, payload |-> p]}
  BY <1>2, <1>5
<1>7. QED
  BY <1>6 DEF Service!Say

\* A refusal decides nothing.
LEMMA RefusalIsRefusal ==
    ASSUME NEW e, NEW p \in Payloads, Answer(e, p), p.error \notin Decisive,
           UNCHANGED <<journal, life>>
    PROVE  Service!Refuse
<1>1. Service!Say(p)
  BY AnswerIsSaid
<1>2. [life |-> life, payload |-> p] \in Said'
  BY <1>1 DEF Service!Say
<1>3. p \in Refusals
  BY DEF Refusals
<1>4. \E a \in Said' : a.payload \in Refusals /\ Service!Say(a.payload)
  <2>1. [life |-> life, payload |-> p].payload = p
    OBVIOUS
  <2>2. QED
    BY <1>1, <1>2, <1>3, <2>1
<1>5. QED
  BY <1>4 DEF Service!Refuse

\* Deciding a free key is the service's decision, with its answer or before it.
LEMMA DecisionIsDecision ==
    ASSUME TypeOK, NEW e, NEW p \in Payloads, p.key \in Keys,
           journal[p.key] = None, p.error \in Decisive,
           journal' = Put(p.key, p), Answer(e, p) \/ results' = results,
           life' = life
    PROVE  \E k \in Keys : Service!Decide(k)
<1>1. /\ journal' = [journal EXCEPT ![p.key] = p]
      /\ journal'[p.key] = p
  BY DEF TypeOK, Put
<1>2. Service!Say(p) \/ Said' = Said
  BY AnswerIsSaid DEF Said
<1>3. p \in Decisions
  BY DEF Decisions
<1>4. Service!Decide(p.key)
  BY <1>1, <1>2, <1>3 DEF Service!Decide
<1>5. QED
  BY <1>4

\* What handle does with a decision is the service's, or not yet seen.
LEMMA DecideImplements ==
    ASSUME IInv, NEW h \in Handlers, NEW p \in Payloads, Decide(h, p),
           cmd[h] \in Envelopes, ~MalformedMetadata(cmd[h]),
           p.key = cmd[h].key, p.error \in Decisive, journal[p.key] = None,
           life' = life
    PROVE  [Service!Next]_(Service!vars)
<1>1. CASE Durable
  BY <1>1 DEF Decide, Service!vars, Said
<1>2. CASE ~Durable
  <2>1. p.key \in Keys
    BY PayloadNames
  <2>2. journal' = Put(p.key, p) /\ Answer(cmd[h], p)
    BY <1>2 DEF Decide
  <2>3. \E k \in Keys : Service!Decide(k)
    BY <2>1, <2>2, DecisionIsDecision DEF IInv
  <2>4. QED
    BY <2>3 DEF Service!Next
<1>3. QED
  BY <1>1, <1>2

\* One disjunct of the service's Next per handler step.
LEMMA WorkImplements ==
    ASSUME IInv, NEW h \in Handlers, Work(h)
    PROVE  [Service!Next]_(Service!vars)
<1>1. CASE Repeat(h)
  <2>1. /\ HasLock(h)
        /\ journal[cmd[h].key] # None
        /\ UNCHANGED <<journal, life>>
        /\ Answer(cmd[h], IF journal[cmd[h].key].id = cmd[h].id
                            THEN journal[cmd[h].key]
                            ELSE Rejection(cmd[h], "key_conflict"))
    BY <1>1 DEF Repeat
  <2>2. cmd[h] \in Envelopes /\ cmd[h].key \in Keys
    BY <2>1, TurnFacts
  <2>3. CASE journal[cmd[h].key].id = cmd[h].id
    <3>1. Service!Say(journal[cmd[h].key])
      BY <2>1, <2>3, AnswerIsSaid
    <3>2. Service!Repeat(cmd[h].key)
      BY <2>1, <3>1 DEF Service!Repeat
    <3>3. QED
      BY <2>2, <3>2 DEF Service!Next
  <2>4. CASE journal[cmd[h].key].id # cmd[h].id
    <3>1. PICK p \in Payloads : p = Rejection(cmd[h], "key_conflict")
      BY <2>2, PayloadType DEF IInv, Rejection, Errors
    <3>2. p.error \notin Decisive
      BY <3>1 DEF Rejection, Payload, Decisive
    <3>3. Service!Refuse
      BY <2>1, <2>4, <3>1, <3>2, RefusalIsRefusal
    <3>4. QED
      BY <3>3 DEF Service!Next
  <2>5. QED
    BY <2>3, <2>4
<1>2. CASE RejectValue(h)
  <2>1. /\ HasLock(h)
        /\ journal[cmd[h].key] = None
        /\ Decide(h, Rejection(cmd[h], "malformed_value"))
        /\ life' = life
    BY <1>2 DEF RejectValue
  <2>2. PICK e \in Envelopes : e = cmd[h] /\ ~MalformedMetadata(e)
    BY <2>1, TurnFacts
  <2>3. PICK p \in Payloads : p = Rejection(e, "malformed_value")
    BY PayloadType DEF IInv, Rejection, Errors
  <2>4. p.key = e.key /\ p.error \in Decisive
    BY <2>2, <2>3, PayloadNames DEF Rejection, Decisive
  <2>5. QED
    BY <2>1, <2>2, <2>3, <2>4, DecideImplements
<1>3. CASE Start(h)
  BY <1>3 DEF Start, Service!vars, Said
<1>4. CASE Succeed(h)
  <2>1. pc[h] = "executing"
    BY <1>4 DEF Succeed, Finish
  <2>2. PICK e \in Envelopes :
          e = cmd[h] /\ ~MalformedMetadata(e) /\ journal[e.key] = None
    BY <2>1, ExecutingFacts
  <2>3. Current \in Nat
    BY <2>1, ExecutingFacts DEF IInv, TypeOK, Current
  <2>4. PICK p \in Payloads : p = Applied(e, Current)
    BY <2>3, PayloadType DEF IInv, Applied, Errors
  <2>5. p.key = e.key /\ p.error \in Decisive
    BY <2>2, <2>4, PayloadNames DEF Applied, Decisive
  <2>6. Decide(h, p) /\ life' = life
    BY <1>4, <2>2, <2>4 DEF Succeed, Finish
  <2>7. QED
    BY <2>2, <2>5, <2>6, DecideImplements
<1>5. CASE Fail(h)
  <2>1. pc[h] = "executing"
    BY <1>5 DEF Fail, Finish
  <2>2. PICK e \in Envelopes :
          e = cmd[h] /\ ~MalformedMetadata(e) /\ journal[e.key] = None
    BY <2>1, ExecutingFacts
  <2>3. PICK p \in Payloads : p = Failed(e)
    BY PayloadType DEF IInv, Failed, Errors
  <2>4. p.key = e.key /\ p.error \in Decisive
    BY <2>2, <2>3, PayloadNames DEF Failed, Decisive
  <2>5. Decide(h, p) /\ life' = life
    BY <1>5, <2>2, <2>3 DEF Fail, Finish
  <2>6. QED
    BY <2>2, <2>4, <2>5, DecideImplements
<1>6. CASE Store(h)
  <2>1. /\ pc[h] = "storing"
        /\ journal' = Put(cmd[h].key, outcome)
        /\ results' = results
        /\ life' = life
    BY <1>6 DEF Store
  <2>2. PICK p \in Payloads : p = outcome
    BY <2>1, StoringFacts
  <2>3. /\ p.key = cmd[h].key
        /\ p.key \in Keys
        /\ p.error \in Decisive
        /\ journal[p.key] = None
    BY <2>1, <2>2, StoringFacts
  <2>4. journal' = Put(p.key, p)
    BY <2>1, <2>2, <2>3
  <2>5. \E k \in Keys : Service!Decide(k)
    BY <2>1, <2>3, <2>4, DecisionIsDecision DEF IInv
  <2>6. QED
    BY <2>5 DEF Service!Next
\* The answer repeats the decision just stored.
<1>7. CASE Reply(h)
  <2>1. /\ pc[h] = "stored"
        /\ Answer(cmd[h], outcome)
        /\ UNCHANGED <<journal, life>>
    BY <1>7 DEF Reply
  <2>2. /\ outcome \in Payloads
        /\ outcome.key \in Keys
        /\ journal[outcome.key] = outcome
    BY <2>1, StoringFacts
  <2>3. Service!Say(outcome)
    BY <2>1, AnswerIsSaid
  <2>4. Service!Repeat(outcome.key)
    BY <2>1, <2>2, <2>3, NoneIsNoPayload DEF Service!Repeat
  <2>5. QED
    BY <2>2, <2>4 DEF Service!Next
<1>8. QED
  BY <1>1, <1>2, <1>3, <1>4, <1>5, <1>6, <1>7 DEF Work

\* The boundary keeps the service's promise: every step of handle decides,
\* repeats or refuses, a lost journal forgets, and nothing else shows.
THEOREM ImplementsPromise == Spec => KeepsPromise
<1>1. Init => Service!Init
  BY DEF Init, Service!Init, Said
<1>2. IInv /\ [Next]_vars => [Service!Next]_(Service!vars)
  <2> SUFFICES ASSUME IInv, [Next]_vars PROVE [Service!Next]_(Service!vars)
    OBVIOUS
  <2>1. ASSUME NEW h \in Handlers, NEW e \in Envelopes, Refuse(h, e)
        PROVE  [Service!Next]_(Service!vars)
    <3>1. PICK error \in {"malformed_metadata", "unknown_light"} :
             Answer(e, Rejection(e, error))
      BY <2>1 DEF Refuse
    <3>2. PICK p \in Payloads : p = Rejection(e, error)
      BY PayloadType DEF IInv, Rejection, Errors
    <3>3. p.error \notin Decisive
      BY <3>2 DEF Rejection, Payload, Decisive
    <3>4. Service!Refuse
      BY <2>1, <3>1, <3>2, <3>3, RefusalIsRefusal DEF Refuse
    <3>5. QED
      BY <3>4 DEF Service!Next
  <2>2. ASSUME NEW h \in Handlers, NEW e \in Envelopes, Accept(h, e)
        PROVE  UNCHANGED Service!vars
    BY <2>2 DEF Accept, Service!vars, Said
  <2>3. CASE \E h \in Handlers : Work(h)
    BY <2>3, WorkImplements
  <2>4. CASE \E h \in Handlers : CancelWaiting(h) \/ CancelHolder(h)
    BY <2>4 DEF CancelWaiting, CancelHolder, Service!vars, Said
  <2>5. CASE \E h \in Handlers, l \in Lights : Pair(h, l)
    BY <2>5 DEF Pair, Service!vars, Said
  <2>6. CASE Restart
    <3>1. CASE Durable
      BY <2>6, <3>1 DEF Restart, Service!vars, Said
    <3>2. CASE ~Durable
      <4>1. Service!Forget
        BY <2>6, <3>2 DEF Restart, Service!Forget, Said
      <4>2. QED
        BY <4>1 DEF Service!Next
    <3>3. QED
      BY <3>1, <3>2
  <2>7. CASE UNCHANGED vars
    BY <2>7 DEF vars, Service!vars, Said
  <2>8. QED
    BY <2>1, <2>2, <2>3, <2>4, <2>5, <2>6, <2>7 DEF Next
<1>3. QED
  BY <1>1, <1>2, InductiveInvariant, PTL DEF Spec, KeepsPromise, Service!Spec
=============================================================================
