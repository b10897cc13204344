--------------------------- MODULE LightCommands ----------------------------
(***************************************************************************)
(* LinkerBoundary.handle for Light commands (boundary.py): validation of   *)
(* the envelope, the command lock, the idempotency journal, one driver     *)
(* operation at a time, and the command.result it answers with.            *)
(*                                                                         *)
(* A handler is one invocation of handle.  The server client runs one at a *)
(* time; the boundary itself allows any number, and the lock is there for  *)
(* them.  Nothing here looks inside the driver: an operation returns a     *)
(* confirmed state, raises, or is cut short with its caller.               *)
(*                                                                         *)
(* The journal is the process-local MemoryCommandJournal, whose get and    *)
(* put do not suspend, or a durable one that a deployment injects          *)
(* (ADR-0001): that put is a real await, and handle can be cancelled, or   *)
(* the process can die, before or after the entry is stored.  A durable    *)
(* get is a wait for the lock that lasts a little longer.                  *)
(***************************************************************************)
EXTENDS Naturals, Sequences, FiniteSets

CONSTANTS
    Handlers,        \* concurrent invocations of handle
    Envelopes,       \* the Light command envelopes the server may send
    EnvelopeIds,
    Lights,
    Ids,             \* command ids
    Keys,            \* idempotency keys
    None,            \* an absent or malformed field, no binding, no entry
    Durable,         \* does the injected journal survive a restart?
    MaxOperations,   \* bound: driver operations, counting those accepted
    MaxLives         \* bound: restarts that lose a process-local journal

ASSUME EnvelopeTypes ==
    Envelopes \subseteq [eid : EnvelopeIds, correlated : BOOLEAN,
                         light : Lights \cup {None}, id : Ids \cup {None},
                         key : Keys \cup {None}, valid : BOOLEAN]

ASSUME NoneIsNothing == None \notin Lights \cup Ids \cup Keys \cup Handlers

ASSUME Parameters ==
    /\ Durable \in BOOLEAN
    /\ MaxOperations \in Nat
    /\ MaxLives \in Nat

VARIABLES
    boundLight,  \* the light this Linker controls, or None before pairing
    journal,     \* key |-> the payload stored for it, or None
    holder,      \* the handler that holds the command lock, or None
    waiting,     \* handlers waiting for the command lock, first come first
    pc,          \* handler |-> where it is in handle
    outcome,     \* the payload a durable put is storing or has stored, or None
    cmd,         \* handler |-> the envelope it handles, or None
    results,     \* every command.result sent, tagged with the journal's life
    operations,  \* every driver operation started, in order
    life         \* how many journals were lost to a restart

vars == <<boundLight, journal, holder, waiting, pc, outcome, cmd, results,
          operations, life>>

-----------------------------------------------------------------------------
(* Payloads.  "error" stands for the code and message of the payload's     *)
(* error object; both malformed_* carry the code invalid_command.          *)
(* "run" is the operation whose confirmed state the payload reports.       *)

Errors == {"none", "driver_error", "malformed_value", "malformed_metadata",
           "unknown_light", "key_conflict"}

\* What a journal entry may say.
Decisive == {"none", "driver_error", "malformed_value"}

PlaceholderKeys == {<<"invalid", x>> : x \in EnvelopeIds}

Payloads ==
    [status : {"applied", "failed", "rejected"}, error : Errors,
     light : Lights \cup {None}, id : Ids \cup EnvelopeIds,
     key : Keys \cup PlaceholderKeys, run : Nat]

ASSUME NoneIsNoPayload == None \notin Payloads

\* A missing light is answered for as the bound one (None: "invalid.light").
NamedLight(e) == IF e.light = None THEN boundLight ELSE e.light

NamedId(e) == IF e.id = None THEN e.eid ELSE e.id

\* Defect: the missing key is answered for as it came.
NamedKeyRaw(e) == e.key

NamedKey(e) == IF e.key = None THEN <<"invalid", e.eid>> ELSE e.key

Payload(status, error, e, run) ==
    [status |-> status, error |-> error, light |-> NamedLight(e),
     id |-> NamedId(e), key |-> NamedKey(e), run |-> run]

Rejection(e, error) == Payload("rejected", error, e, 0)

Applied(e, run) == Payload("applied", "none", e, run)

Failed(e) == Payload("failed", "driver_error", e, 0)

MalformedMetadata(e) == None \in {e.light, e.id, e.key}

-----------------------------------------------------------------------------
Init ==
    /\ boundLight \in Lights \cup {None}
    /\ journal = [k \in Keys |-> None]
    /\ holder = None
    /\ waiting = <<>>
    /\ pc = [h \in Handlers |-> "idle"]
    /\ outcome = None
    /\ cmd = [h \in Handlers |-> None]
    /\ results = {}
    /\ operations = <<>>
    /\ life = 0

Answer(e, payload) ==
    results' = results \cup {[to |-> e.eid, life |-> life, payload |-> payload]}

\* async with releases the lock on every way out of the block.
Leave(h) ==
    /\ pc' = [pc EXCEPT ![h] = "idle"]
    /\ cmd' = [cmd EXCEPT ![h] = None]

\* Refused before the lock: malformed metadata, or a light not bound here.
Refuse(h, e) ==
    /\ pc[h] = "idle"
    /\ e.correlated
    /\ \/ MalformedMetadata(e) /\ Answer(e, Rejection(e, "malformed_metadata"))
       \/ /\ ~MalformedMetadata(e)
          /\ e.light # boundLight
          /\ Answer(e, Rejection(e, "unknown_light"))
    /\ UNCHANGED <<boundLight, journal, holder, waiting, pc, outcome, cmd,
                   operations, life>>

\* Defect: the light is not compared with the bound one.
AcceptsAnyLight(e) == e.correlated /\ ~MalformedMetadata(e)

\* A missing correlation_id raises ValueError, which changes nothing.
Accepts(e) ==
    /\ e.correlated
    /\ ~MalformedMetadata(e)
    /\ e.light = boundLight

\* Bound: a command that may reach the driver needs room for its operation.
WithinBound(e) ==
    \/ journal[e.key] # None
    \/ Len(operations) + Cardinality({h \in Handlers : pc[h] # "idle"})
          < MaxOperations

Accept(h, e) ==
    /\ pc[h] = "idle"
    /\ Accepts(e)
    /\ WithinBound(e)
    /\ waiting' = Append(waiting, h)
    /\ pc' = [pc EXCEPT ![h] = "waiting"]
    /\ cmd' = [cmd EXCEPT ![h] = e]
    /\ UNCHANGED <<boundLight, journal, holder, outcome, results, operations,
                   life>>

\* Defect: the lock is not taken.
HasTurn(h) == pc[h] = "waiting" /\ waiting # <<>> /\ Head(waiting) = h

HasLock(h) ==
    /\ holder = None
    /\ pc[h] = "waiting"
    /\ waiting # <<>>
    /\ Head(waiting) = h

\* The journal already decided this key: repeat it, or refuse another command.
Repeat(h) ==
    LET e == cmd[h]
        cached == journal[e.key]
    IN  /\ HasLock(h)
        /\ cached # None
        /\ Answer(e, IF cached.id = e.id THEN cached
                                         ELSE Rejection(e, "key_conflict"))
        /\ waiting' = Tail(waiting)
        /\ Leave(h)
        /\ UNCHANGED <<boundLight, journal, holder, outcome, operations, life>>

\* Defect: only an applied command is remembered.
PutApplied(key, payload) ==
    IF payload.status = "applied" THEN [journal EXCEPT ![key] = payload]
                                  ELSE journal

\* put is setdefault: an entry that is there stays.
Put(key, payload) ==
    [journal EXCEPT ![key] = IF journal[key] = None THEN payload ELSE @]

\* Defect: the answer is given, and the lock left, before the entry is stored.
AnswerFirst(h, payload) ==
    /\ Answer(cmd[h], payload)
    /\ holder' = None
    /\ Leave(h)
    /\ UNCHANGED <<journal, outcome>>

\* The payload that decides h's key is put into the journal, and then answered.
Decide(h, payload) ==
    \/ /\ ~Durable
       /\ journal' = Put(cmd[h].key, payload)
       /\ Answer(cmd[h], payload)
       /\ holder' = None
       /\ Leave(h)
       /\ UNCHANGED outcome
    \/ /\ Durable
       /\ outcome' = payload
       /\ holder' = h
       /\ pc' = [pc EXCEPT ![h] = "storing"]
       /\ UNCHANGED <<journal, cmd, results>>

\* The value is out of range: rejected, and journaled like any decision.
RejectValue(h) ==
    LET e == cmd[h]
    IN  /\ HasLock(h)
        /\ journal[e.key] = None
        /\ ~e.valid
        /\ Decide(h, Rejection(e, "malformed_value"))
        /\ waiting' = Tail(waiting)
        /\ UNCHANGED <<boundLight, operations, life>>

\* The operation goes to the device bound now, whose light is boundLight.
Start(h) ==
    LET e == cmd[h]
    IN  /\ HasLock(h)
        /\ journal[e.key] = None
        /\ e.valid
        /\ operations' = Append(operations,
             [key |-> e.key, id |-> e.id, light |-> e.light,
              device |-> boundLight, life |-> life, fate |-> "running"])
        /\ holder' = h
        /\ waiting' = Tail(waiting)
        /\ pc' = [pc EXCEPT ![h] = "executing"]
        /\ UNCHANGED <<boundLight, journal, outcome, cmd, results, life>>

\* The command lock keeps one operation running: it is the latest.
Current == Len(operations)

Ended(fate) == [operations EXCEPT ![Current].fate = fate]

Finish(h, fate, payload) ==
    /\ pc[h] = "executing"
    /\ operations' = Ended(fate)
    /\ Decide(h, payload)
    /\ UNCHANGED <<boundLight, waiting, life>>

\* The driver returned the state it polled after the write.
Succeed(h) == Finish(h, "confirmed", Applied(cmd[h], Current))

\* Defect: the exception is swallowed and the command called applied.
FailSilently(h) == Finish(h, "unconfirmed", Applied(cmd[h], Current))

\* The driver raised: the write may or may not have reached the device.
Fail(h) == Finish(h, "unconfirmed", Failed(cmd[h]))

\* The durable journal has the entry.
Store(h) ==
    /\ pc[h] = "storing"
    /\ journal' = Put(cmd[h].key, outcome)
    /\ pc' = [pc EXCEPT ![h] = "stored"]
    /\ UNCHANGED <<boundLight, holder, waiting, outcome, cmd, results,
                   operations, life>>

\* put has returned.
Reply(h) ==
    /\ pc[h] = "stored"
    /\ Answer(cmd[h], outcome)
    /\ outcome' = None
    /\ holder' = None
    /\ Leave(h)
    /\ UNCHANGED <<boundLight, journal, waiting, operations, life>>

-----------------------------------------------------------------------------
(* Cancellation and restarts.  CancelledError is not an Exception: neither *)
(* a result nor a journal entry records the operation it interrupts.       *)

WithoutIndex(s, i) == SubSeq(s, 1, i - 1) \o SubSeq(s, i + 1, Len(s))

CancelWaiting(h) ==
    /\ pc[h] = "waiting"
    /\ \E i \in 1..Len(waiting) :
          waiting[i] = h /\ waiting' = WithoutIndex(waiting, i)
    /\ Leave(h)
    /\ UNCHANGED <<boundLight, journal, holder, outcome, results, operations,
                   life>>

\* What becomes of the operation when its handler is cut short: its outcome is
\* unknown, or known and not recorded.
CutShort(h) ==
    IF pc[h] = "executing" THEN Ended("interrupted")
    ELSE IF pc[h] = "storing" /\ outcome.status # "rejected"
      THEN Ended("unrecorded")
      ELSE operations

\* Defect: the lock is not released on this way out.
CancelHoldingLock(h) ==
    /\ holder = h
    /\ operations' = CutShort(h)
    /\ outcome' = None
    /\ Leave(h)
    /\ UNCHANGED <<boundLight, journal, holder, waiting, results, life>>

\* The handler is cancelled in its operation or in a durable put, before or
\* after the entry is stored, or that put raises.
CancelHolder(h) ==
    /\ holder = h
    /\ operations' = CutShort(h)
    /\ outcome' = None
    /\ holder' = None
    /\ Leave(h)
    /\ UNCHANGED <<boundLight, journal, waiting, results, life>>

\* handle_pairing adopts the verified device between two awaits.
Pair(h, l) ==
    /\ pc[h] = "idle"
    /\ boundLight' = l
    /\ UNCHANGED <<journal, holder, waiting, pc, outcome, cmd, results,
                   operations, life>>

\* The pairing file brings the binding back; only a durable journal survives.
Restart ==
    /\ Durable \/ life < MaxLives
    /\ life' = IF Durable THEN life ELSE life + 1
    /\ journal' = IF Durable THEN journal ELSE [k \in Keys |-> None]
    /\ operations' = IF holder = None THEN operations ELSE CutShort(holder)
    /\ outcome' = None
    /\ holder' = None
    /\ waiting' = <<>>
    /\ pc' = [h \in Handlers |-> "idle"]
    /\ cmd' = [h \in Handlers |-> None]
    /\ UNCHANGED <<boundLight, results>>

-----------------------------------------------------------------------------
Work(h) ==
    \/ Repeat(h) \/ RejectValue(h) \/ Start(h) \/ Succeed(h) \/ Fail(h)
    \/ Store(h) \/ Reply(h)

Next ==
    \/ \E h \in Handlers, e \in Envelopes : Refuse(h, e) \/ Accept(h, e)
    \/ \E h \in Handlers : Work(h) \/ CancelWaiting(h) \/ CancelHolder(h)
    \/ \E h \in Handlers, l \in Lights : Pair(h, l)
    \/ Restart

Spec == Init /\ [][Next]_vars

\* The event loop runs every task that can run, and the driver bounds each
\* of its waits with a timeout, so an operation always returns or raises.  A
\* durable journal is taken to do the same.
FairSpec == Spec /\ \A h \in Handlers : WF_vars(Work(h))

-----------------------------------------------------------------------------
(* Properties.                                                             *)

Operation == [key : Keys, id : Ids, light : Lights, device : Lights,
              life : Nat,
              fate : {"running", "confirmed", "unconfirmed", "interrupted",
                      "unrecorded"}]

Result == [to : EnvelopeIds, life : Nat, payload : Payloads]

\* Types of the boundary's state and of what it has sent.
TypeOK ==
    /\ boundLight \in Lights \cup {None}
    /\ journal \in [Keys -> Payloads \cup {None}]
    /\ holder \in Handlers \cup {None}
    /\ waiting \in Seq(Handlers)
    /\ pc \in [Handlers -> {"idle", "waiting", "executing", "storing", "stored"}]
    /\ outcome \in Payloads \cup {None}
    /\ cmd \in [Handlers -> Envelopes \cup {None}]
    /\ results \subseteq Result
    /\ operations \in Seq(Operation)
    /\ life \in Nat

IsDecision(r) == r.payload.error \in Decisive

\* Two answers that decide the same command under the same key say the same
\* thing, however often and from however many tasks it was redelivered
\* (handle returns the cached payload).
AnswersAgree ==
    \A r, s \in results :
        (/\ IsDecision(r) /\ IsDecision(s)
         /\ r.life = s.life
         /\ r.payload.key = s.payload.key)
        => r.payload = s.payload

\* A key is sent to the driver a second time only when the first operation
\* was interrupted before its outcome was known, or, with a durable journal,
\* before it was stored: a retry of an applied or failed command never touches
\* the device.
AtMostOnce ==
    \A i, j \in 1..Len(operations) :
        (/\ i < j
         /\ operations[i].key = operations[j].key
         /\ operations[i].life = operations[j].life)
        => operations[i].fate \in {"interrupted", "unrecorded"}

\* Once the server has a decision on a key no operation of that key starts any
\* more in that life of the journal: with a durable one, however often the
\* process dies and the command is redelivered (put comes before the answer).
AnsweredIsFinal ==
    [][\A r \in results :
          IsDecision(r) /\ r.life = life /\ operations' # operations =>
              \A i \in Len(operations) + 1 .. Len(operations') :
                  operations'[i].key # r.payload.key]_vars

\* "applied" reports the state of one confirmed operation of that very
\* command: same key, id and light (_execute, and the cached repeat).
AppliedWasConfirmed ==
    \A r \in results : r.payload.status = "applied" =>
        \E i \in 1..Len(operations) :
            /\ i = r.payload.run
            /\ operations[i].fate = "confirmed"
            /\ operations[i].key = r.payload.key
            /\ operations[i].id = r.payload.id
            /\ operations[i].light = r.payload.light

\* A command reaches the device of the light it names although the light is
\* compared before the wait for the lock and device_id is read after it.
ReachesNamedLight ==
    \A i \in 1..Len(operations) : operations[i].device = operations[i].light

\* At most one driver operation runs at any time, and it is the one whose
\* handler holds the lock.
OneAtATime ==
    \A i \in 1..Len(operations) :
        operations[i].fate = "running" =>
            i = Len(operations) /\ holder # None /\ pc[holder] = "executing"

\* Every accepted command leaves the boundary: nobody waits forever behind
\* the command lock.
AcceptedIsSettled ==
    \A h \in Handlers : pc[h] = "waiting" ~> pc[h] = "idle"

-----------------------------------------------------------------------------
(* The inductive invariant.                                                *)

\* The operation that confirmed a payload's state.
Confirms(o, p) ==
    /\ o.fate = "confirmed"
    /\ o.key = p.key
    /\ o.id = p.id
    /\ o.light = p.light

Backed(p) ==
    p.status = "applied" =>
        /\ p.error = "none"
        /\ p.run \in 1..Len(operations)
        /\ Confirms(operations[p.run], p)

\* What is being handled passed the checks that precede the lock, and a
\* Linker that is bound stays bound.
HandledAreAccepted ==
    \A h \in Handlers :
        pc[h] # "idle" =>
            /\ cmd[h] \in Envelopes
            /\ ~MalformedMetadata(cmd[h])
            /\ boundLight # None

\* With one handler, as under the server client, the binding cannot move
\* between the comparison of the light and the operation.
HandledNameBoundLight ==
    \A h \in Handlers : pc[h] # "idle" => cmd[h].light = boundLight

\* Only a durable put lets others see a decision that is not yet an entry.
Storing == holder # None /\ pc[holder] = "storing"

\* The latest operation is the one whose outcome is being stored.
StoringOutcome == Storing /\ outcome.status # "rejected"

\* The operation a handler holds the lock for.
RunsFor(o, e) ==
    /\ o.key = e.key
    /\ o.id = e.id
    /\ o.light = e.light
    /\ o.life = life

\* The lock, the handlers and the latest operation tell the same story.
LockAndOperation ==
    /\ \A h \in Handlers :
          pc[h] \in {"executing", "storing", "stored"} <=> holder = h
    /\ \A i \in 1..Len(operations) :
          /\ operations[i].life <= life
          /\ operations[i].fate = "running" =>
                i = Len(operations) /\ holder # None /\ pc[holder] = "executing"
    /\ holder # None /\ pc[holder] = "executing" =>
          /\ operations # <<>>
          /\ operations[Len(operations)].fate = "running"
          /\ RunsFor(operations[Len(operations)], cmd[holder])
          /\ journal[cmd[holder].key] = None

\* What is being stored decides the key of the handler that holds the lock,
\* and is backed by an operation: the latest one, unless it is a rejection.
OutcomeDecides ==
    /\ holder # None /\ pc[holder] \in {"storing", "stored"} =>
          /\ Durable
          /\ outcome # None
          /\ outcome.error \in Decisive
          /\ outcome.key = cmd[holder].key
          /\ Backed(outcome)
          /\ journal[cmd[holder].key] = IF Storing THEN None ELSE outcome
    /\ StoringOutcome =>
          /\ operations # <<>>
          /\ operations[Len(operations)].fate \in {"confirmed", "unconfirmed"}
          /\ RunsFor(operations[Len(operations)], cmd[holder])
    /\ Durable => life = 0

\* Entries decide their own key and are backed by an operation.
JournalDecides ==
    \A k \in Keys : journal[k] # None =>
        journal[k].error \in Decisive /\ journal[k].key = k /\ Backed(journal[k])

\* An outcome the driver returned in this life is in the journal, or on its way
\* there.
OutcomesJournaled ==
    \A i \in 1..Len(operations) :
        (/\ operations[i].life = life
         /\ operations[i].fate \in {"confirmed", "unconfirmed"})
        => \/ journal[operations[i].key] # None
           \/ StoringOutcome /\ i = Len(operations)

\* A decision sent in this life is the journal's entry for its key.
AnswersJournaled ==
    \A r \in results :
        /\ r.life <= life
        /\ Backed(r.payload)
        /\ IsDecision(r) => r.payload.key \in Keys
        /\ IsDecision(r) /\ r.life = life => journal[r.payload.key] = r.payload

\* What every step preserves: the lock's story, what the journal holds, and
\* that nothing the boundary sent or did escapes the journal (boundary.py,
\* handle and _execute).
IInv ==
    /\ TypeOK
    /\ HandledAreAccepted
    /\ LockAndOperation
    /\ OutcomeDecides
    /\ JournalDecides
    /\ OutcomesJournaled
    /\ AnswersJournaled
    /\ AnswersAgree
    /\ AtMostOnce

-----------------------------------------------------------------------------
Decisions == {p \in Payloads : p.error \in Decisive}

Refusals == {p \in Payloads : p.error \notin Decisive}

\* The server does not see which envelope an answer is correlated with.
Said == {[life |-> r.life, payload |-> r.payload] : r \in results}

Service == INSTANCE IdempotentCommands WITH decision <- journal, answers <- Said

\* The boundary keeps the promise of IdempotentCommands.
KeepsPromise == Service!Spec
=============================================================================
