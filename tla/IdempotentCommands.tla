------------------------- MODULE IdempotentCommands -------------------------
(***************************************************************************)
(* What the Linker promises a server that retries Light commands: the      *)
(* first command to use an idempotency key decides that key, once, and     *)
(* every later answer for the key repeats the decision word for word.      *)
(* Anything else the Linker says is a refusal, which decides nothing.      *)
(*                                                                         *)
(* The promise lasts for one life of the journal: with the process-local   *)
(* journal a restart starts a new life in which nothing is decided.        *)
(***************************************************************************)
EXTENDS Naturals

CONSTANTS
    Keys,       \* idempotency keys
    Decisions,  \* payloads that may decide a key; each names its key
    Refusals,   \* payloads that decide nothing
    None        \* no decision yet

VARIABLES
    decision,   \* key |-> the payload that decided it, or None
    answers,    \* everything answered so far: payloads tagged with their life
    life        \* which life of the journal this is

vars == <<decision, answers, life>>

Say(p) == answers' = answers \cup {[life |-> life, payload |-> p]}

Init ==
    /\ decision = [k \in Keys |-> None]
    /\ answers = {}
    /\ life = 0

\* The answer may come later, or never: a server that has none asks again.
Decide(k) ==
    /\ decision[k] = None
    /\ decision'[k] \in Decisions
    /\ decision'[k].key = k
    /\ decision' = [decision EXCEPT ![k] = decision'[k]]
    /\ Say(decision'[k]) \/ UNCHANGED answers
    /\ UNCHANGED life

Repeat(k) ==
    /\ decision[k] # None
    /\ Say(decision[k])
    /\ UNCHANGED <<decision, life>>

\* The refusal is read off the answer it adds.
Refuse ==
    /\ \E a \in answers' : a.payload \in Refusals /\ Say(a.payload)
    /\ UNCHANGED <<decision, life>>

Forget ==
    /\ decision' = [k \in Keys |-> None]
    /\ life' = life + 1
    /\ UNCHANGED answers

Next ==
    \/ \E k \in Keys : Decide(k) \/ Repeat(k)
    \/ Refuse
    \/ Forget

Spec == Init /\ [][Next]_vars
=============================================================================
