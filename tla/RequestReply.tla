----------------------------- MODULE RequestReply -----------------------------
(***************************************************************************)
(* What an exchange with the device promises its caller, whatever happens  *)
(* to sockets, replies and retries: a request is asked once and answered   *)
(* or given up once; an answer is the device's answer to that request, so  *)
(* the device carried it out before; the device never carries it out more  *)
(* than Limit times, but it may, before or after the caller gave up or was *)
(* answered.  Requests are sent one at a time.                             *)
(***************************************************************************)
EXTENDS Naturals

CONSTANTS
    Requests,  \* the requests asked of the device
    Limit      \* how often one request may reach the device

VARIABLES
    outcome,   \* per request: "none", "asked", "answered" or "failed"
    carried    \* per request: how often the device carried it out

vars == <<outcome, carried>>

Init ==
    /\ outcome = [x \in Requests |-> "none"]
    /\ carried = [x \in Requests |-> 0]

Ask(x) ==
    /\ outcome[x] = "none"
    /\ outcome' = [outcome EXCEPT ![x] = "asked"]
    /\ UNCHANGED carried

CarryOut(x) ==
    /\ outcome[x] # "none"
    /\ carried[x] < Limit
    /\ carried' = [carried EXCEPT ![x] = @ + 1]
    /\ UNCHANGED outcome

Answer(x) ==
    /\ outcome[x] = "asked"
    /\ carried[x] > 0
    /\ outcome' = [outcome EXCEPT ![x] = "answered"]
    /\ UNCHANGED carried

GiveUp(x) ==
    /\ outcome[x] = "asked"
    /\ outcome' = [outcome EXCEPT ![x] = "failed"]
    /\ UNCHANGED carried

Next == \E x \in Requests : Ask(x) \/ CarryOut(x) \/ Answer(x) \/ GiveUp(x)

Spec == Init /\ [][Next]_vars
=============================================================================
