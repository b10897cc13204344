------------------------------ MODULE DpMapping ------------------------------
(***************************************************************************)
(* What the driver knows of a lamp's dimmers (tuya.py: TuyaDpMapping,      *)
(* state_from_dps, _set_values, poll_state, _handle_status; models.py:     *)
(* LightState).  The server counts 0..255, the lamp counts in the range    *)
(* of its data point (DP); a command is written, read back in an exchange  *)
(* of its own and answered with what was read.  Between the two the lamp   *)
(* may be moved, push its state or answer the publisher's poll.  Power and *)
(* colour are not modelled.                                                *)
(***************************************************************************)
EXTENDS Integers

CONSTANTS
    Channels,  \* "brightness", and "white" if the lamp has it
    Ranges,    \* the ranges a DP may be configured with
    Levels,    \* the levels a command may ask for
    Moves,     \* the values the lamp may take by itself, out of range or not
    Obedient,  \* the lamp does what it acknowledges
    None

Level == 0..255

MaxDp == 65535

ASSUME ChannelsAssumption ==
    "brightness" \in Channels /\ Channels \subseteq {"brightness", "white"}

\* TuyaDpMapping refuses any other range.
ValidRanges == {r \in [lo : 0..MaxDp, hi : 0..MaxDp] : r.lo < r.hi}

ASSUME RangesAssumption ==
    Ranges \subseteq ValidRanges

ASSUME ValuesAssumption ==
    /\ Levels \subseteq Level
    /\ Moves \subseteq Int
    /\ Obedient \in BOOLEAN

ASSUME NoneIsNoNumber == None \notin Int

VARIABLES
    range,     \* the configured range of each channel
    dps,       \* what the lamp does
    raw,       \* what the driver last read, or None (_raw_dps)
    reported,  \* the levels of the driver's last state, or None (_state)
    writing,   \* the levels that were written and are to be read back
    moved,     \* the channels moved since that write
    asked      \* if reported answers a command: the levels it wrote, of the
               \* channels that were not moved before they were read back

vars == <<range, dps, raw, reported, writing, moved, asked>>

-----------------------------------------------------------------------------
(* The scales.                                                             *)

Span(r) == r.hi - r.lo

\* Defect: the level is scaled without rounding.
Truncated(r, level) == r.lo + (level * Span(r)) \div 255

\* brightness_to_dp, white_to_dp.
ToDp(r, level) == r.lo + (level * Span(r) + 127) \div 255

\* Python's round: to the nearest, a half to the even one.
Rounded(n, d) ==
    LET q == n \div d
        twice == 2 * (n - q * d)
    IN  IF twice < d \/ (twice = d /\ q % 2 = 0) THEN q ELSE q + 1

\* brightness_from_dp, white_from_dp, for a value in range.
FromDp(r, dp) == Rounded((dp - r.lo) * 255, Span(r))

\* Defect: any number is taken for a value of the DP.
AnyNumber(r, dp) == dp \in Int

InRange(r, dp) == r.lo <= dp /\ dp <= r.hi

\* What state_from_dps needs: brightness, and no value out of its range.
Readable(known) ==
    /\ known["brightness"] # None
    /\ \A c \in Channels : known[c] # None => InRange(range[c], known[c])

Shown(known) ==
    [c \in Channels |->
        IF known[c] = None THEN None ELSE FromDp(range[c], known[c])]

Nothing == [c \in Channels |-> None]

\* One command is carried out at a time.
Idle == writing = Nothing

-----------------------------------------------------------------------------
Init ==
    /\ range \in [Channels -> Ranges]
    /\ dps \in [Channels -> Moves]
    /\ raw = Nothing
    /\ reported = Nothing
    /\ writing = Nothing
    /\ moved = {}
    /\ asked = Nothing

\* The driver reads known; what it cannot map changes no state.
Read(known, question) ==
    /\ raw' = known
    /\ IF Readable(known)
         THEN reported' = Shown(known) /\ asked' = question
         ELSE UNCHANGED <<reported, asked>>

\* An answer to a query need not have every DP: white is not even asked for
\* before protocol 3.4.
Answer(lamp, answered) ==
    [c \in Channels |-> IF c \in answered THEN lamp[c] ELSE None]

Poll(answered) ==
    /\ Read(Answer(dps, answered), Nothing)
    /\ UNCHANGED <<range, dps, writing, moved>>

\* A status push has the DPs that changed, or some of them.
Push(changed) ==
    /\ Read([c \in Channels |-> IF c \in changed THEN dps[c] ELSE raw[c]],
            Nothing)
    /\ UNCHANGED <<range, dps, writing, moved>>

\* What may move a lamp: its remote control or its own program, or a write of
\* an earlier command, that failed and is carried out late.
Elsewhere(c) == Moves \cup {ToDp(range[c], level) : level \in Levels}

Moved(c, dp) ==
    /\ dps' = [dps EXCEPT ![c] = dp]
    /\ moved' = IF Idle THEN moved ELSE moved \cup {c}
    /\ UNCHANGED <<range, raw, reported, writing, asked>>

Written(levels, obeyed) ==
    [c \in Channels |->
        IF c \in obeyed THEN ToDp(range[c], levels[c]) ELSE dps[c]]

\* The exchange that writes: its acknowledgement says nothing.  (A command
\* that writes no level is a Poll here.)
Write(levels, obeyed) ==
    /\ Idle
    /\ Obedient => obeyed = DOMAIN levels
    /\ dps' = Written(levels, obeyed)
    /\ writing' = [c \in Channels |->
                     IF c \in DOMAIN levels THEN levels[c] ELSE None]
    /\ UNCHANGED <<range, raw, reported, moved, asked>>

\* The write may have arrived; its acknowledgement did not.
WriteFails(levels, obeyed) ==
    /\ Idle
    /\ dps' = Written(levels, obeyed)
    /\ UNCHANGED <<range, raw, reported, writing, moved, asked>>

\* Nobody looks whether the lamp moved.
Untouched == [c \in Channels |-> IF c \in moved THEN None ELSE writing[c]]

\* Defect: the answer is what was last read, without a poll.
ReadBackKnown(answered) ==
    /\ ~Idle
    /\ Read(raw, Untouched)
    /\ writing' = Nothing
    /\ moved' = {}
    /\ UNCHANGED <<range, dps>>

\* The poll after the write is the answer.
ReadBack(answered) ==
    /\ ~Idle
    /\ Read(Answer(dps, answered), Untouched)
    /\ writing' = Nothing
    /\ moved' = {}
    /\ UNCHANGED <<range, dps>>

\* The poll has no answer, or the command is cancelled before it.
ReadBackFails ==
    /\ ~Idle
    /\ writing' = Nothing
    /\ moved' = {}
    /\ UNCHANGED <<range, dps, raw, reported, asked>>

Next ==
    \/ \E answered \in SUBSET Channels : Poll(answered) \/ ReadBack(answered)
    \/ \E changed \in SUBSET Channels : Push(changed)
    \/ \E c \in Channels : \E dp \in Elsewhere(c) : Moved(c, dp)
    \/ \E written \in SUBSET Channels \ {{}} :
         \E levels \in [written -> Levels], obeyed \in SUBSET written :
             Write(levels, obeyed) \/ WriteFails(levels, obeyed)
    \/ ReadBackFails

Spec == Init /\ [][Next]_vars

-----------------------------------------------------------------------------
(* Properties.                                                             *)

TypeOK ==
    /\ range \in [Channels -> Ranges]
    /\ dps \in [Channels -> Int]
    /\ raw \in [Channels -> Int \cup {None}]
    /\ reported \in [Channels -> Level \cup {None}]
    /\ writing \in [Channels -> Levels \cup {None}]
    /\ moved \subseteq Channels
    /\ asked \in [Channels -> Levels \cup {None}]

\* As near as two roundings allow: the same level if the range has 256 values
\* or more, and otherwise within half a step of the lamp.
Near(r, level, shown) ==
    LET off == 2 * Span(r) * (level - shown)
    IN  -(Span(r) + 254) <= off /\ off <= Span(r) + 254

\* README.md:180: a result is sent "only after the real device action is
\* confirmed by a read-after-write poll": whatever was pushed and polled since
\* the write, what is read back is what was written, in so far as it was read
\* back and the lamp was not moved in between.  It takes a lamp that does what
\* it acknowledges: _set_values does not compare.
AppliedIsReached ==
    \A c \in Channels :
        asked[c] # None /\ reported[c] # None =>
            Near(range[c], asked[c], reported[c])

\* Can a lamp with this range report this level?
Reportable(r, level) == \E dp \in r.lo .. r.hi : FromDp(r, dp) = level

\* A server that sends a reported level back (to restore a scene, or because
\* it mirrors the state) gets the same level again: the two roundings do not
\* make a lamp drift, whatever its range.
ReportedLevelsAreStable ==
    \A c \in Channels :
        asked[c] # None /\ reported[c] # None =>
            (Reportable(range[c], asked[c]) => reported[c] = asked[c])

-----------------------------------------------------------------------------
(* The inductive invariants.                                               *)

\* While a write is to be read back, an obedient lamp is where it was sent,
\* unless it was moved.
LampObeyed ==
    \A c \in Channels \ moved :
        writing[c] # None => dps[c] = ToDp(range[c], writing[c])

\* What was asked for went through both scales on its way back.
ReadThroughBothScales ==
    \A c \in Channels :
        asked[c] # None /\ reported[c] # None =>
            reported[c] = FromDp(range[c], ToDp(range[c], asked[c]))

ObedientInv == LampObeyed /\ ReadThroughBothScales
=============================================================================
