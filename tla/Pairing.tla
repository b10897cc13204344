------------------------------- MODULE Pairing -------------------------------
(***************************************************************************)
(* Which device this Linker drives: the scan, TuyaLocalDriver.pair with    *)
(* its rollback and its file (tuya.py), the adoption by the boundary       *)
(* (handle_pairing), the restart (_run), and what the others do to the     *)
(* device meanwhile: the publisher, Light commands and the reader's        *)
(* pushes.                                                                 *)
(*                                                                         *)
(* A candidate id is a hash of the device id: one value stands for both,   *)
(* and for the light that is registered for it.  The scan accepts device   *)
(* ids that DeviceDescriptor does not, capitals and leading digits among   *)
(* them; Describable are the others.  The receiver handles one message at  *)
(* a time, and pairing excludes the publisher (_driver_lock).              *)
(***************************************************************************)
EXTENDS Naturals

CONSTANTS
    Devices,
    None,
    Describable,  \* devices whose Tuya id DeviceDescriptor accepts
    LateAdoption, \* pair runs in a task of wait_for's (before Python 3.12)
    MayInterrupt  \* disconnect may raise, or be cancelled, in a rollback

ASSUME NoneIsNoDevice == None \notin Devices

ASSUME DescribableAreDevices == Describable \subseteq Devices

ASSUME Choices == LateAdoption \in BOOLEAN /\ MayInterrupt \in BOOLEAN

VARIABLES
    discovered,  \* candidates of the latest scan
    pc,          \* where the receiver is
    candidate,   \* the device being paired, or None
    previous,    \* the device pair goes back to if it fails
    device,      \* the driver's device, or None
    adopted,     \* the boundary's light and device, or None
    file,        \* the device in the pairing file, or None
    conn,        \* the device the driver is connected to, or None
    callbacks,   \* the device the publisher's callback is filed under, or None
    raw,         \* the devices whose DPs are in _raw_dps
    verified,    \* devices that ever answered the poll of a pairing
    reported,    \* the last state published: its light, whose DPs it has
    interrupted  \* was a rollback interrupted since the process started?

vars == <<discovered, pc, candidate, previous, device, adopted, file, conn,
          callbacks, raw, verified, reported, interrupted>>

binding == <<device, adopted, file, verified>>

seen == <<callbacks, raw, reported, interrupted>>

-----------------------------------------------------------------------------
Init ==
    /\ discovered = {}
    /\ pc = "idle"
    /\ candidate = None
    /\ previous = None
    /\ device = None
    /\ adopted = None
    /\ file = None
    /\ conn = None
    /\ callbacks = None
    /\ raw = {}
    /\ verified = {}
    /\ reported = [light |-> None, from |-> {}]
    /\ interrupted = FALSE

-----------------------------------------------------------------------------
(* The scan.                                                               *)

\* The candidates of the scan before are gone at once.
StartScan ==
    /\ pc = "idle"
    /\ pc' = "scanning"
    /\ discovered' = {}
    /\ UNCHANGED <<candidate, previous, conn, binding, seen>>

\* Defect: a datagram without a device id is kept.
ScanKeepsAnonymous(found) ==
    /\ pc = "scanning"
    /\ pc' = "idle"
    /\ discovered' = found \cup {None}
    /\ UNCHANGED <<candidate, previous, conn, binding, seen>>

\* A scan that fails, or is timed out, finds nothing.
ScanDone(found) ==
    /\ pc = "scanning"
    /\ pc' = "idle"
    /\ discovered' = found
    /\ UNCHANGED <<candidate, previous, conn, binding, seen>>

-----------------------------------------------------------------------------
(* pair.  A candidate that is not of the latest scan changes nothing.      *)

\* Defect: the file is written before the device is verified.
SaveFirst(c) ==
    /\ pc = "idle"
    /\ c \in discovered
    /\ pc' = "connecting"
    /\ candidate' = c
    /\ previous' = device
    /\ device' = c
    /\ file' = c
    /\ conn' = None
    /\ UNCHANGED <<discovered, adopted, verified, seen>>

\* Defect: the callbacks move with the device, not with its verification.
MoveCallbacksFirst(c) ==
    /\ pc = "idle"
    /\ c \in discovered
    /\ pc' = "connecting"
    /\ candidate' = c
    /\ previous' = device
    /\ device' = c
    /\ conn' = None
    /\ callbacks' = IF callbacks = None THEN None ELSE c
    /\ UNCHANGED <<discovered, adopted, file, verified, raw, reported,
                   interrupted>>

\* The old connection is closed first: if that raises, or is cancelled, all
\* that happened is ConnectionLost.
StartPairing(c) ==
    /\ pc = "idle"
    /\ c \in discovered
    /\ pc' = "connecting"
    /\ candidate' = c
    /\ previous' = device
    /\ device' = c
    /\ conn' = None
    /\ UNCHANGED <<discovered, adopted, file, verified, seen>>

Reached ==
    /\ pc = "connecting"
    /\ pc' = "verifying"
    /\ conn' = candidate
    /\ UNCHANGED <<discovered, candidate, previous, binding, seen>>

\* What a restart makes of the pairing file.
RestoredBinding == IF file \in Describable THEN file ELSE None

\* pair describes the device it paired when all is done and its try block is
\* left: if that raises, the boundary answers failed and keeps its binding.
Adoption(c) ==
    /\ pc' = "idle"
    /\ adopted' = IF c \in Describable THEN c ELSE adopted
    /\ candidate' = None
    /\ previous' = None

\* The poll answered, over a new connection if need be: the file is replaced
\* and the callbacks move with no await between.  Before Python 3.12 the
\* boundary learns of it in a later step.
Verified ==
    /\ pc = "verifying"
    /\ conn' = candidate
    /\ raw' = {candidate}
    /\ verified' = verified \cup {candidate}
    /\ file' = candidate
    /\ callbacks' = IF callbacks # None /\ callbacks = previous
                      THEN candidate ELSE callbacks
    /\ \/ Adoption(candidate)
       \/ /\ LateAdoption
          /\ pc' = "adopting"
          /\ UNCHANGED <<adopted, candidate, previous>>
    /\ UNCHANGED <<discovered, device, reported, interrupted>>

\* A timeout or a cancellation that comes this late gets the result too.
Adopt ==
    /\ pc = "adopting"
    /\ Adoption(candidate)
    /\ UNCHANGED <<discovered, device, file, verified, conn, seen>>

\* Nothing answers, the answer is unreadable or the file cannot be written,
\* the wait times out or is cancelled; some of these after parsing the DPs.
PairingFails(parsed) ==
    /\ pc = "verifying" \/ (pc = "connecting" /\ ~parsed)
    /\ pc' = "rollback"
    /\ raw' = IF parsed THEN {candidate} ELSE raw
    /\ UNCHANGED <<discovered, candidate, previous, conn, binding, callbacks,
                   reported, interrupted>>

\* Defect: the connection is dropped and the failed device kept.
RollBackConnection ==
    /\ pc = "rollback"
    /\ pc' = "idle"
    /\ conn' = None
    /\ candidate' = None
    /\ previous' = None
    /\ UNCHANGED <<discovered, binding, seen>>

RollBack ==
    /\ pc = "rollback"
    /\ pc' = "idle"
    /\ conn' = None
    /\ device' = previous
    /\ candidate' = None
    /\ previous' = None
    /\ UNCHANGED <<discovered, adopted, file, verified, seen>>

\* The driver keeps the failed candidate.
RollBackInterrupted ==
    /\ MayInterrupt
    /\ pc = "rollback"
    /\ pc' = "idle"
    /\ conn' = None
    /\ candidate' = None
    /\ previous' = None
    /\ interrupted' = TRUE
    /\ UNCHANGED <<discovered, binding, callbacks, raw, reported>>

-----------------------------------------------------------------------------
(* Everyone else.                                                          *)

\* poll_state, subscribe_state and the operations check the boundary's
\* device_id against the driver's.
CheckDevice == adopted # None /\ device = adopted

\* The publisher and commands do not run while the driver is being moved.
NotPairing == pc \in {"idle", "scanning"}

Connect ==
    /\ NotPairing
    /\ conn = None
    /\ device # None
    /\ conn' = device
    /\ UNCHANGED <<discovered, pc, candidate, previous, binding, seen>>

ConnectionLost ==
    /\ conn # None
    /\ conn' = None
    /\ UNCHANGED <<discovered, pc, candidate, previous, binding, seen>>

Subscribe ==
    /\ NotPairing
    /\ CheckDevice
    /\ conn = device
    /\ callbacks' = device
    /\ UNCHANGED <<discovered, pc, candidate, previous, binding, conn, raw,
                   reported, interrupted>>

Unsubscribe ==
    /\ NotPairing
    /\ callbacks' = None
    /\ UNCHANGED <<discovered, pc, candidate, previous, binding, conn, raw,
                   reported, interrupted>>

\* A poll, the publisher's or the read-back of a command's operation,
\* reconnects if it must and replaces _raw_dps.
Poll ==
    /\ NotPairing
    /\ CheckDevice
    /\ conn' = device
    /\ raw' = {device}
    /\ reported' = [light |-> adopted, from |-> {device}]
    /\ UNCHANGED <<discovered, pc, candidate, previous, binding, callbacks,
                   interrupted>>

\* A push updates _raw_dps.  If the mapped DPs are all there and a callback
\* is filed under the driver's device, it is published under the adopted light.
Push(complete) ==
    /\ conn # None
    /\ raw' = IF complete THEN {conn} ELSE raw \cup {conn}
    /\ \/ UNCHANGED reported
       \/ /\ callbacks # None
          /\ callbacks = device
          /\ complete \/ raw # {}
          /\ reported' = [light |-> adopted, from |-> raw']
    /\ UNCHANGED <<discovered, pc, candidate, previous, binding, conn, callbacks,
                   interrupted>>

\* All that the process knows is gone.
ProcessEnds ==
    /\ discovered' = {}
    /\ candidate' = None
    /\ previous' = None
    /\ conn' = None
    /\ callbacks' = None
    /\ raw' = {}
    /\ interrupted' = FALSE
    /\ UNCHANGED <<file, verified, reported>>

\* Defect: the restart does not look at the pairing file.
RestartUnpaired ==
    /\ ProcessEnds
    /\ pc' = "idle"
    /\ device' = None
    /\ adopted' = None

\* A crash, or an exit, at any point: os.replace left one file or the other.
\* _run describes the device the file names, and stops if that raises.
Restart ==
    /\ ProcessEnds
    /\ pc' = IF file \in Describable \cup {None} THEN "idle" ELSE "stopped"
    /\ device' = RestoredBinding
    /\ adopted' = RestoredBinding

-----------------------------------------------------------------------------
Pair ==
    \/ \E c \in Devices : StartPairing(c)
    \/ Reached \/ Verified \/ Adopt
    \/ \E parsed \in BOOLEAN : PairingFails(parsed)
    \/ RollBack \/ RollBackInterrupted

Next ==
    \/ StartScan
    \/ \E found \in SUBSET Devices : ScanDone(found)
    \/ Pair
    \/ Connect \/ ConnectionLost \/ Subscribe \/ Unsubscribe \/ Poll
    \/ \E complete \in BOOLEAN : Push(complete)
    \/ Restart

Spec == Init /\ [][Next]_vars

-----------------------------------------------------------------------------
(* Properties.                                                             *)

TypeOK ==
    /\ discovered \subseteq Devices
    /\ pc \in {"idle", "scanning", "connecting", "verifying", "adopting",
               "rollback", "stopped"}
    /\ candidate \in Devices \cup {None}
    /\ previous \in Devices \cup {None}
    /\ device \in Devices \cup {None}
    /\ adopted \in Describable \cup {None}
    /\ file \in Devices \cup {None}
    /\ conn \in Devices \cup {None}
    /\ callbacks \in Devices \cup {None}
    /\ raw \subseteq Devices
    /\ verified \subseteq Devices
    /\ reported \in [light : Devices \cup {None}, from : SUBSET Devices]
    /\ interrupted \in BOOLEAN

\* Control and the pairing file are only ever given to a device that
\* answered the poll of its pairing, through failures, crashes and restarts.
OnlyVerifiedIsBound ==
    {adopted, file} \subseteq verified \cup {None}

\* A file that a restart can use names the device the boundary controls, or
\* the one it is about to adopt: however pairings fail, whatever a rollback
\* leaves behind, and in the window in which the file is ahead of the
\* boundary (_save_pairing_state, handle_pairing).
FileFollowsBoundary ==
    file \in Describable \cup {None} =>
        file = IF pc = "adopting" THEN candidate ELSE adopted

\* "It is written atomically after verification, so a Linker restart restores
\* the binding" (README.md): a restart brings back the device that the
\* boundary controls, unless the boundary is about to adopt another.
RestartRestoresBinding ==
    adopted # None /\ pc # "adopting" => RestoredBinding = adopted

\* No rollback was interrupted, the driver's device can be described, and the
\* boundary does not lag behind the driver.
Sound == ~interrupted /\ device \in Describable /\ pc # "adopting"

\* A state is published under the light of a device it has DPs of: while
\* pairing moves the device and the callbacks, and however it fails, the
\* reader never publishes the new device under the old light (pair,
\* _handle_status).
ReportsNameTheirSource ==
    [][reported' # reported /\ Sound => reported'.light \in reported'.from]_vars

\* TuyaLocalDriver calls itself "a single-device" adapter: the DPs of a
\* published state are all of the device it is published for.
ReportedStateIsOwn == reported.from \subseteq {reported.light}

Undescribable == Devices \ Describable

\* When no pairing is under way the driver has the device the boundary
\* controls: a failed pairing leaves no trace (pair's except block), unless
\* the rollback itself was interrupted, or pair failed after its try block,
\* which only the pairing of an undescribable device does.
DriverFollowsBoundary ==
    pc \in {"idle", "scanning"} /\ ~interrupted =>
        device = adopted \/ device \in Undescribable

-----------------------------------------------------------------------------
(* The inductive invariants.                                               *)

Moving == pc \in {"connecting", "verifying", "adopting"}

\* While a device is being paired the driver has it, and the file names it
\* when the boundary is about to adopt it; the connection is always to the
\* driver's device.
MovingToCandidate ==
    /\ Moving =>
        /\ candidate \in Devices
        /\ device = candidate
        /\ pc = "adopting" => file = candidate
    /\ conn # None => conn = device
    /\ pc = "stopped" => device = None

\* What every step preserves about the binding.
IInv ==
    /\ TypeOK
    /\ MovingToCandidate
    /\ OnlyVerifiedIsBound
    /\ FileFollowsBoundary

\* Until a rollback is interrupted, the way back from a pairing leads to the
\* boundary's device, or to an undescribable one, and the callbacks are filed
\* under the device that is to receive them.
WayBack ==
    /\ DriverFollowsBoundary
    /\ ~interrupted =>
        /\ pc \in {"connecting", "verifying", "rollback"} =>
              /\ previous = adopted \/ previous \in Undescribable
              /\ callbacks \in {None, previous}
        /\ pc = "adopting" => callbacks \in {None, candidate}
        /\ pc \in {"idle", "scanning"} => callbacks \in {None, device}
=============================================================================
