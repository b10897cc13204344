---------------------------- MODULE PairingProofs ----------------------------
(***************************************************************************)
(* Proofs about Pairing, for any devices, whichever of them can be         *)
(* described: what is bound was verified and the file follows the          *)
(* boundary, however pairings fail and whichever wait_for the Python       *)
(* version has; and, until a rollback is interrupted, that a failed        *)
(* pairing leaves no trace and that a state is published for a device it   *)
(* comes from, but for undescribable devices.                              *)
(***************************************************************************)
EXTENDS Pairing, TLAPS

-----------------------------------------------------------------------------
(* The invariant that holds however rollbacks end.                         *)

\* Nothing is bound at the start.
LEMMA InitIInv == Init => IInv
<1>. SUFFICES ASSUME Init PROVE IInv
  OBVIOUS
<1>1. TypeOK
  BY DescribableAreDevices DEF Init, TypeOK
<1>2. MovingToCandidate
  BY DEF Init, MovingToCandidate, Moving
<1>3. OnlyVerifiedIsBound /\ FileFollowsBoundary
  BY DEF Init, OnlyVerifiedIsBound, FileFollowsBoundary
<1>. QED
  BY <1>1, <1>2, <1>3 DEF IInv

\* Every step of the driver, the boundary and the process keeps IInv.
LEMMA NextIInv == IInv /\ [Next]_vars => IInv'
<1>. SUFFICES ASSUME IInv, [Next]_vars PROVE IInv'
  OBVIOUS
<1>. USE NoneIsNoDevice, DescribableAreDevices
     DEF IInv, TypeOK, MovingToCandidate, Moving, OnlyVerifiedIsBound,
         FileFollowsBoundary, binding, seen
<1>1. CASE StartScan
  BY <1>1 DEF StartScan
<1>2. ASSUME NEW found \in SUBSET Devices, ScanDone(found) PROVE IInv'
  BY <1>2 DEF ScanDone
<1>3. ASSUME NEW c \in Devices, StartPairing(c) PROVE IInv'
  BY <1>3 DEF StartPairing
<1>4. CASE Reached
  BY <1>4 DEF Reached
<1>5. CASE Verified
  BY <1>5 DEF Verified, Adoption
<1>6. CASE Adopt
  BY <1>6 DEF Adopt, Adoption
<1>7. ASSUME NEW parsed \in BOOLEAN, PairingFails(parsed) PROVE IInv'
  BY <1>7 DEF PairingFails
<1>8. CASE RollBack
  BY <1>8 DEF RollBack
<1>9. CASE RollBackInterrupted
  BY <1>9 DEF RollBackInterrupted
<1>10. CASE Connect
  BY <1>10 DEF Connect, NotPairing
<1>11. CASE ConnectionLost
  BY <1>11 DEF ConnectionLost
<1>12. CASE Subscribe
  BY <1>12 DEF Subscribe, CheckDevice, NotPairing
<1>13. CASE Unsubscribe
  BY <1>13 DEF Unsubscribe, NotPairing
<1>14. CASE Poll
  BY <1>14 DEF Poll, CheckDevice, NotPairing
<1>15. ASSUME NEW complete \in BOOLEAN, Push(complete) PROVE IInv'
  BY <1>15 DEF Push
<1>16. CASE Restart
  BY <1>16 DEF Restart, ProcessEnds, RestoredBinding
<1>17. CASE UNCHANGED vars
  BY <1>17 DEF vars
<1>. QED
  BY <1>1, <1>2, <1>3, <1>4, <1>5, <1>6, <1>7, <1>8, <1>9, <1>10, <1>11,
       <1>12, <1>13, <1>14, <1>15, <1>16, <1>17 DEF Next, Pair

\* IInv holds in every reachable state, whether or not rollbacks are
\* interrupted and whichever wait_for the Python version has.
THEOREM InductiveInvariant == Spec => []IInv
<1>. QED
  BY InitIInv, NextIInv, PTL DEF Spec

\* The state of driver, boundary and file is well typed; only describable
\* devices are ever bound.
THEOREM TypeCorrect == Spec => []TypeOK
<1>1. IInv => TypeOK
  BY DEF IInv
<1>. QED
  BY <1>1, InductiveInvariant, PTL

\* Only devices that answered the poll of their pairing are ever bound or
\* written to the pairing file.
THEOREM BoundWasVerified == Spec => []OnlyVerifiedIsBound
<1>1. IInv => OnlyVerifiedIsBound
  BY DEF IInv
<1>. QED
  BY <1>1, InductiveInvariant, PTL

\* A file that a restart can use names the device that the boundary controls,
\* or the one that it is about to adopt.
THEOREM FileFollows == Spec => []FileFollowsBoundary
<1>1. IInv => FileFollowsBoundary
  BY DEF IInv
<1>. QED
  BY <1>1, InductiveInvariant, PTL

\* With devices that can all be described, a restart brings back what the
\* boundary controls, which the README promises of every device.
THEOREM BindingSurvives ==
  ASSUME Describable = Devices
  PROVE  Spec => []RestartRestoresBinding
<1>1. IInv => RestartRestoresBinding
  BY NoneIsNoDevice, DescribableAreDevices
     DEF IInv, TypeOK, FileFollowsBoundary, RestartRestoresBinding,
         RestoredBinding
<1>. QED
  BY <1>1, InductiveInvariant, PTL

-----------------------------------------------------------------------------
(* Until a rollback is interrupted.                                        *)

\* There is nowhere to go back to at the start.
LEMMA InitWayBack == Init => WayBack
  BY DEF Init, WayBack, DriverFollowsBoundary

\* Every step keeps the way back and the callbacks' place.
LEMMA NextWayBack == IInv /\ WayBack /\ [Next]_vars => WayBack'
<1>. SUFFICES ASSUME IInv, WayBack, [Next]_vars PROVE WayBack'
  OBVIOUS
<1>. USE NoneIsNoDevice, DescribableAreDevices
     DEF WayBack, DriverFollowsBoundary, Undescribable, IInv, TypeOK,
         MovingToCandidate, Moving, FileFollowsBoundary, binding, seen
<1>1. CASE StartScan
  BY <1>1 DEF StartScan
<1>2. ASSUME NEW found \in SUBSET Devices, ScanDone(found) PROVE WayBack'
  BY <1>2 DEF ScanDone
<1>3. ASSUME NEW c \in Devices, StartPairing(c) PROVE WayBack'
  BY <1>3 DEF StartPairing
<1>4. CASE Reached
  BY <1>4 DEF Reached
<1>5. CASE Verified
  BY <1>5 DEF Verified, Adoption
<1>6. CASE Adopt
  BY <1>6 DEF Adopt, Adoption
<1>7. ASSUME NEW parsed \in BOOLEAN, PairingFails(parsed) PROVE WayBack'
  BY <1>7 DEF PairingFails
<1>8. CASE RollBack
  BY <1>8 DEF RollBack
<1>9. CASE RollBackInterrupted
  BY <1>9 DEF RollBackInterrupted
<1>10. CASE Connect
  BY <1>10 DEF Connect, NotPairing
<1>11. CASE ConnectionLost
  BY <1>11 DEF ConnectionLost
<1>12. CASE Subscribe
  BY <1>12 DEF Subscribe, CheckDevice, NotPairing
<1>13. CASE Unsubscribe
  BY <1>13 DEF Unsubscribe, NotPairing
<1>14. CASE Poll
  BY <1>14 DEF Poll, CheckDevice, NotPairing
<1>15. ASSUME NEW complete \in BOOLEAN, Push(complete) PROVE WayBack'
  BY <1>15 DEF Push
<1>16. CASE Restart
  BY <1>16 DEF Restart, ProcessEnds, RestoredBinding
<1>17. CASE UNCHANGED vars
  BY <1>17 DEF vars
<1>. QED
  BY <1>1, <1>2, <1>3, <1>4, <1>5, <1>6, <1>7, <1>8, <1>9, <1>10, <1>11,
       <1>12, <1>13, <1>14, <1>15, <1>16, <1>17 DEF Next, Pair

\* The way back is there in every reachable state.
LEMMA AlwaysWayBack == Spec => []WayBack
<1>. QED
  BY InitWayBack, NextWayBack, InductiveInvariant, PTL DEF Spec

\* A failed pairing leaves the driver with the boundary's device, unless the
\* rollback was interrupted or the device cannot be described.
THEOREM FailureLeavesNoTrace == Spec => []DriverFollowsBoundary
<1>1. WayBack => DriverFollowsBoundary
  BY DEF WayBack
<1>. QED
  BY <1>1, AlwaysWayBack, PTL

\* A push that is published comes from the device the driver has, and while
\* that is sound it is the boundary's.
LEMMA ReportIsSourced ==
  ASSUME IInv, WayBack, [Next]_vars, reported' # reported, Sound
  PROVE  reported'.light \in reported'.from
<1>. USE NoneIsNoDevice, DescribableAreDevices
     DEF IInv, TypeOK, WayBack, DriverFollowsBoundary, Undescribable,
         MovingToCandidate, Moving, Sound, binding, seen
<1>1. CASE Poll
  BY <1>1 DEF Poll, CheckDevice, NotPairing
<1>2. ASSUME NEW complete \in BOOLEAN, Push(complete)
      PROVE  reported'.light \in reported'.from
  <2>1. /\ conn = device
        /\ callbacks = device
        /\ conn \in raw'
        /\ reported' = [light |-> adopted, from |-> raw']
    BY <1>2 DEF Push
  <2>2. adopted = device
    BY <2>1
  <2>. QED
    BY <2>1, <2>2
<1>. QED
  BY <1>1, <1>2
     DEF Next, Pair, StartScan, ScanDone, StartPairing, Reached, Verified,
         Adopt, PairingFails, RollBack, RollBackInterrupted, Connect,
         ConnectionLost, Subscribe, Unsubscribe, Restart, ProcessEnds, vars

\* A state is published under the light of a device it has DPs of.
THEOREM ReportsAreSourced == Spec => ReportsNameTheirSource
<1>1. IInv /\ WayBack /\ [Next]_vars
        => [reported' # reported /\ Sound
              => reported'.light \in reported'.from]_vars
  BY ReportIsSourced
<1>. QED
  BY <1>1, InductiveInvariant, AlwaysWayBack, PTL
     DEF Spec, ReportsNameTheirSource
=============================================================================
