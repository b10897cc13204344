------------------------------ MODULE MCPairing ------------------------------
(* Instances of Pairing for TLC.                                             *)
EXTENDS Pairing, TLC

CONSTANTS a, b, c

\* c is the device that cannot be described.
DeviceSymmetry == Permutations({a, b})
=============================================================================
