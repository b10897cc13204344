--------------------------- MODULE MCTuyaConnection ---------------------------
(* Instances of TuyaConnection for TLC.                                      *)
EXTENDS TuyaConnection
=============================================================================
