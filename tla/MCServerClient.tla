--------------------------- MODULE MCServerClient ----------------------------
(* Instances of ServerClient for TLC.                                        *)
EXTENDS ServerClient

CONSTANTS lamp, desk
=============================================================================
