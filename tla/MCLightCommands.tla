--------------------------- MODULE MCLightCommands ---------------------------
(* Instances of LightCommands for TLC.                                       *)
EXTENDS LightCommands

CONSTANTS h1, h2, lamp, desk, id1, id2, k1, k2, e1, e2, e3, e4

Cmd(eid, light, id, key, valid) ==
    [eid |-> eid, correlated |-> TRUE, light |-> light, id |-> id, key |-> key,
     valid |-> valid]

\* One light: a command and its redelivery, another id with a bad value under
\* the same key, a command under another key and one without correlation.
RetryingServer ==
    {Cmd(e1, lamp, id1, k1, TRUE), Cmd(e2, lamp, id2, k1, FALSE),
     Cmd(e3, lamp, id2, k2, TRUE),
     [Cmd(e4, lamp, id1, k2, TRUE) EXCEPT !.correlated = FALSE]}

\* Two lights: a command, one for the other light with a bad value under the
\* same key and id, another command, and one without a light and a key.
TwoLightServer ==
    {Cmd(e1, lamp, id1, k1, TRUE), Cmd(e2, desk, id2, k2, TRUE),
     Cmd(e3, None, id2, None, TRUE), Cmd(e4, desk, id1, k1, FALSE)}
=============================================================================
