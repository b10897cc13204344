----------------------------- MODULE MCDpMapping -----------------------------
(* Instances of DpMapping for TLC: a range with fewer values than levels and *)
(* one with more, and levels whose two roundings go different ways.          *)
EXTENDS DpMapping

LampWithWhite == {"brightness", "white"}

LampWithoutWhite == {"brightness"}

Scale(lo, hi) == [lo |-> lo, hi |-> hi]

RangesMC == {Scale(10, 20), Scale(10, 300)}

LevelsMC == {76, 170}

MovesMC == {13, 290}
=============================================================================
