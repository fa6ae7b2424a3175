----------------------------- MODULE MCFastLane -----------------------------
(***************************************************************************)
(* One switcher, whose command may be repeated, and two models.            *)
(***************************************************************************)
EXTENDS FastLane

CONSTANTS s1, m1, m2

OneSwitcher == {s1}
MCModels == {m1, m2}
=============================================================================
