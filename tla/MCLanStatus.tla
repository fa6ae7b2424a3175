---------------------------- MODULE MCLanStatus ----------------------------
(***************************************************************************)
(* One status reader beside one handler thread, two models, one process.   *)
(***************************************************************************)
EXTENDS LanStatus

CONSTANTS h1, p1, m1, m2, plain, custom

MCHandlers == {h1}
MCProcs == {p1}
MCModels == {m1, m2}
MCRuntimes == {plain, custom}
=============================================================================
