---------------------------- MODULE MCPds4Gateway ----------------------------
(***************************************************************************)
(* Two switchers or one beside a Flash command, one request, two models.   *)
(***************************************************************************)
EXTENDS Pds4Gateway, TLC

CONSTANTS s1, s2, g1, c1, m1, m2

MCSwitchers == {s1, s2}
OneSwitcher == {s1}
MCFlashOps == {g1}
MCClients == {c1}
MCModels == {m1, m2}

Symmetry == Permutations(MCSwitchers) \cup Permutations(MCModels)
=============================================================================
