------------------------------ MODULE MCKvCache ------------------------------
(***************************************************************************)
(* Two commands at two sessions; an identity that may be kept and one of a *)
(* Cyber model; two payloads; room for one.                                *)
(***************************************************************************)
EXTENDS KvCache, TLC

CONSTANTS c1, c2, s1, s2, plain, cyber, p1, p2

MCCommands == {c1, c2}
MCSessions == {s1, s2}
MCIdentities == {plain, cyber}
MCEphemeral == {cyber}
MCContents == {p1, p2}

Symmetry == Permutations(Commands) \cup Permutations(Sessions)
            \cup Permutations(Contents)
===============================================================================
