------------------------------ MODULE MCRecovery ------------------------------
(***************************************************************************)
(* An instance of Recovery for TLC: one model in two versions that share a *)
(* tokenizer, the second of which may not be redistributed.                *)
(***************************************************************************)
EXTENDS Recovery, TLC

CONSTANTS c1, c2, m1, w1, w2, t, b1, b2, f1, f2

MCCommands == {c1, c2}
MCModels == {m1}
MCDigests == {w1, w2, t}
MCManifests ==
    {[model |-> m1, weights |-> w1, others |-> {t}, share |-> TRUE],
     [model |-> m1, weights |-> w2, others |-> {t}, share |-> FALSE]}
MCBundles == {b1, b2}
OneBundle == {b1}
MCRuntimeFiles == {f1, f2}

Symmetry == Permutations(MCCommands) \cup Permutations(MCBundles)
            \cup Permutations(MCRuntimeFiles)
===============================================================================
