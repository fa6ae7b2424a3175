---------------------------- MODULE MCLanGateway ----------------------------
(***************************************************************************)
(* Instances of LanGateway for TLC: two admitted models, one that is in    *)
(* the catalog but not admitted, one unknown name; default settings, one   *)
(* supported change and one that command() rejects.                        *)
(***************************************************************************)
EXTENDS LanGateway, TLC

CONSTANTS h1, h2, p1, p2, m1, m2, m3, ghost, plain, custom, rejected

MCHandlers == {h1, h2}
MCProcs == {p1, p2}
MCModels == {m1, m2, m3}
MCAdmitted == {m1, m2}
MCNames == {m1, m2, m3, ghost}
MCRuntimes == {plain, custom, rejected}
MCSupported == {plain, custom}

\* Threads and processes are interchangeable, and so are the admitted models.
Symmetry == Permutations(MCHandlers) \cup Permutations(MCProcs)
            \cup Permutations(MCAdmitted)
=============================================================================
