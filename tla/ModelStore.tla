------------------------------ MODULE ModelStore ------------------------------
(***************************************************************************)
(* The content-addressed model store of pds4/store.py.  `pds4 model        *)
(* import` checks the artifacts against their manifest, copies each to the *)
(* address its digest gives, writes the manifest of the model and points   *)
(* the names in the model's directory at the blobs.  A switch of the Fast  *)
(* lane marks the manifest it has tried as promoted.  Nothing locks the    *)
(* store: commands are processes of their own that interleave and that may *)
(* be killed between two steps.                                            *)
(*                                                                         *)
(* A digest stands for the content that has it.  A blob reaches its        *)
(* address by a rename, so it is never seen half written.  The links of a  *)
(* model (artifact names and model.gguf) are one variable, the digest that *)
(* the name of the weights points at.  A model has a directory before it   *)
(* has a manifest.  Blobs do not rot: a blob that differs from its         *)
(* address, which the code refuses, is not modelled.                       *)
(***************************************************************************)
EXTENDS Naturals

CONSTANTS
    Commands,           \* invocations of pds4 that touch the store
    Models,             \* model ids
    Digests,            \* SHA-256 digests of artifacts
    Manifests,          \* the manifest files there are, see ValidManifest
    Garbage,            \* content whose digest is none of Digests
    None,               \* an absent file, Python's None
    SourceMayChange,    \* TRUE: an artifact may change while it is imported
    MaxStarts,          \* bound: commands started
    MaxKills            \* bound: commands killed

\* What validate_manifest accepts, down to what the store looks at: the model
\* it describes, one weights artifact, artifacts of other roles, and whether
\* the licence lets the weights leave the machine.
ValidManifest == [model : Models, weights : Digests, others : SUBSET Digests,
                  share : BOOLEAN]

Installed == [of : Manifests, status : {"verified", "promoted"}]

ASSUME ManifestAssumption == Manifests \subseteq ValidManifest
ASSUME ContentAssumption ==
    /\ {Garbage, None} \cap Digests = {}
    /\ Garbage # None
    /\ None \notin Manifests \cup Installed
ASSUME BoundAssumption ==
    /\ MaxStarts \in Nat
    /\ MaxKills \in Nat
    /\ SourceMayChange \in BOOLEAN

VARIABLES
    blob,       \* blob[d]: the content at the address of d, or None
    manifest,   \* manifest[m]: the installed manifest of m, or None
    link,       \* link[m]: what the name of m's weights points at, or None
    directories,\* the models that have a directory under /srv/pds4/models
    pc,         \* pc[c]: where command c is
    plan,       \* plan[c]: the manifest c works from
    todo,       \* todo[c]: the artifacts c still has to copy
    back,       \* back[c]: where c goes when import_model returns
    alone,      \* observed: alone[c] iff no other command has run beside c
    started,    \* observed: commands started
    kills       \* observed: commands killed

store == <<blob, manifest, link, directories>>
importing == <<plan, todo, back>>
observed == <<alone, started, kills>>
storeVars == <<store, pc, importing, observed>>

-----------------------------------------------------------------------------
Artifacts(v) == {v.weights} \cup v.others

\* verify_installed: a manifest, and behind each artifact content of its digest.
Verified(m) ==
    /\ manifest[m] # None
    /\ \A d \in Artifacts(manifest[m].of) : blob[d] = d

Busy == {c \in Commands : pc[c] # "idle"}

StoreInit ==
    /\ pc = [c \in Commands |-> "idle"]
    /\ plan = [c \in Commands |-> None]
    /\ todo = [c \in Commands |-> {}]
    /\ back = [c \in Commands |-> "idle"]
    /\ alone = [c \in Commands |-> FALSE]
    /\ started = 0
    /\ kills = 0

Empty ==
    /\ blob = [d \in Digests |-> None]
    /\ manifest = [m \in Models |-> None]
    /\ link = [m \in Models |-> None]
    /\ directories = {}

\* A machine on which the artifacts of v have been imported.
Holding(v) ==
    /\ blob = [d \in Digests |-> IF d \in Artifacts(v) THEN d ELSE None]
    /\ manifest = [m \in Models |-> IF m = v.model
                                    THEN [of |-> v, status |-> "verified"] ELSE None]
    /\ link = [m \in Models |-> IF m = v.model THEN v.weights ELSE None]
    /\ directories = {v.model}

Start(c, step) ==
    /\ pc[c] = "idle"
    /\ started < MaxStarts
    /\ started' = started + 1
    /\ pc' = [pc EXCEPT ![c] = step]
    /\ alone' = [d \in Commands |-> d = c /\ Busy = {}]
    /\ UNCHANGED kills

Goto(c, from, to) ==
    /\ pc[c] = from
    /\ pc' = [pc EXCEPT ![c] = to]

\* The command returns, raises or is killed: its memory is gone.
Forget(c) ==
    /\ pc' = [pc EXCEPT ![c] = "idle"]
    /\ plan' = [plan EXCEPT ![c] = None]
    /\ todo' = [todo EXCEPT ![c] = {}]
    /\ back' = [back EXCEPT ![c] = "idle"]

-----------------------------------------------------------------------------
(***************************************************************************)
(* import_model.  The first loop, which verifies every source and changes  *)
(* nothing, is over when Import fires; a source that fails it ends the     *)
(* command there.  The artifacts are copied in any order.                  *)
(***************************************************************************)
Import(c, v) ==
    /\ Start(c, "copy")
    /\ plan' = [plan EXCEPT ![c] = v]
    /\ todo' = [todo EXCEPT ![c] = Artifacts(v)]
    /\ UNCHANGED <<store, back>>

\* _copy_blob finds the blob at its address and the content is the right one.
KeepBlob(c, d) ==
    /\ pc[c] = "copy"
    /\ d \in todo[c]
    /\ blob[d] = d
    /\ todo' = [todo EXCEPT ![c] = @ \ {d}]
    /\ UNCHANGED <<store, pc, plan, back>>

\* _copy_blob copies to a temporary file and looks at what it has copied.
CopyBlob(c, d, content) ==
    /\ pc[c] = "copy"
    /\ d \in todo[c]
    /\ blob[d] = None
    /\ IF content = d
       THEN /\ blob' = [blob EXCEPT ![d] = content]
            /\ todo' = [todo EXCEPT ![c] = @ \ {d}]
            /\ UNCHANGED <<manifest, link, directories, pc, plan, back>>
       ELSE /\ Forget(c)
            /\ UNCHANGED store

\* The directory of the model, which doctor looks into from now on.
MakeDirectory(c) ==
    /\ pc[c] = "copy"
    /\ todo[c] = {}
    /\ plan[c].model \notin directories
    /\ directories' = directories \cup {plan[c].model}
    /\ UNCHANGED <<blob, manifest, link, pc, importing>>

\* Mutants: the manifest is written before the artifacts are copied; it keeps
\* the status it came with.
WriteManifest_Early(c) ==
    /\ Goto(c, "copy", "link")
    /\ manifest' = [manifest EXCEPT ![plan[c].model] =
                        [of |-> plan[c], status |-> "verified"]]
    /\ todo' = [todo EXCEPT ![c] = {}]
    /\ directories' = directories \cup {plan[c].model}
    /\ UNCHANGED <<blob, link, plan, back>>
WriteManifest_AsGiven(c) ==
    /\ Goto(c, "copy", "link")
    /\ todo[c] = {}
    /\ plan[c].model \in directories
    /\ manifest' = [manifest EXCEPT ![plan[c].model] =
                        [of |-> plan[c], status |-> "quarantine"]]
    /\ UNCHANGED <<blob, link, directories, importing>>

WriteManifest(c) ==
    /\ Goto(c, "copy", "link")
    /\ todo[c] = {}
    /\ plan[c].model \in directories
    /\ manifest' = [manifest EXCEPT ![plan[c].model] =
                        [of |-> plan[c], status |-> "verified"]]
    /\ UNCHANGED <<blob, link, directories, importing>>

\* Mutant: a link that exists is kept.
Link_Once(c) ==
    /\ Goto(c, "link", back[c])
    /\ link' = [link EXCEPT ![plan[c].model] = IF @ = None THEN plan[c].weights ELSE @]
    /\ plan' = [plan EXCEPT ![c] = None]
    /\ back' = [back EXCEPT ![c] = "idle"]
    /\ UNCHANGED <<blob, manifest, directories, todo>>

Link(c) ==
    /\ Goto(c, "link", back[c])
    /\ link' = [link EXCEPT ![plan[c].model] = plan[c].weights]
    /\ plan' = [plan EXCEPT ![c] = None]
    /\ back' = [back EXCEPT ![c] = "idle"]
    /\ UNCHANGED <<blob, manifest, directories, todo>>

-----------------------------------------------------------------------------
(***************************************************************************)
(* _promote_manifest of pds4/lane.py: read the manifest, write it back.    *)
(***************************************************************************)
ReadForPromotion(c, m) ==
    /\ Start(c, "promote")
    /\ manifest[m] # None
    /\ plan' = [plan EXCEPT ![c] = manifest[m].of]
    /\ UNCHANGED <<store, todo, back>>

WritePromotion(c) ==
    /\ pc[c] = "promote"
    /\ manifest' = [manifest EXCEPT ![plan[c].model] =
                        [of |-> plan[c], status |-> "promoted"]]
    /\ Forget(c)
    /\ UNCHANGED <<blob, link, directories>>

-----------------------------------------------------------------------------
Sources(d) == {d} \cup (IF SourceMayChange THEN {Garbage} ELSE {})

\* The steps inside import_model, whoever has called it.
ImportStep(c) ==
    /\ \/ \E d \in Digests : KeepBlob(c, d)
       \/ \E d \in Digests : \E content \in Sources(d) : CopyBlob(c, d, content)
       \/ MakeDirectory(c)
       \/ WriteManifest(c)
       \/ Link(c)
    /\ UNCHANGED observed

StoreStep(c) ==
    \/ \E v \in Manifests : Import(c, v)
    \/ \E m \in Models : ReadForPromotion(c, m)
    \/ ImportStep(c)
    \/ WritePromotion(c) /\ UNCHANGED observed

-----------------------------------------------------------------------------
StoreTypeOK ==
    /\ blob \in [Digests -> Digests \cup {Garbage, None}]
    /\ manifest \in [Models -> Installed \cup {None}]
    /\ link \in [Models -> Digests \cup {None}]
    /\ directories \subseteq Models
    /\ plan \in [Commands -> Manifests \cup {None}]
    /\ todo \in [Commands -> SUBSET Digests]
    /\ alone \in [Commands -> BOOLEAN]
    /\ started \in 0..MaxStarts
    /\ kills \in 0..MaxKills

\* Every address holds the content it names or nothing; the blobs of a manifest
\* that is in place are there; and the name a model is opened by never dangles.
\* Sources that change under the copy, imports of two versions that share a blob,
\* promotions and kills in any order do not change that.
AddressedContent == \A d \in Digests : blob[d] \in {d, None}
InstalledVerifies == \A m \in Models : manifest[m] # None => Verified(m)
LinkReachesBlob == \A m \in Models : link[m] # None => blob[link[m]] = link[m]

StoreSound == AddressedContent /\ InstalledVerifies /\ LinkReachesBlob

\* An import that no other command has overlapped ends with its own manifest,
\* verified, and with the model's name on its own weights, whatever an import
\* that was killed before it had left behind.
ImportDelivers ==
    [][\A c \in Commands :
          (pc[c] = "link" /\ pc'[c] # "link" /\ alone[c] /\ kills' = kills)
              => LET v == plan[c] IN
                 /\ manifest'[v.model] = [of |-> v, status |-> "verified"]
                 /\ link'[v.model] = v.weights
                 /\ \A d \in Artifacts(v) : blob'[d] = d]_storeVars
===============================================================================
