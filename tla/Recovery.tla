------------------------------- MODULE Recovery -------------------------------
(***************************************************************************)
(* Recovery bundles, pds4/bundle.py, over the model store.                 *)
(*                                                                         *)
(* `pds4 bundle create` copies installed models and the current release    *)
(* into a new directory, writes the inventory and the checksums and signs  *)
(* them; on an exception it removes the directory, when it is killed it    *)
(* leaves it.  `pds4 recover` verifies a bundle, imports its models, puts  *)
(* its runtime under /opt/pds4/releases by way of a staging directory and  *)
(* turns the links previous and current.  Bundles outlive the machine.     *)
(*                                                                         *)
(* Of a bundle's files those that vary are kept: manifests, artifacts,     *)
(* runtime.  The versions of a model have the same file names.  Two        *)
(* recoveries are never in progress at once.                               *)
(***************************************************************************)
EXTENDS ModelStore

CONSTANTS
    Bundles,        \* bundle ids, which are the names of their releases too
    Factory,        \* the release a machine is set up with
    RuntimeFiles,   \* the files of a complete runtime
    Wipes           \* bound: machines replaced

ASSUME ReleaseAssumption ==
    /\ Factory \notin Bundles
    /\ None \notin Bundles \cup {Factory}
    /\ RuntimeFiles # {}
    /\ \A part \in SUBSET RuntimeFiles : part # None
ASSUME WipeAssumption == Wipes \in Nat

VARIABLES
    bundle,     \* bundle[b]: the directory of b
    release,    \* release[r]: the files of /opt/pds4/releases/r, or None
    staging,    \* staging[r]: the files of .r.install, or None
    current,    \* the release /opt/pds4/current points at, or None
    previous,   \* the release /opt/pds4/previous points at, or None
    mapped,     \* is there a map of the GPUs, /etc/pds4/gpus.conf?
    on,         \* on[c]: the bundle c creates or recovers
    rest,       \* rest[c]: the models c has still to handle
    files,      \* files[c]: the runtime files c has still to copy
    wiped       \* observed: machines replaced

installation == <<release, staging, current, previous>>
bundling == <<on, rest, files>>
vars == <<storeVars, bundle, installation, bundling, mapped, wiped>>

-----------------------------------------------------------------------------
Releases == Bundles \cup {Factory}
Stages == {"absent", "open", "listed", "signed"}

\* solo observes that no other command ran while the bundle was created.
Bundle == [stage : Stages, intact : BOOLEAN, solo : BOOLEAN,
           manifest : [Models -> Manifests \cup {None}],
           weights : [Models -> Digests \cup {None}],
           artifacts : [Models -> SUBSET Digests],
           runtime : (SUBSET RuntimeFiles) \cup {None}]
NoBundle == [stage |-> "absent", intact |-> TRUE, solo |-> FALSE,
             manifest |-> [m \in Models |-> None],
             weights |-> [m \in Models |-> None],
             artifacts |-> [m \in Models |-> {}],
             runtime |-> None]

Creating == {"model", "manifestFile", "artifacts", "runtime", "list", "sign"}
Recovering == {"nextModel", "install", "copyRuntime", "rename", "previous", "current"}
RecoveryBusy(c) ==
    \/ pc[c] \in Recovering
    \/ pc[c] \in {"copy", "link"} /\ back[c] # "idle"

Init ==
    /\ StoreInit
    /\ bundle = [b \in Bundles |-> NoBundle]
    /\ staging = [r \in Releases |-> None]
    /\ previous = None
    /\ mapped = TRUE
    /\ on = [c \in Commands |-> None]
    /\ rest = [c \in Commands |-> {}]
    /\ files = [c \in Commands |-> {}]
    /\ wiped = 0
    /\ release = [r \in Releases |-> IF r = Factory THEN RuntimeFiles ELSE None]
    /\ current = Factory
    /\ Empty \/ \E v \in Manifests : Holding(v)

Drop(c) ==
    /\ on' = [on EXCEPT ![c] = None]
    /\ rest' = [rest EXCEPT ![c] = {}]
    /\ files' = [files EXCEPT ![c] = {}]

Exit(c) == Forget(c) /\ Drop(c)

\* The bundle c is at work on, with one of its fields changed.
Amend(c, changed) == bundle' = [bundle EXCEPT ![on[c]] = changed]
Open(c) == bundle[on[c]]

-----------------------------------------------------------------------------
(***************************************************************************)
(* create.  share: the weights may go along, by their licence or because   *)
(* the bundle is for personal use.                                         *)
(***************************************************************************)
Create(c, b, models) ==
    /\ Start(c, "model")
    /\ bundle[b].stage = "absent"
    /\ on' = [on EXCEPT ![c] = b]
    /\ rest' = [rest EXCEPT ![c] = models]
    /\ bundle' = [bundle EXCEPT ![b].stage = "open", ![b].solo = Busy = {}]
    /\ UNCHANGED <<store, importing, installation, files>>

\* verify_installed returns the manifest that the artifacts are copied by.
VerifyModel(c, m) ==
    /\ Goto(c, "model", "manifestFile")
    /\ m \in rest[c]
    /\ Verified(m)
    /\ plan' = [plan EXCEPT ![c] = manifest[m].of]
    /\ UNCHANGED <<store, todo, back, bundle, installation, bundling>>

\* The manifest file is copied as it is now; the artifacts of other roles than
\* weights are always to be copied.
CopyManifest(c) ==
    /\ Goto(c, "manifestFile", "artifacts")
    /\ Amend(c, [Open(c) EXCEPT !.manifest[plan[c].model] = manifest[plan[c].model].of])
    /\ todo' = [todo EXCEPT ![c] = plan[c].others]
    /\ UNCHANGED <<store, plan, back, installation, bundling>>

CopyArtifact(c, d) ==
    /\ pc[c] = "artifacts"
    /\ d \in todo[c]
    /\ Amend(c, [Open(c) EXCEPT !.artifacts[plan[c].model] = @ \cup {blob[d]}])
    /\ todo' = [todo EXCEPT ![c] = @ \ {d}]
    /\ UNCHANGED <<store, pc, plan, back, installation, bundling>>

\* Is the file of the weights of m in bundle b?
HasWeights(b, m) == bundle[b].weights[m] # None

CopyWeights(c) ==
    /\ pc[c] = "artifacts"
    /\ plan[c].share
    /\ ~HasWeights(on[c], plan[c].model)
    /\ Amend(c, [Open(c) EXCEPT !.weights[plan[c].model] = blob[plan[c].weights]])
    /\ UNCHANGED <<store, pc, importing, installation, bundling>>

\* Mutant: the model is done before its artifacts are.
ModelCopied_Early(c) ==
    /\ Goto(c, "artifacts", "model")
    /\ rest' = [rest EXCEPT ![c] = @ \ {plan[c].model}]
    /\ plan' = [plan EXCEPT ![c] = None]
    /\ todo' = [todo EXCEPT ![c] = {}]
    /\ UNCHANGED <<store, back, bundle, installation, on, files>>

ModelCopied(c) ==
    /\ Goto(c, "artifacts", "model")
    /\ todo[c] = {}
    /\ plan[c].share => HasWeights(on[c], plan[c].model)
    /\ rest' = [rest EXCEPT ![c] = @ \ {plan[c].model}]
    /\ plan' = [plan EXCEPT ![c] = None]
    /\ UNCHANGED <<store, todo, back, bundle, installation, on, files>>

\* --include-runtime: the release current resolves to; releases do not change.
CopyRelease(c, include) ==
    /\ Goto(c, "model", "list")
    /\ rest[c] = {}
    /\ IF include
       THEN current # None /\ Amend(c, [Open(c) EXCEPT !.runtime = release[current]])
       ELSE UNCHANGED bundle
    /\ UNCHANGED <<store, importing, installation, bundling>>

\* BUNDLE.json and SHA256SUMS, from the files that are there.
List(c) ==
    /\ Goto(c, "list", "sign")
    /\ Amend(c, [Open(c) EXCEPT !.stage = "listed"])
    /\ UNCHANGED <<store, importing, installation, bundling>>

Sign(c) ==
    /\ pc[c] = "sign"
    /\ Amend(c, [Open(c) EXCEPT !.stage = "signed", !.solo = alone[c]])
    /\ Exit(c)
    /\ UNCHANGED <<store, installation>>

\* Any exception: a model that does not verify, no release, no space, no key.
Abandon(c) ==
    /\ pc[c] \in Creating
    /\ bundle' = [bundle EXCEPT ![on[c]] = NoBundle]
    /\ Exit(c)
    /\ UNCHANGED <<store, installation>>

CreateStep(c) ==
    /\ \/ \E m \in Models : VerifyModel(c, m)
       \/ CopyManifest(c)
       \/ CopyWeights(c)
       \/ \E d \in Digests : CopyArtifact(c, d)
       \/ ModelCopied(c)
       \/ \E include \in BOOLEAN : CopyRelease(c, include)
       \/ List(c)
       \/ Sign(c)
       \/ Abandon(c)
    /\ UNCHANGED observed

-----------------------------------------------------------------------------
(***************************************************************************)
(* verify, import_bundle and recover.                                      *)
(***************************************************************************)
\* Inventory, checksums and signature agree with the files.
Verifies(b) == bundle[b].stage = "signed" /\ bundle[b].intact

InBundle(b) == {m \in Models : bundle[b].manifest[m] # None}

\* import_model accepts the sources the bundle has for m.
SourcesMatch(b, m) ==
    /\ bundle[b].weights[m] = bundle[b].manifest[m].weights
    /\ bundle[b].manifest[m].others \subseteq bundle[b].artifacts[m]

Recover(c, b) ==
    /\ Verifies(b)
    /\ \A d \in Commands : ~RecoveryBusy(d)
    /\ Start(c, "nextModel")
    /\ on' = [on EXCEPT ![c] = b]
    /\ rest' = [rest EXCEPT ![c] = InBundle(b)]
    /\ UNCHANGED <<store, importing, bundle, installation, files>>

\* Mutant: a model is passed over although its weights are there.
SkipModel_Any(c, m) ==
    /\ pc[c] = "nextModel"
    /\ m \in rest[c]
    /\ rest' = [rest EXCEPT ![c] = @ \ {m}]
    /\ UNCHANGED <<store, pc, importing, bundle, installation, on, files>>

\* Weights that were not to be shared are not in the bundle; import_bundle
\* passes over such a model.  With the same file names, weights of another
\* version count as present.
SkipModel(c, m) ==
    /\ pc[c] = "nextModel"
    /\ m \in rest[c]
    /\ ~HasWeights(on[c], m)
    /\ rest' = [rest EXCEPT ![c] = @ \ {m}]
    /\ UNCHANGED <<store, pc, importing, bundle, installation, on, files>>

ImportModel(c, m) ==
    /\ pc[c] = "nextModel"
    /\ m \in rest[c]
    /\ HasWeights(on[c], m)
    /\ IF SourcesMatch(on[c], m)
       THEN LET v == bundle[on[c]].manifest[m] IN
            /\ pc' = [pc EXCEPT ![c] = "copy"]
            /\ plan' = [plan EXCEPT ![c] = v]
            /\ todo' = [todo EXCEPT ![c] = Artifacts(v)]
            /\ back' = [back EXCEPT ![c] = "nextModel"]
            /\ rest' = [rest EXCEPT ![c] = @ \ {m}]
            /\ UNCHANGED <<on, files>>
       ELSE Exit(c)
    /\ UNCHANGED <<store, bundle, installation>>

\* Mutant: a staging directory that a killed recovery has left is taken for
\* complete.
Install_Resumes(c) ==
    /\ pc[c] = "nextModel"
    /\ rest[c] = {}
    /\ IF bundle[on[c]].runtime = None
       THEN Exit(c)
       ELSE /\ pc' = [pc EXCEPT ![c] = IF release[on[c]] # None
                                       THEN "previous" ELSE "copyRuntime"]
            /\ files' = [files EXCEPT ![c] = IF staging[on[c]] = None
                                             THEN bundle[on[c]].runtime ELSE {}]
            /\ UNCHANGED <<importing, on, rest>>
    /\ UNCHANGED <<store, staging, bundle, release, current, previous>>

\* The runtime is asked for after the models have been imported.
Install(c) ==
    /\ pc[c] = "nextModel"
    /\ rest[c] = {}
    /\ IF bundle[on[c]].runtime = None
       THEN Exit(c) /\ UNCHANGED staging
       ELSE IF release[on[c]] # None
       THEN /\ pc' = [pc EXCEPT ![c] = "previous"]
            /\ UNCHANGED <<importing, bundling, staging>>
       ELSE /\ staging' = [staging EXCEPT ![on[c]] = None]
            /\ files' = [files EXCEPT ![c] = bundle[on[c]].runtime]
            /\ pc' = [pc EXCEPT ![c] = "copyRuntime"]
            /\ UNCHANGED <<importing, on, rest>>
    /\ UNCHANGED <<store, bundle, release, current, previous>>

CopyRuntimeFile(c, f) ==
    /\ pc[c] = "copyRuntime"
    /\ f \in files[c]
    /\ files' = [files EXCEPT ![c] = @ \ {f}]
    /\ staging' = [staging EXCEPT ![on[c]] = (IF @ = None THEN {} ELSE @) \cup {f}]
    /\ UNCHANGED <<store, pc, importing, bundle, release, current, previous, on, rest>>

RenameRelease(c) ==
    /\ Goto(c, "copyRuntime", "previous")
    /\ files[c] = {}
    /\ release' = [release EXCEPT ![on[c]] = staging[on[c]]]
    /\ staging' = [staging EXCEPT ![on[c]] = None]
    /\ UNCHANGED <<store, importing, bundle, current, previous, bundling>>

\* Mutant: previous is written once only.
KeepPrevious_Once(c) ==
    /\ Goto(c, "previous", "current")
    /\ previous' = IF previous = None THEN current ELSE previous
    /\ UNCHANGED <<store, importing, bundle, release, staging, current, bundling>>

KeepPrevious(c) ==
    /\ Goto(c, "previous", "current")
    /\ previous' = IF current = None THEN previous ELSE current
    /\ UNCHANGED <<store, importing, bundle, release, staging, current, bundling>>

SwitchCurrent(c) ==
    /\ pc[c] = "current"
    /\ current' = on[c]
    /\ Exit(c)
    /\ UNCHANGED <<store, bundle, release, staging, previous>>

RecoverStep(c) ==
    /\ \/ \E m \in Models : SkipModel(c, m) \/ ImportModel(c, m)
       \/ Install(c)
       \/ \E f \in RuntimeFiles : CopyRuntimeFile(c, f)
       \/ RenameRelease(c)
       \/ KeepPrevious(c)
       \/ SwitchCurrent(c)
    /\ UNCHANGED observed

-----------------------------------------------------------------------------
\* A command is killed between two steps.
Kill(c) ==
    /\ pc[c] # "idle"
    /\ kills < MaxKills
    /\ kills' = kills + 1
    /\ Exit(c)
    /\ UNCHANGED <<store, bundle, installation, alone, started, mapped, wiped>>

\* A bundle on its medium loses a file or a file changes.
Damage(b) ==
    /\ bundle[b].stage = "signed"
    /\ \A c \in Commands : on[c] # b
    /\ bundle' = [bundle EXCEPT ![b].intact = FALSE]
    /\ UNCHANGED <<storeVars, installation, bundling, mapped, wiped>>

\* pds4 gpu assign; no other command writes the map.
MapGpus ==
    /\ ~mapped
    /\ mapped' = TRUE
    /\ UNCHANGED <<storeVars, bundle, installation, bundling, wiped>>

\* The bundles are carried to a machine with nothing on it.
NewMachine ==
    /\ Busy = {}
    /\ wiped < Wipes
    /\ wiped' = wiped + 1
    /\ blob' = [d \in Digests |-> None]
    /\ manifest' = [m \in Models |-> None]
    /\ link' = [m \in Models |-> None]
    /\ release' = [r \in Releases |-> None]
    /\ staging' = [r \in Releases |-> None]
    /\ directories' = {}
    /\ current' = None
    /\ previous' = None
    /\ mapped' = FALSE
    /\ UNCHANGED <<pc, importing, observed, bundle, bundling>>

Command(c) ==
    \/ /\ StoreStep(c)
       /\ IF pc'[c] = "idle" THEN Drop(c) ELSE UNCHANGED bundling
       /\ UNCHANGED <<bundle, installation>>
    \/ \E b \in Bundles, models \in SUBSET Models : Create(c, b, models)
    \/ CreateStep(c)
    \/ \E b \in Bundles : Recover(c, b)
    \/ RecoverStep(c)

\* The operator is done.
Done ==
    /\ Busy = {}
    /\ started = MaxStarts
    /\ UNCHANGED vars

Next ==
    \/ \E c \in Commands : Command(c) /\ UNCHANGED <<mapped, wiped>>
    \/ \E c \in Commands : Kill(c)
    \/ \E b \in Bundles : Damage(b)
    \/ MapGpus
    \/ NewMachine
    \/ Done

Spec == Init /\ [][Next]_vars

-----------------------------------------------------------------------------
\* inspect of pds4/doctor.py: a map of the GPUs, a release, models, and behind
\* each directory of a model one that verifies.
Healthy ==
    /\ mapped
    /\ current # None
    /\ directories # {}
    /\ \A m \in directories : Verified(m)

\* The directories that imports have left which were killed before the manifest.
Leftovers == {m \in directories : manifest[m] = None}

Steps == {"idle", "copy", "link", "promote"} \cup Creating \cup Recovering

TypeOK ==
    /\ StoreTypeOK
    /\ pc \in [Commands -> Steps]
    /\ back \in [Commands -> {"idle", "nextModel"}]
    /\ bundle \in [Bundles -> Bundle]
    /\ release \in [Releases -> (SUBSET RuntimeFiles) \cup {None}]
    /\ staging \in [Releases -> (SUBSET RuntimeFiles) \cup {None}]
    /\ {current, previous} \subseteq Releases \cup {None}
    /\ mapped \in BOOLEAN
    /\ on \in [Commands -> Bundles \cup {None}]
    /\ rest \in [Commands -> SUBSET Models]
    /\ files \in [Commands -> SUBSET RuntimeFiles]
    /\ wiped \in 0..Wipes

Importable(b) ==
    \A m \in InBundle(b) : HasWeights(b, m) => SourcesMatch(b, m)

\* A bundle that verifies and that was created while nothing else ran can be
\* imported: its manifests are those of the artifacts beside them.
SoloBundleImports ==
    \A b \in Bundles : Verifies(b) /\ bundle[b].solo => Importable(b)

\* The links never point at a release that lacks a file, although a recovery
\* may be killed at any step and repeated over what it has left.
LinksComplete ==
    \A r \in {current, previous} \ {None} : release[r] = RuntimeFiles

\* Whatever release stops being current can be gone back to: it is the previous
\* one, also when an earlier recovery was killed between the two links.
WayBack ==
    [][(current # current' /\ None \notin {current, current'})
            => previous' = current]_vars

\* A recovery that no other command has overlapped ends with every model whose
\* weights the bundle has installed, verified and linked, and its own release
\* complete and current, whatever killed commands had left behind.  The doctor
\* is then content, if the GPUs have been mapped, which a recovery does not do,
\* and if no import was killed in the new directory of a model that the bundle
\* does not bring, which a recovery does not clear away.
RecoveryDelivers ==
    [][\A c \in Commands :
          (pc[c] = "current" /\ pc'[c] = "idle" /\ alone[c] /\ kills' = kills)
              => LET b == on[c]
                     imported == {m \in InBundle(b) : HasWeights(b, m)} IN
                 /\ current' = b
                 /\ release'[b] = RuntimeFiles
                 /\ \A m \in imported :
                       /\ manifest'[m] # None
                       /\ manifest'[m].of = bundle[b].manifest[m]
                       /\ link'[m] = bundle[b].manifest[m].weights
                 /\ (mapped /\ imported # {} /\ Leftovers \subseteq imported) => Healthy']_vars
===============================================================================
