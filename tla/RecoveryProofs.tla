---------------------------- MODULE RecoveryProofs ----------------------------
(***************************************************************************)
(* Proofs about the model store and the recovery bundles, for any number   *)
(* of commands, models, versions, bundles and files, and any number of     *)
(* kills: what the store names is there, the release links are complete,   *)
(* there is a way back, and what nothing overlaps delivers.                *)
(***************************************************************************)
EXTENDS Recovery, TLAPS

-----------------------------------------------------------------------------
(***************************************************************************)
(* The store.                                                              *)
(***************************************************************************)
\* Where a command works from a manifest all of whose blobs are there.
Sure == {"link", "promote", "manifestFile", "artifacts"}

ManifestsOwn == \A m \in Models : manifest[m] # None => manifest[m].of.model = m

\* What a command has established about the manifest it works from.
PlanInv ==
    \A c \in Commands :
        /\ pc[c] \in Sure \cup {"copy"} => plan[c] \in Manifests
        /\ pc[c] = "copy" => \A d \in Artifacts(plan[c]) : d \in todo[c] \/ blob[d] = d
        /\ pc[c] \in Sure => \A d \in Artifacts(plan[c]) : blob[d] = d
        /\ pc[c] \in {"manifestFile", "artifacts"} => manifest[plan[c].model] # None
        /\ pc[c] = "artifacts" => todo[c] \subseteq Artifacts(plan[c])

StoreInv ==
    /\ StoreTypeOK
    /\ pc \in [Commands -> Steps]
    /\ AddressedContent
    /\ InstalledVerifies
    /\ LinkReachesBlob
    /\ ManifestsOwn
    /\ PlanInv

\* What holds of bundles and of the commands that make or recover them: no two
\* commands make one bundle, only one recovers, and what it recovers is signed.
BundleInv ==
    /\ back \in [Commands -> {"idle", "nextModel"}]
    /\ bundle \in [Bundles -> Bundle]
    /\ on \in [Commands -> Bundles \cup {None}]
    /\ rest \in [Commands -> SUBSET Models]
    /\ \A c \in Commands : pc[c] \notin {"copy", "link"} => back[c] = "idle"
    /\ \A c \in Commands : pc[c] \in Creating =>
          on[c] \in Bundles /\ bundle[on[c]].stage \in {"open", "listed"}
    /\ \A c, d \in Commands :
          c # d /\ pc[c] \in Creating /\ pc[d] \in Creating => on[c] # on[d]
    /\ \A c \in Commands : RecoveryBusy(c) =>
          /\ on[c] \in Bundles
          /\ bundle[on[c]].stage = "signed"
          /\ rest[c] \subseteq InBundle(on[c])
    /\ \A c, d \in Commands : RecoveryBusy(c) /\ RecoveryBusy(d) => c = d

ReleaseTypes ==
    /\ release \in [Releases -> {None, RuntimeFiles}]
    /\ staging \in [Releases -> (SUBSET RuntimeFiles) \cup {None}]
    /\ {current, previous} \subseteq Releases \cup {None}
    /\ files \in [Commands -> SUBSET RuntimeFiles]
    /\ wiped \in 0..Wipes

\* A release is complete from its rename on; half a runtime is only in a staging
\* directory, and what is missing there is what the command has still to copy.
ReleaseInv ==
    /\ ReleaseTypes
    /\ LinksComplete
    /\ \A b \in Bundles : bundle[b].runtime \in {None, RuntimeFiles}
    /\ \A c \in Commands : pc[c] = "copyRuntime" =>
          IF staging[on[c]] = None THEN files[c] = RuntimeFiles
                                   ELSE staging[on[c]] \cup files[c] = RuntimeFiles
    /\ \A c \in Commands : pc[c] \in {"previous", "current"} =>
          release[on[c]] = RuntimeFiles
    /\ \A c \in Commands : pc[c] = "current" => current = None \/ previous = current

RecoveryInv == StoreInv /\ BundleInv /\ ReleaseInv

LEMMA ArtifactsType ==
  ASSUME NEW v \in Manifests
  PROVE  /\ v.model \in Models /\ v.weights \in Digests /\ v.others \subseteq Digests
         /\ v.weights \in Artifacts(v) /\ Artifacts(v) \subseteq Digests
  BY ManifestAssumption DEF ValidManifest, Artifacts

LEMMA StoreInvInit == Init => StoreInv
  <1> SUFFICES ASSUME Init PROVE StoreInv
    OBVIOUS
  <1> USE DEF Init, StoreInit
  <1>1. /\ blob \in [Digests -> Digests \cup {Garbage, None}]
        /\ manifest \in [Models -> Installed \cup {None}]
        /\ link \in [Models -> Digests \cup {None}] /\ directories \subseteq Models
        /\ AddressedContent /\ InstalledVerifies /\ LinkReachesBlob /\ ManifestsOwn
    <2> USE DEF AddressedContent, InstalledVerifies, LinkReachesBlob, ManifestsOwn
    <2>1. CASE Empty
      BY <2>1 DEF Empty
    <2>2. CASE \E v \in Manifests : Holding(v)
      <3> PICK v \in Manifests : Holding(v)
        BY <2>2
      <3>1. [of |-> v, status |-> "verified"] \in Installed
        BY DEF Installed
      <3>2. v.model \in Models /\ v.weights \in Digests
            /\ v.weights \in Artifacts(v) /\ Artifacts(v) \subseteq Digests
        BY ArtifactsType
      <3> QED
        BY <3>1, <3>2, ContentAssumption DEF Holding, Verified
    <2> QED
      BY <2>1, <2>2
  <1>2. StoreTypeOK /\ pc \in [Commands -> Steps]
    BY <1>1, BoundAssumption DEF StoreTypeOK, Steps
  <1>3. PlanInv
    BY DEF PlanInv, Sure
  <1> QED
    BY <1>1, <1>2, <1>3 DEF StoreInv

\* A step of c that leaves the store alone keeps the invariant if what it makes
\* of its own place and plan does.
LEMMA StoreFrame ==
  ASSUME StoreInv, NEW c \in Commands, UNCHANGED store,
         \A d \in Commands \ {c} : /\ pc'[d] = pc[d] /\ plan'[d] = plan[d]
                                   /\ todo'[d] = todo[d],
         StoreTypeOK', pc' \in [Commands -> Steps],
         \/ pc'[c] \notin Sure \cup {"copy"}
         \/ /\ plan'[c] \in Manifests
            /\ pc'[c] = "copy" =>
                  \A d \in Artifacts(plan'[c]) : d \in todo'[c] \/ blob[d] = d
            /\ pc'[c] \in Sure => \A d \in Artifacts(plan'[c]) : blob[d] = d
            /\ pc'[c] \in {"manifestFile", "artifacts"} =>
                  manifest[plan'[c].model] # None
            /\ pc'[c] = "artifacts" => todo'[c] \subseteq Artifacts(plan'[c])
  PROVE  StoreInv'
  <1>1. blob' = blob /\ manifest' = manifest /\ link' = link
    BY DEF store
  <1>2. AddressedContent' /\ InstalledVerifies' /\ LinkReachesBlob' /\ ManifestsOwn'
    BY <1>1 DEF StoreInv, AddressedContent, InstalledVerifies, LinkReachesBlob,
                ManifestsOwn, Verified
  <1>3. PlanInv'
    <2> SUFFICES ASSUME NEW e \in Commands
                 PROVE
        /\ pc'[e] \in Sure \cup {"copy"} => plan'[e] \in Manifests
        /\ pc'[e] = "copy" => \A d \in Artifacts(plan'[e]) : d \in todo'[e] \/ blob'[d] = d
        /\ pc'[e] \in Sure => \A d \in Artifacts(plan'[e]) : blob'[d] = d
        /\ pc'[e] \in {"manifestFile", "artifacts"} => manifest'[plan'[e].model] # None
        /\ pc'[e] = "artifacts" => todo'[e] \subseteq Artifacts(plan'[e])
      BY DEF PlanInv, Artifacts
    <2>1. CASE e = c
      BY <1>1, <2>1 DEF Sure
    <2>2. CASE e # c
      BY <1>1, <2>2 DEF StoreInv, PlanInv, Artifacts
    <2> QED
      BY <2>1, <2>2
  <1> QED
    BY <1>2, <1>3 DEF StoreInv

LEMMA ImportInv ==
  ASSUME StoreInv, NEW c \in Commands, NEW v \in Manifests, Import(c, v)
  PROVE  StoreInv'
  <1> USE DEF Import, Start
  <1>1. StoreTypeOK' /\ pc' \in [Commands -> Steps]
    <2>1. Artifacts(v) \subseteq Digests
      BY ArtifactsType
    <2>2. alone' \in [Commands -> BOOLEAN]
      OBVIOUS
    <2>3. started' \in 0..MaxStarts
      BY BoundAssumption DEF StoreInv, StoreTypeOK
    <2> QED
      BY <2>1, <2>2, <2>3 DEF StoreInv, StoreTypeOK, Steps, store
  <1>2. pc'[c] = "copy" /\ plan'[c] = v /\ todo'[c] = Artifacts(v)
    BY DEF StoreInv, StoreTypeOK
  <1> QED
    BY <1>1, <1>2, StoreFrame DEF StoreInv, StoreTypeOK, Sure

LEMMA KeepBlobInv ==
  ASSUME StoreInv, NEW c \in Commands, NEW d \in Digests, KeepBlob(c, d),
         UNCHANGED observed
  PROVE  StoreInv'
  <1> USE DEF KeepBlob
  <1>1. StoreTypeOK' /\ pc' \in [Commands -> Steps]
    BY DEF StoreInv, StoreTypeOK, store, observed
  <1>2. pc'[c] = "copy" /\ plan'[c] = plan[c] /\ todo'[c] = todo[c] \ {d}
    BY DEF StoreInv, StoreTypeOK
  <1>3. plan[c] \in Manifests
        /\ \A e \in Artifacts(plan[c]) : e \in todo[c] \/ blob[e] = e
    BY DEF StoreInv, PlanInv
  <1> QED
    BY <1>1, <1>2, <1>3, StoreFrame DEF StoreInv, StoreTypeOK, Sure

LEMMA CopyBlobInv ==
  ASSUME StoreInv, NEW c \in Commands, NEW d \in Digests, NEW content \in Sources(d),
         CopyBlob(c, d, content), UNCHANGED observed
  PROVE  StoreInv'
  <1> USE DEF CopyBlob
  <1>1. CASE content = d
    <2>1. /\ blob' = [blob EXCEPT ![d] = d] /\ todo' = [todo EXCEPT ![c] = @ \ {d}]
          /\ UNCHANGED <<manifest, link, directories, pc, plan, back>>
      BY <1>1
    <2>2. StoreTypeOK' /\ pc' \in [Commands -> Steps]
      BY <2>1 DEF StoreInv, StoreTypeOK, observed
    <2>3. \A e \in Digests : blob[e] = e => blob'[e] = e
      BY <2>1 DEF StoreInv, StoreTypeOK
    <2>4. blob'[d] = d
      BY <2>1 DEF StoreInv, StoreTypeOK
    <2>5. AddressedContent' /\ LinkReachesBlob' /\ ManifestsOwn'
      BY <2>1, <2>3 DEF StoreInv, StoreTypeOK, AddressedContent, LinkReachesBlob,
                        ManifestsOwn
    <2>6. \A m \in Models : manifest[m] # None => manifest[m].of \in Manifests
      BY DEF StoreInv, StoreTypeOK, Installed
    <2>7. InstalledVerifies'
      BY <2>1, <2>3, <2>6, ArtifactsType DEF StoreInv, InstalledVerifies, Verified
    <2>8. PlanInv'
      <3> SUFFICES ASSUME NEW e \in Commands
                   PROVE
          /\ pc[e] \in Sure \cup {"copy"} => plan[e] \in Manifests
          /\ pc[e] = "copy" => \A x \in Artifacts(plan[e]) : x \in todo'[e] \/ blob'[x] = x
          /\ pc[e] \in Sure => \A x \in Artifacts(plan[e]) : blob'[x] = x
          /\ pc[e] \in {"manifestFile", "artifacts"} => manifest[plan[e].model] # None
          /\ pc[e] = "artifacts" => todo'[e] \subseteq Artifacts(plan[e])
        BY <2>1 DEF PlanInv, Artifacts
      <3>1. plan[e] \in Manifests => Artifacts(plan[e]) \subseteq Digests
        BY ArtifactsType
      <3>2. \A x \in Digests : x \in todo[e] => x \in todo'[e] \/ x = d
        BY <2>1 DEF StoreInv, StoreTypeOK
      <3>3. todo'[e] \subseteq todo[e]
        BY <2>1 DEF StoreInv, StoreTypeOK
      <3> QED
        BY <2>3, <2>4, <3>1, <3>2, <3>3 DEF StoreInv, PlanInv, Sure
    <2> QED
      BY <2>2, <2>5, <2>7, <2>8 DEF StoreInv
  <1>2. CASE content # d
    <2>1. Forget(c) /\ UNCHANGED store
      BY <1>2
    <2>2. StoreTypeOK' /\ pc' \in [Commands -> Steps]
      BY <2>1 DEF StoreInv, StoreTypeOK, Forget, store, observed, Steps
    <2>3. pc'[c] = "idle"
      BY <2>1 DEF StoreInv, Forget
    <2> QED
      BY <2>1, <2>2, <2>3, StoreFrame DEF Forget, Sure, StoreInv, StoreTypeOK
  <1> QED
    BY <1>1, <1>2

LEMMA ManifestWritten ==
  ASSUME StoreInv, NEW c \in Commands, NEW status \in {"verified", "promoted"},
         plan[c] \in Manifests,
         \A d \in Artifacts(plan[c]) : blob[d] = d,
         manifest' = [manifest EXCEPT ![plan[c].model] =
                          [of |-> plan[c], status |-> status]],
         UNCHANGED <<blob, link>>
  PROVE  /\ manifest' \in [Models -> Installed \cup {None}]
         /\ AddressedContent' /\ InstalledVerifies' /\ LinkReachesBlob' /\ ManifestsOwn'
         /\ \A m \in Models : manifest[m] # None => manifest'[m] # None
  <1> DEFINE w == [of |-> plan[c], status |-> status]
  <1>1. w \in Installed /\ w # None
    BY ContentAssumption DEF Installed
  <1>2. plan[c].model \in Models
    BY ArtifactsType
  <1>3. manifest'[plan[c].model] = w
        /\ \A m \in Models \ {plan[c].model} : manifest'[m] = manifest[m]
    BY <1>2 DEF StoreInv, StoreTypeOK
  <1>4. manifest' \in [Models -> Installed \cup {None}]
    BY <1>1, <1>2 DEF StoreInv, StoreTypeOK
  <1>5. AddressedContent' /\ LinkReachesBlob'
    BY DEF StoreInv, AddressedContent, LinkReachesBlob
  <1>6. ManifestsOwn'
    BY <1>3 DEF StoreInv, ManifestsOwn
  <1>7. InstalledVerifies'
    <2> SUFFICES ASSUME NEW m \in Models, manifest'[m] # None
                 PROVE  \A d \in Artifacts(manifest'[m].of) : blob[d] = d
      BY DEF InstalledVerifies, Verified, Artifacts
    <2>1. CASE m = plan[c].model
      BY <1>3, <2>1
    <2>2. CASE m # plan[c].model
      BY <1>3, <2>2 DEF StoreInv, InstalledVerifies, Verified
    <2> QED
      BY <2>1, <2>2
  <1> HIDE DEF w
  <1> QED
    BY <1>1, <1>3, <1>4, <1>5, <1>6, <1>7

\* A step that only writes a manifest keeps what the commands know.
LEMMA PlanKept ==
  ASSUME StoreInv, NEW c \in Commands,
         \A d \in Commands \ {c} : /\ pc'[d] = pc[d] /\ plan'[d] = plan[d]
                                   /\ todo'[d] = todo[d],
         \A m \in Models : manifest[m] # None => manifest'[m] # None,
         blob' = blob,
         pc'[c] \in {"idle", "nextModel", "link"},
         pc'[c] = "link" => /\ plan'[c] \in Manifests
                            /\ \A d \in Artifacts(plan'[c]) : blob[d] = d
  PROVE  PlanInv'
  <1> SUFFICES ASSUME NEW e \in Commands
               PROVE
      /\ pc'[e] \in Sure \cup {"copy"} => plan'[e] \in Manifests
      /\ pc'[e] = "copy" => \A d \in Artifacts(plan'[e]) : d \in todo'[e] \/ blob'[d] = d
      /\ pc'[e] \in Sure => \A d \in Artifacts(plan'[e]) : blob'[d] = d
      /\ pc'[e] \in {"manifestFile", "artifacts"} => manifest'[plan'[e].model] # None
      /\ pc'[e] = "artifacts" => todo'[e] \subseteq Artifacts(plan'[e])
    BY DEF PlanInv, Artifacts
  <1>1. CASE e = c
    BY <1>1 DEF Sure
  <1>2. CASE e # c
    <2>1. plan[e] \in Manifests => plan[e].model \in Models
      BY ArtifactsType
    <2> QED
      BY <1>2, <2>1 DEF StoreInv, PlanInv, Sure
  <1> QED
    BY <1>1, <1>2

LEMMA MakeDirectoryInv ==
  ASSUME StoreInv, NEW c \in Commands, MakeDirectory(c), UNCHANGED observed
  PROVE  StoreInv'
  <1> USE DEF MakeDirectory, importing, observed
  <1>1. plan[c].model \in Models
    BY ArtifactsType DEF StoreInv, PlanInv
  <1>2. StoreTypeOK' /\ pc' \in [Commands -> Steps]
    BY <1>1 DEF StoreInv, StoreTypeOK
  <1>3. AddressedContent' /\ InstalledVerifies' /\ LinkReachesBlob' /\ ManifestsOwn'
    BY DEF StoreInv, AddressedContent, InstalledVerifies, Verified, LinkReachesBlob,
           ManifestsOwn
  <1>4. PlanInv'
    BY DEF StoreInv, PlanInv
  <1> QED
    BY <1>2, <1>3, <1>4 DEF StoreInv

LEMMA WriteManifestInv ==
  ASSUME StoreInv, NEW c \in Commands, WriteManifest(c), UNCHANGED observed
  PROVE  StoreInv'
  <1> USE DEF WriteManifest, Goto
  <1>1. plan[c] \in Manifests /\ \A d \in Artifacts(plan[c]) : blob[d] = d
    BY DEF StoreInv, PlanInv
  <1>2. /\ manifest' \in [Models -> Installed \cup {None}]
        /\ AddressedContent' /\ InstalledVerifies' /\ LinkReachesBlob' /\ ManifestsOwn'
        /\ \A m \in Models : manifest[m] # None => manifest'[m] # None
    BY <1>1, ManifestWritten
  <1>3. StoreTypeOK' /\ pc' \in [Commands -> Steps]
    BY <1>2 DEF StoreInv, StoreTypeOK, Steps, observed, importing
  <1>4. pc'[c] = "link" /\ plan'[c] = plan[c]
    BY DEF StoreInv, importing
  <1>5. PlanInv'
    BY <1>1, <1>2, <1>4, PlanKept DEF StoreInv, StoreTypeOK, importing
  <1> QED
    BY <1>2, <1>3, <1>5 DEF StoreInv

LEMMA WritePromotionInv ==
  ASSUME StoreInv, NEW c \in Commands, WritePromotion(c), UNCHANGED observed
  PROVE  StoreInv'
  <1> USE DEF WritePromotion, Forget
  <1>1. plan[c] \in Manifests /\ \A d \in Artifacts(plan[c]) : blob[d] = d
    BY DEF StoreInv, PlanInv, Sure
  <1>2. /\ manifest' \in [Models -> Installed \cup {None}]
        /\ AddressedContent' /\ InstalledVerifies' /\ LinkReachesBlob' /\ ManifestsOwn'
        /\ \A m \in Models : manifest[m] # None => manifest'[m] # None
    BY <1>1, ManifestWritten
  <1>3. StoreTypeOK' /\ pc' \in [Commands -> Steps]
    BY <1>2 DEF StoreInv, StoreTypeOK, Steps, observed
  <1>4. pc'[c] = "idle"
    BY DEF StoreInv
  <1>5. PlanInv'
    BY <1>2, <1>4, PlanKept DEF StoreInv, StoreTypeOK
  <1> QED
    BY <1>2, <1>3, <1>5 DEF StoreInv

LEMMA LinkInv ==
  ASSUME StoreInv, BundleInv, NEW c \in Commands, Link(c), UNCHANGED observed
  PROVE  StoreInv'
  <1> USE DEF Link, Goto
  <1>1. plan[c] \in Manifests /\ \A d \in Artifacts(plan[c]) : blob[d] = d
    BY DEF StoreInv, PlanInv, Sure
  <1>2. /\ plan[c].model \in Models /\ plan[c].weights \in Digests
        /\ blob[plan[c].weights] = plan[c].weights
    BY <1>1, ArtifactsType
  <1>3. back[c] \in {"idle", "nextModel"}
    BY DEF BundleInv
  <1>4. StoreTypeOK' /\ pc' \in [Commands -> Steps]
    BY <1>2, <1>3 DEF StoreInv, StoreTypeOK, Steps, Recovering, observed
  <1>5. LinkReachesBlob'
    BY <1>2 DEF StoreInv, StoreTypeOK, LinkReachesBlob
  <1>6. AddressedContent' /\ InstalledVerifies' /\ ManifestsOwn'
    BY DEF StoreInv, AddressedContent, InstalledVerifies, ManifestsOwn, Verified
  <1>7. pc'[c] \in {"idle", "nextModel"}
    BY <1>3 DEF StoreInv
  <1>8. PlanInv'
    BY <1>7, PlanKept DEF StoreInv, StoreTypeOK
  <1> QED
    BY <1>4, <1>5, <1>6, <1>8 DEF StoreInv

LEMMA ReadForPromotionInv ==
  ASSUME StoreInv, NEW c \in Commands, NEW m \in Models, ReadForPromotion(c, m)
  PROVE  StoreInv'
  <1> USE DEF ReadForPromotion, Start
  <1>1. manifest[m].of \in Manifests
        /\ \A d \in Artifacts(manifest[m].of) : blob[d] = d
    BY DEF StoreInv, StoreTypeOK, Installed, InstalledVerifies, Verified
  <1>2. StoreTypeOK' /\ pc' \in [Commands -> Steps]
    <2>1. alone' \in [Commands -> BOOLEAN]
      OBVIOUS
    <2>2. started' \in 0..MaxStarts
      BY BoundAssumption DEF StoreInv, StoreTypeOK
    <2> QED
      BY <1>1, <2>1, <2>2 DEF StoreInv, StoreTypeOK, Steps, store
  <1>3. pc'[c] = "promote" /\ plan'[c] = manifest[m].of
    BY DEF StoreInv, StoreTypeOK
  <1> QED
    BY <1>1, <1>2, <1>3, StoreFrame DEF StoreInv, StoreTypeOK, Sure

\* A command that ends, whatever it was doing.
LEMMA ForgetInv ==
  ASSUME StoreInv, NEW c \in Commands, Forget(c), UNCHANGED <<store, alone, started>>,
         kills' \in 0..MaxKills
  PROVE  StoreInv'
  <1> USE DEF Forget
  <1>1. StoreTypeOK' /\ pc' \in [Commands -> Steps]
    BY DEF StoreInv, StoreTypeOK, Steps, store
  <1>2. pc'[c] = "idle"
    BY DEF StoreInv
  <1> QED
    BY <1>1, <1>2, StoreFrame DEF StoreInv, StoreTypeOK, Sure

\* A command that goes where nothing is known of the manifest it works from.
LEMMA WanderInv ==
  ASSUME StoreInv, NEW c \in Commands, NEW to \in Steps \ (Sure \cup {"copy"}),
         pc' = [pc EXCEPT ![c] = to], UNCHANGED <<store, todo, alone, started, kills>>,
         plan' \in [Commands -> Manifests \cup {None}],
         \A d \in Commands \ {c} : plan'[d] = plan[d]
  PROVE  StoreInv'
  <1>1. StoreTypeOK' /\ pc' \in [Commands -> Steps]
    BY DEF StoreInv, StoreTypeOK, store
  <1>2. pc'[c] = to
    BY DEF StoreInv
  <1> QED
    BY <1>1, <1>2, StoreFrame DEF StoreInv, StoreTypeOK

LEMMA StartInv ==
  ASSUME StoreInv, NEW c \in Commands, NEW step \in {"model", "nextModel"},
         Start(c, step), UNCHANGED <<store, importing>>
  PROVE  StoreInv'
  <1> USE DEF Start, importing
  <1>1. alone' \in [Commands -> BOOLEAN]
    OBVIOUS
  <1>2. started' \in 0..MaxStarts
    BY BoundAssumption DEF StoreInv, StoreTypeOK
  <1>3. StoreTypeOK' /\ pc' \in [Commands -> Steps]
    BY <1>1, <1>2 DEF StoreInv, StoreTypeOK, Steps, store, Creating, Recovering
  <1>4. pc'[c] = step
    BY DEF StoreInv
  <1> QED
    BY <1>3, <1>4, StoreFrame DEF StoreInv, StoreTypeOK, Sure

LEMMA CreateStepStoreInv ==
  ASSUME StoreInv, NEW c \in Commands, CreateStep(c)
  PROVE  StoreInv'
  <1> USE DEF importing, observed
  <1>1. ASSUME NEW m \in Models, VerifyModel(c, m)
        PROVE  StoreInv'
    <2> USE <1>1 DEF VerifyModel, Goto
    <2>1. /\ manifest[m].of \in Manifests /\ manifest[m].of.model = m
          /\ \A d \in Artifacts(manifest[m].of) : blob[d] = d
      BY DEF StoreInv, StoreTypeOK, Installed, Verified, ManifestsOwn
    <2>2. StoreTypeOK' /\ pc' \in [Commands -> Steps]
      BY <2>1, <1>1 DEF StoreInv, StoreTypeOK, Steps, Creating, store, CreateStep
    <2>3. pc'[c] = "manifestFile" /\ plan'[c] = manifest[m].of /\ manifest[m] # None
      BY DEF StoreInv, StoreTypeOK, Verified
    <2> QED
      BY <2>1, <2>2, <2>3, StoreFrame DEF StoreInv, StoreTypeOK, Sure
  <1>2. ASSUME CopyManifest(c)
        PROVE  StoreInv'
    <2> USE <1>2 DEF CopyManifest, Goto
    <2>1. /\ plan[c] \in Manifests /\ manifest[plan[c].model] # None
          /\ \A d \in Artifacts(plan[c]) : blob[d] = d
      BY DEF StoreInv, PlanInv, Sure
    <2> DEFINE all == plan[c].others
    <2>2. all \subseteq Artifacts(plan[c]) /\ Artifacts(plan[c]) \subseteq Digests
      BY <2>1, ArtifactsType DEF Artifacts
    <2>3. todo' = [todo EXCEPT ![c] = all]
      OBVIOUS
    <2> HIDE DEF all
    <2>4. StoreTypeOK' /\ pc' \in [Commands -> Steps]
      BY <2>2, <2>3 DEF StoreInv, StoreTypeOK, Steps, Creating, store, CreateStep
    <2>5. pc'[c] = "artifacts" /\ plan'[c] = plan[c] /\ todo'[c] = all
      BY <2>3 DEF StoreInv, StoreTypeOK
    <2> QED
      BY <2>1, <2>2, <2>3, <2>4, <2>5, StoreFrame DEF StoreInv, StoreTypeOK, Sure
  <1>3. ASSUME NEW d \in Digests, CopyArtifact(c, d)
        PROVE  StoreInv'
    <2> USE <1>3 DEF CopyArtifact
    <2>1. StoreTypeOK' /\ pc' \in [Commands -> Steps]
      BY DEF StoreInv, StoreTypeOK, store, CreateStep
    <2>2. pc'[c] = "artifacts" /\ plan'[c] = plan[c] /\ todo'[c] \subseteq todo[c]
      BY DEF StoreInv, StoreTypeOK
    <2>3. /\ plan[c] \in Manifests /\ manifest[plan[c].model] # None
          /\ \A e \in Artifacts(plan[c]) : blob[e] = e
          /\ todo[c] \subseteq Artifacts(plan[c])
      BY DEF StoreInv, PlanInv, Sure
    <2> QED
      BY <2>1, <2>2, <2>3, StoreFrame DEF StoreInv, StoreTypeOK, Sure
  <1>4. ASSUME ModelCopied(c)
        PROVE  StoreInv'
    BY <1>4, WanderInv DEF StoreInv, StoreTypeOK, ModelCopied, Goto, CreateStep,
                           Steps, Sure, Creating
  <1>5. ASSUME NEW include \in BOOLEAN, CopyRelease(c, include)
        PROVE  StoreInv'
    BY <1>5, WanderInv DEF StoreInv, StoreTypeOK, CopyRelease, Goto, CreateStep,
                           Steps, Sure, Creating
  <1>6. ASSUME List(c)
        PROVE  StoreInv'
    BY <1>6, WanderInv DEF StoreInv, StoreTypeOK, List, Goto, CreateStep,
                           Steps, Sure, Creating
  <1>7. ASSUME Sign(c) \/ Abandon(c)
        PROVE  StoreInv'
    BY <1>7, ForgetInv DEF StoreInv, StoreTypeOK, Sign, Abandon, Exit, CreateStep
  <1>8. ASSUME CopyWeights(c)
        PROVE  StoreInv'
    <2>1. /\ UNCHANGED <<store, pc, plan, todo, back>> /\ UNCHANGED observed
      BY <1>8 DEF CopyWeights, CreateStep
    <2> QED
      BY <2>1 DEF storeVars, store, importing, observed, StoreInv, StoreTypeOK,
                AddressedContent, InstalledVerifies, Verified, LinkReachesBlob,
                ManifestsOwn, PlanInv, Artifacts
  <1> QED
    BY <1>1, <1>2, <1>3, <1>4, <1>5, <1>6, <1>7, <1>8 DEF CreateStep

LEMMA RecoverStepStoreInv ==
  ASSUME StoreInv, BundleInv, NEW c \in Commands, RecoverStep(c)
  PROVE  StoreInv'
  <1> USE DEF importing, observed
  <1>0. /\ UNCHANGED observed /\ kills \in 0..MaxKills
        /\ {"nextModel", "copyRuntime", "previous", "current"} \subseteq
               Steps \ (Sure \cup {"copy"})
    BY DEF RecoverStep, StoreInv, StoreTypeOK, Steps, Sure, Recovering
  <1>1. ASSUME NEW m \in Models, SkipModel(c, m)
        PROVE  StoreInv'
    BY <1>0, <1>1, WanderInv DEF StoreInv, StoreTypeOK, SkipModel
  <1>2. ASSUME NEW m \in Models, ImportModel(c, m)
        PROVE  StoreInv'
    <2>1. CASE SourcesMatch(on[c], m)
      <3> DEFINE v == bundle[on[c]].manifest[m]
      <3>1. v \in Manifests
        BY <1>2, <2>1 DEF ImportModel, BundleInv, RecoveryBusy, Recovering, InBundle, Bundle
      <3>2. /\ pc' = [pc EXCEPT ![c] = "copy"] /\ plan' = [plan EXCEPT ![c] = v]
            /\ todo' = [todo EXCEPT ![c] = Artifacts(v)] /\ UNCHANGED store
        BY <1>2, <2>1 DEF ImportModel
      <3>3. Artifacts(v) \subseteq Digests
        BY <3>1, ArtifactsType
      <3> HIDE DEF v
      <3>4. StoreTypeOK' /\ pc' \in [Commands -> Steps]
        BY <1>0, <3>1, <3>2, <3>3 DEF StoreInv, StoreTypeOK, Steps, store
      <3>5. pc'[c] = "copy" /\ plan'[c] = v /\ todo'[c] = Artifacts(v)
        BY <3>2 DEF StoreInv, StoreTypeOK
      <3> QED
        BY <3>1, <3>2, <3>4, <3>5, StoreFrame DEF StoreInv, StoreTypeOK, Sure
    <2>2. CASE ~SourcesMatch(on[c], m)
      BY <1>0, <1>2, <2>2, ForgetInv DEF ImportModel, Exit
    <2> QED
      BY <2>1, <2>2
  <1>3. ASSUME Install(c)
        PROVE  StoreInv'
    <2>1. CASE bundle[on[c]].runtime = None
      BY <1>0, <1>3, <2>1, ForgetInv DEF Install, Exit
    <2>2. CASE bundle[on[c]].runtime # None
      BY <1>0, <1>3, <2>2, WanderInv DEF Install, StoreInv, StoreTypeOK
    <2> QED
      BY <2>1, <2>2
  <1>4. ASSUME NEW f \in RuntimeFiles, CopyRuntimeFile(c, f)
        PROVE  StoreInv'
    BY <1>0, <1>4, WanderInv DEF CopyRuntimeFile, StoreInv, StoreTypeOK
  <1>5. ASSUME RenameRelease(c)
        PROVE  StoreInv'
    BY <1>0, <1>5, WanderInv DEF RenameRelease, Goto, StoreInv, StoreTypeOK
  <1>6. ASSUME KeepPrevious(c)
        PROVE  StoreInv'
    BY <1>0, <1>6, WanderInv DEF KeepPrevious, Goto, StoreInv, StoreTypeOK
  <1>7. ASSUME SwitchCurrent(c)
        PROVE  StoreInv'
    BY <1>0, <1>7, ForgetInv DEF SwitchCurrent, Exit
  <1> QED
    BY <1>1, <1>2, <1>3, <1>4, <1>5, <1>6, <1>7 DEF RecoverStep

LEMMA NewMachineStoreInv ==
  ASSUME StoreInv, NewMachine
  PROVE  StoreInv'
  <1> USE DEF NewMachine, importing, observed
  <1>1. StoreTypeOK' /\ pc' \in [Commands -> Steps]
    BY DEF StoreInv, StoreTypeOK
  <1>2. AddressedContent' /\ InstalledVerifies' /\ LinkReachesBlob' /\ ManifestsOwn'
    BY DEF AddressedContent, InstalledVerifies, LinkReachesBlob, ManifestsOwn
  <1>3. PlanInv'
    BY DEF PlanInv, Busy, Sure
  <1> QED
    BY <1>1, <1>2, <1>3 DEF StoreInv

LEMMA StoreStepInv ==
  ASSUME StoreInv, BundleInv, NEW c \in Commands, StoreStep(c)
  PROVE  StoreInv'
  BY ImportInv, ReadForPromotionInv, KeepBlobInv, CopyBlobInv, MakeDirectoryInv, WriteManifestInv,
     LinkInv, WritePromotionInv
     DEF StoreStep, ImportStep

LEMMA StoreInvNext ==
  ASSUME StoreInv, BundleInv, [Next]_vars
  PROVE  StoreInv'
  <1>1. ASSUME NEW c \in Commands, StoreStep(c)
        PROVE  StoreInv'
    BY <1>1, StoreStepInv
  <1>2. ASSUME NEW c \in Commands, NEW b \in Bundles, NEW models \in SUBSET Models,
               Create(c, b, models)
        PROVE  StoreInv'
    BY <1>2, StartInv DEF Create
  <1>3. ASSUME NEW c \in Commands, CreateStep(c)
        PROVE  StoreInv'
    BY <1>3, CreateStepStoreInv
  <1>4. ASSUME NEW c \in Commands, NEW b \in Bundles, Recover(c, b)
        PROVE  StoreInv'
    BY <1>4, StartInv DEF Recover
  <1>5. ASSUME NEW c \in Commands, RecoverStep(c)
        PROVE  StoreInv'
    BY <1>5, RecoverStepStoreInv
  <1>6. ASSUME NEW c \in Commands, Kill(c)
        PROVE  StoreInv'
    <2>1. kills' \in 0..MaxKills
      BY <1>6, BoundAssumption DEF Kill, StoreInv, StoreTypeOK
    <2> QED
      BY <1>6, <2>1, ForgetInv DEF Kill, Exit
  <1>7. CASE UNCHANGED storeVars
    BY <1>7 DEF storeVars, store, importing, observed, StoreInv, StoreTypeOK,
                AddressedContent, InstalledVerifies, Verified, LinkReachesBlob,
                ManifestsOwn, PlanInv, Artifacts
  <1>8. CASE NewMachine
    BY <1>8, NewMachineStoreInv
  <1> QED
    BY <1>1, <1>2, <1>3, <1>4, <1>5, <1>6, <1>7, <1>8
       DEF Next, Command, Damage, MapGpus, Done, vars

-----------------------------------------------------------------------------
(***************************************************************************)
(* The bundles.                                                            *)
(***************************************************************************)
LEMMA NoBundleType == NoBundle \in Bundle
  <1>1. /\ [m \in Models |-> None] \in [Models -> Manifests \cup {None}]
        /\ [m \in Models |-> None] \in [Models -> Digests \cup {None}]
        /\ [m \in Models |-> {}] \in [Models -> SUBSET Digests]
    OBVIOUS
  <1>2. "absent" \in Stages
    BY DEF Stages
  <1> QED
    BY <1>1, <1>2 DEF NoBundle, Bundle

LEMMA BundleInvInit == Init => BundleInv
  <1> SUFFICES ASSUME Init PROVE BundleInv
    OBVIOUS
  <1> USE DEF Init, StoreInit
  <1> QED
    BY NoBundleType DEF BundleInv, RecoveryBusy, Recovering, Creating

\* A step of c disturbs no other command: it changes its own bundle only, or one
\* that is not there yet.
LEMMA BundleFrame ==
  ASSUME BundleInv, NEW c \in Commands,
         \A d \in Commands \ {c} : /\ pc'[d] = pc[d] /\ back'[d] = back[d]
                                   /\ on'[d] = on[d] /\ rest'[d] = rest[d],
         back' \in [Commands -> {"idle", "nextModel"}],
         bundle' \in [Bundles -> Bundle],
         on' \in [Commands -> Bundles \cup {None}],
         rest' \in [Commands -> SUBSET Models],
         pc'[c] \notin {"copy", "link"} => back'[c] = "idle",
         \A b \in Bundles : \/ bundle'[b] = bundle[b]
                            \/ bundle[b].stage = "absent"
                            \/ b = on[c] /\ pc[c] \in Creating,
         pc'[c] \in Creating =>
            /\ on'[c] \in Bundles
            /\ bundle'[on'[c]].stage \in {"open", "listed"}
            /\ \/ pc[c] \in Creating /\ on'[c] = on[c]
               \/ bundle[on'[c]].stage = "absent",
         RecoveryBusy(c)' =>
            /\ on'[c] \in Bundles
            /\ bundle'[on'[c]].stage = "signed"
            /\ rest'[c] \subseteq InBundle(on[c])'
            /\ RecoveryBusy(c) \/ \A d \in Commands : ~RecoveryBusy(d)
  PROVE  BundleInv'
  <1>1. ASSUME NEW d \in Commands \ {c}
        PROVE  RecoveryBusy(d)' <=> RecoveryBusy(d)
    BY DEF RecoveryBusy
  <1>2. ASSUME NEW d \in Commands \ {c}, pc[d] \in Creating \/ RecoveryBusy(d)
        PROVE  bundle'[on[d]] = bundle[on[d]] /\ on[d] \in Bundles
    <2>1. on[d] \in Bundles /\ bundle[on[d]].stage # "absent"
      BY <1>2 DEF BundleInv
    <2>2. CASE on[d] = on[c] /\ pc[c] \in Creating
      BY <1>2, <2>2 DEF BundleInv
    <2> QED
      BY <2>1, <2>2
  <1>3. \A d \in Commands : pc'[d] \notin {"copy", "link"} => back'[d] = "idle"
    BY DEF BundleInv
  <1>4. \A d \in Commands : pc'[d] \in Creating =>
           on'[d] \in Bundles /\ bundle'[on'[d]].stage \in {"open", "listed"}
    BY <1>2 DEF BundleInv
  <1>5. ASSUME NEW d \in Commands, NEW e \in Commands, d # e,
               pc'[d] \in Creating, pc'[e] \in Creating
        PROVE  on'[d] # on'[e]
    <2>1. CASE d # c /\ e # c
      BY <1>5, <2>1 DEF BundleInv
    <2>2. CASE d = c
      BY <1>2, <1>5, <2>2 DEF BundleInv
    <2>3. CASE e = c
      BY <1>2, <1>5, <2>3 DEF BundleInv
    <2> QED
      BY <2>1, <2>2, <2>3
  <1>6. ASSUME NEW d \in Commands, RecoveryBusy(d)'
        PROVE  /\ on'[d] \in Bundles
               /\ bundle'[on'[d]].stage = "signed"
               /\ rest'[d] \subseteq InBundle(on[d])'
    <2>1. CASE d = c
      BY <1>6, <2>1
    <2>2. CASE d # c
      <3>1. RecoveryBusy(d)
        BY <1>1, <1>6, <2>2
      <3>2. bundle'[on'[d]] = bundle[on[d]] /\ on'[d] = on[d] /\ rest'[d] = rest[d]
        BY <1>2, <2>2, <3>1
      <3>3. InBundle(on[d])' = InBundle(on[d])
        BY <3>2 DEF InBundle
      <3> QED
        BY <3>1, <3>2, <3>3 DEF BundleInv
    <2> QED
      BY <2>1, <2>2
  <1>7. ASSUME NEW d \in Commands, NEW e \in Commands,
               RecoveryBusy(d)', RecoveryBusy(e)'
        PROVE  d = e
    BY <1>1, <1>7 DEF BundleInv
  <1> QED
    BY <1>3, <1>4, <1>5, <1>6, <1>7 DEF BundleInv

LEMMA ExitBundle ==
  ASSUME StoreInv, BundleInv, NEW c \in Commands, Exit(c),
         bundle' \in [Bundles -> Bundle],
         \A b \in Bundles : bundle'[b] = bundle[b] \/ (b = on[c] /\ pc[c] \in Creating)
  PROVE  BundleInv'
  <1> USE DEF Exit, Forget, Drop
  <1>1. /\ back' \in [Commands -> {"idle", "nextModel"}]
        /\ on' \in [Commands -> Bundles \cup {None}]
        /\ rest' \in [Commands -> SUBSET Models]
    BY DEF BundleInv
  <1>2. pc'[c] = "idle" /\ back'[c] = "idle"
    BY DEF StoreInv, BundleInv
  <1>3. \A d \in Commands \ {c} : /\ pc'[d] = pc[d] /\ back'[d] = back[d]
                                  /\ on'[d] = on[d] /\ rest'[d] = rest[d]
    BY DEF StoreInv, BundleInv
  <1>4. pc'[c] \notin Creating /\ ~RecoveryBusy(c)'
    BY <1>2 DEF Creating, RecoveryBusy, Recovering
  <1> QED
    BY <1>1, <1>2, <1>3, <1>4, BundleFrame

LEMMA StoreStepBundle ==
  ASSUME StoreInv, BundleInv, NEW c \in Commands, StoreStep(c),
         IF pc'[c] = "idle" THEN Drop(c) ELSE UNCHANGED bundling,
         UNCHANGED bundle
  PROVE  BundleInv'
  <1> USE DEF bundling
  <1>1. /\ on' \in [Commands -> Bundles \cup {None}]
        /\ rest' \in [Commands -> SUBSET Models]
        /\ \A d \in Commands \ {c} : on'[d] = on[d] /\ rest'[d] = rest[d]
        /\ pc'[c] # "idle" => on'[c] = on[c] /\ rest'[c] = rest[c]
    BY DEF BundleInv, Drop
  <1> DEFINE Moves(from, to, kept) ==
               /\ pc[c] = from
               /\ pc' = [pc EXCEPT ![c] = to]
               /\ back' = IF kept THEN back ELSE [back EXCEPT ![c] = "idle"]
  <1>3. \/ UNCHANGED <<pc, back>>
        \/ Moves("idle", "copy", TRUE) \/ Moves("idle", "promote", TRUE)
        \/ Moves("copy", "link", TRUE) \/ Moves("copy", "idle", FALSE)
        \/ Moves("link", back[c], FALSE) \/ Moves("promote", "idle", FALSE)
    BY DEF StoreStep, Import, ReadForPromotion, ImportStep, KeepBlob, CopyBlob, MakeDirectory,
           WriteManifest, Link, WritePromotion, Start, Goto, Forget, importing
  <1>4. back' \in [Commands -> {"idle", "nextModel"}]
    BY <1>3 DEF BundleInv
  <1>5. \A d \in Commands \ {c} : pc'[d] = pc[d] /\ back'[d] = back[d]
    BY <1>3 DEF StoreInv, BundleInv
  <1>6. /\ pc[c] \in {"idle", "copy", "link", "promote"}
        /\ pc'[c] \in {"idle", "copy", "link", "promote", "nextModel"}
        /\ pc'[c] \notin {"copy", "link"} => back'[c] = "idle"
        /\ pc'[c] = "nextModel" => pc[c] = "link" /\ back[c] = "nextModel"
        /\ pc'[c] \in {"copy", "link"} =>
              back'[c] = back[c] /\ (pc[c] \in {"copy", "link"} \/ back[c] = "idle")
    <2>1. pc[c] \in {"idle", "copy", "link", "promote"}
      BY DEF StoreStep, Import, ReadForPromotion, ImportStep, KeepBlob, CopyBlob, MakeDirectory,
             MakeDirectory, WriteManifest, Link, WritePromotion, Start, Goto
    <2>2. pc[c] \notin {"copy", "link"} => back[c] = "idle"
      BY DEF BundleInv
    <2>3. back[c] \in {"idle", "nextModel"}
      BY DEF BundleInv
    <2> QED
      BY <1>3, <2>1, <2>2, <2>3 DEF StoreInv, BundleInv
  <1>7. RecoveryBusy(c)' => RecoveryBusy(c)
    BY <1>6 DEF RecoveryBusy, Recovering
  <1>8. RecoveryBusy(c)' => pc'[c] # "idle"
    BY <1>6, <1>4 DEF RecoveryBusy, Recovering
  <1>9. InBundle(on[c])' = {m \in Models : bundle'[on'[c]].manifest[m] # None}
    BY DEF InBundle
  <1>10. RecoveryBusy(c)' => rest'[c] \subseteq InBundle(on[c])'
    BY <1>1, <1>7, <1>8, <1>9 DEF BundleInv, InBundle
  <1>11. pc'[c] \notin Creating
    BY <1>6 DEF Creating
  <1>12. RecoveryBusy(c)' => on'[c] \in Bundles /\ bundle'[on'[c]].stage = "signed"
    BY <1>1, <1>7, <1>8 DEF BundleInv
  <1> QED
    BY <1>1, <1>4, <1>5, <1>6, <1>7, <1>10, <1>11, <1>12, BundleFrame DEF BundleInv

LEMMA CreateBundle ==
  ASSUME StoreInv, BundleInv, NEW c \in Commands, NEW b \in Bundles,
         NEW models \in SUBSET Models, Create(c, b, models)
  PROVE  BundleInv'
  <1>1. /\ on' \in [Commands -> Bundles \cup {None}] /\ on'[c] = b
        /\ rest' \in [Commands -> SUBSET Models]
        /\ pc'[c] = "model" /\ back' = back /\ back[c] = "idle"
        /\ \A d \in Commands \ {c} : /\ pc'[d] = pc[d] /\ back'[d] = back[d]
                                     /\ on'[d] = on[d] /\ rest'[d] = rest[d]
    BY DEF StoreInv, BundleInv, Create, Start, importing
  <1>2. bundle' = [bundle EXCEPT ![b] = [@ EXCEPT !.stage = "open", !.solo = Busy = {}]]
        /\ bundle[b].stage = "absent"
    BY DEF Create
  <1>3. /\ bundle' \in [Bundles -> Bundle] /\ bundle'[b].stage = "open"
        /\ \A d \in Bundles \ {b} : bundle'[d] = bundle[d]
    <2>1. bundle[b] \in Bundle
      BY DEF BundleInv
    <2> DEFINE new == [bundle[b] EXCEPT !.stage = "open", !.solo = Busy = {}]
    <2>2. new \in Bundle /\ new.stage = "open"
      BY <2>1 DEF Bundle, Stages
    <2>3. bundle' = [bundle EXCEPT ![b] = new]
      BY <1>2
    <2> HIDE DEF new
    <2> QED
      BY <2>2, <2>3 DEF BundleInv
  <1>4. ~RecoveryBusy(c)'
    BY <1>1 DEF RecoveryBusy, Recovering
  <1>5. back' \in [Commands -> {"idle", "nextModel"}]
    BY <1>1 DEF BundleInv
  <1>6. \A d \in Bundles : bundle'[d] = bundle[d] \/ bundle[d].stage = "absent"
    BY <1>2, <1>3
  <1>7. /\ on'[c] \in Bundles /\ bundle'[on'[c]].stage \in {"open", "listed"}
        /\ bundle[on'[c]].stage = "absent"
    BY <1>1, <1>2, <1>3
  <1> QED
    BY <1>1, <1>3, <1>4, <1>5, <1>6, <1>7, BundleFrame

\* Inside create only the bundle of the command changes, and it stays open.
LEMMA AmendBundle ==
  ASSUME StoreInv, BundleInv, NEW c \in Commands, pc[c] \in Creating,
         NEW to \in Creating, pc' = [pc EXCEPT ![c] = to],
         UNCHANGED <<back, on>>,
         rest' \in [Commands -> SUBSET Models],
         \A d \in Commands \ {c} : rest'[d] = rest[d],
         NEW changed \in Bundle, changed.stage \in {"open", "listed"},
         bundle' = [bundle EXCEPT ![on[c]] = changed]
  PROVE  BundleInv'
  <1>1. on[c] \in Bundles
    BY DEF BundleInv
  <1>2. /\ pc'[c] = to /\ back[c] = "idle"
        /\ \A d \in Commands \ {c} : pc'[d] = pc[d]
    BY DEF StoreInv, BundleInv, Creating
  <1>3. /\ bundle' \in [Bundles -> Bundle]
        /\ bundle'[on[c]] = changed
        /\ \A b \in Bundles \ {on[c]} : bundle'[b] = bundle[b]
    BY <1>1 DEF BundleInv
  <1>4. ~RecoveryBusy(c)'
    BY <1>2 DEF RecoveryBusy, Recovering, Creating
  <1> QED
    BY <1>1, <1>2, <1>3, <1>4, BundleFrame DEF BundleInv, Creating

LEMMA CreateStepBundle ==
  ASSUME StoreInv, BundleInv, ReleaseTypes, NEW c \in Commands, CreateStep(c)
  PROVE  BundleInv'
  <1> USE DEF importing, bundling
  <1>0. pc[c] \in Creating /\ on[c] \in Bundles
        /\ bundle[on[c]] \in Bundle /\ bundle[on[c]].stage \in {"open", "listed"}
    BY DEF CreateStep, VerifyModel, CopyManifest, CopyArtifact, CopyWeights, ModelCopied,
           CopyRelease, List, Sign, Abandon, Goto, Creating, BundleInv
  <1>1. bundle = [bundle EXCEPT ![on[c]] = Open(c)] /\ Open(c) = bundle[on[c]]
    BY DEF Open, BundleInv
  <1>2. pc[c] = "artifacts" => pc = [pc EXCEPT ![c] = "artifacts"]
    BY DEF StoreInv
  <1>3. {"model", "manifestFile", "artifacts", "list", "sign"} \subseteq Creating
    BY DEF Creating
  <1>4. rest \in [Commands -> SUBSET Models]
    BY DEF BundleInv
  <1>5. ASSUME NEW m \in Models, VerifyModel(c, m)
        PROVE  BundleInv'
    BY <1>0, <1>1, <1>3, <1>4, <1>5, AmendBundle DEF VerifyModel, Goto
  <1>6. ASSUME CopyManifest(c)
        PROVE  BundleInv'
    <2> DEFINE new == [Open(c) EXCEPT !.manifest[plan[c].model] =
                                          manifest[plan[c].model].of]
    <2>1. plan[c] \in Manifests /\ manifest[plan[c].model] # None
      BY <1>6 DEF CopyManifest, Goto, StoreInv, PlanInv, Sure
    <2>2. plan[c].model \in Models /\ manifest[plan[c].model].of \in Manifests
      BY <2>1, ArtifactsType DEF StoreInv, StoreTypeOK, Installed
    <2>3. new \in Bundle /\ new.stage = bundle[on[c]].stage
      BY <1>0, <1>1, <2>2 DEF Bundle
    <2>4. bundle' = [bundle EXCEPT ![on[c]] = new]
      BY <1>6 DEF CopyManifest, Amend
    <2> HIDE DEF new
    <2> QED
      BY <1>0, <1>3, <1>4, <1>6, <2>3, <2>4, AmendBundle DEF CopyManifest, Goto
  <1>7. ASSUME NEW d \in Digests, CopyArtifact(c, d)
        PROVE  BundleInv'
    <2> DEFINE new == [Open(c) EXCEPT !.artifacts[plan[c].model] = @ \cup {blob[d]}]
    <2>1. /\ plan[c] \in Manifests /\ blob[d] \in Digests
      BY <1>7 DEF CopyArtifact, StoreInv, PlanInv, Sure
    <2>2. plan[c].model \in Models
      BY <2>1, ArtifactsType
    <2>3. new \in Bundle /\ new.stage = bundle[on[c]].stage
      BY <1>0, <1>1, <2>1, <2>2 DEF Bundle
    <2>4. bundle' = [bundle EXCEPT ![on[c]] = new]
      BY <1>7 DEF CopyArtifact, Amend
    <2> HIDE DEF new
    <2> QED
      BY <1>0, <1>2, <1>3, <1>4, <1>7, <2>3, <2>4, AmendBundle DEF CopyArtifact
  <1>8. ASSUME ModelCopied(c)
        PROVE  BundleInv'
    BY <1>0, <1>1, <1>3, <1>4, <1>8, AmendBundle DEF ModelCopied, Goto
  <1>9. ASSUME NEW include \in BOOLEAN, CopyRelease(c, include)
        PROVE  BundleInv'
    <2>1. CASE include
      <3> DEFINE new == [Open(c) EXCEPT !.runtime = release[current]]
      <3>1. release[current] \in (SUBSET RuntimeFiles) \cup {None}
        BY <1>9, <2>1 DEF CopyRelease, ReleaseTypes
      <3>2. new \in Bundle /\ new.stage = bundle[on[c]].stage
        BY <1>0, <1>1, <3>1 DEF Bundle
      <3>3. bundle' = [bundle EXCEPT ![on[c]] = new]
        BY <1>9, <2>1 DEF CopyRelease, Amend
      <3> HIDE DEF new
      <3> QED
        BY <1>0, <1>3, <1>4, <1>9, <3>2, <3>3, AmendBundle DEF CopyRelease, Goto
    <2>2. CASE ~include
      BY <1>0, <1>1, <1>3, <1>4, <1>9, <2>2, AmendBundle DEF CopyRelease, Goto
    <2> QED
      BY <2>1, <2>2
  <1>10. ASSUME List(c)
        PROVE  BundleInv'
    <2> DEFINE new == [Open(c) EXCEPT !.stage = "listed"]
    <2>1. new \in Bundle /\ new.stage = "listed"
      BY <1>0, <1>1 DEF Bundle, Stages
    <2>2. bundle' = [bundle EXCEPT ![on[c]] = new]
      BY <1>10 DEF List, Amend
    <2> HIDE DEF new
    <2> QED
      BY <1>0, <1>3, <1>4, <1>10, <2>1, <2>2, AmendBundle DEF List, Goto
  <1>11. ASSUME Sign(c)
        PROVE  BundleInv'
    <2> DEFINE new == [Open(c) EXCEPT !.stage = "signed", !.solo = alone[c]]
    <2>1. new \in Bundle
      BY <1>0, <1>1 DEF Bundle, Stages, StoreInv, StoreTypeOK
    <2>2. bundle' = [bundle EXCEPT ![on[c]] = new] /\ Exit(c)
      BY <1>11 DEF Sign, Amend
    <2> HIDE DEF new
    <2> QED
      BY <1>0, <2>1, <2>2, ExitBundle DEF BundleInv
  <1>12. ASSUME Abandon(c)
        PROVE  BundleInv'
    <2>1. bundle' = [bundle EXCEPT ![on[c]] = NoBundle] /\ Exit(c)
      BY <1>12 DEF Abandon
    <2> QED
      BY <1>0, <2>1, NoBundleType, ExitBundle DEF BundleInv
  <1>13. ASSUME CopyWeights(c)
        PROVE  BundleInv'
    <2> DEFINE new == [Open(c) EXCEPT !.weights[plan[c].model] = blob[plan[c].weights]]
    <2>1. /\ plan[c] \in Manifests /\ blob[plan[c].weights] \in Digests
      BY <1>13, ArtifactsType DEF CopyWeights, StoreInv, PlanInv, Sure
    <2>2. plan[c].model \in Models
      BY <2>1, ArtifactsType
    <2>3. new \in Bundle /\ new.stage = bundle[on[c]].stage
      BY <1>0, <1>1, <2>1, <2>2 DEF Bundle
    <2>4. bundle' = [bundle EXCEPT ![on[c]] = new]
      BY <1>13 DEF CopyWeights, Amend
    <2> HIDE DEF new
    <2> QED
      BY <1>0, <1>2, <1>3, <1>4, <1>13, <2>3, <2>4, AmendBundle DEF CopyWeights
  <1> QED
    BY <1>5, <1>6, <1>7, <1>8, <1>9, <1>10, <1>11, <1>12, <1>13 DEF CreateStep

LEMMA RecoverBundle ==
  ASSUME StoreInv, BundleInv, NEW c \in Commands, NEW b \in Bundles, Recover(c, b)
  PROVE  BundleInv'
  <1>1. /\ on' \in [Commands -> Bundles \cup {None}] /\ on'[c] = b
        /\ pc'[c] = "nextModel" /\ back' = back /\ back[c] = "idle"
        /\ bundle' = bundle /\ bundle[b].stage = "signed"
        /\ \A d \in Commands : ~RecoveryBusy(d)
        /\ \A d \in Commands \ {c} : pc'[d] = pc[d] /\ on'[d] = on[d]
    BY DEF Recover, Start, Verifies, importing, StoreInv, BundleInv
  <1>2. /\ rest' \in [Commands -> SUBSET Models] /\ rest'[c] = InBundle(b)
        /\ \A d \in Commands \ {c} : rest'[d] = rest[d]
    BY DEF Recover, BundleInv, InBundle
  <1>3. InBundle(on[c])' = InBundle(b)
    BY <1>1 DEF InBundle
  <1>4. /\ back' \in [Commands -> {"idle", "nextModel"}]
        /\ bundle' \in [Bundles -> Bundle]
    BY <1>1 DEF BundleInv
  <1>5. pc'[c] \notin Creating
    BY <1>1 DEF Creating
  <1> QED
    BY <1>1, <1>2, <1>3, <1>4, <1>5, BundleFrame

\* Inside recover the bundle and the command's hold on it stay.
LEMMA RecoverMove ==
  ASSUME StoreInv, BundleInv, NEW c \in Commands, pc[c] \in Recovering,
         NEW to \in Recovering \cup {"copy"}, pc' = [pc EXCEPT ![c] = to],
         back' = IF to = "copy" THEN [back EXCEPT ![c] = "nextModel"] ELSE back,
         UNCHANGED <<bundle, on>>,
         rest' \in [Commands -> SUBSET Models],
         \A d \in Commands \ {c} : rest'[d] = rest[d],
         rest'[c] \subseteq rest[c]
  PROVE  BundleInv'
  <1>1. /\ pc'[c] = to
        /\ \A d \in Commands \ {c} : pc'[d] = pc[d] /\ back'[d] = back[d]
        /\ back' \in [Commands -> {"idle", "nextModel"}]
    BY DEF StoreInv, BundleInv
  <1>2. back[c] = "idle"
    BY DEF BundleInv, Recovering
  <1>3. pc'[c] # "copy" => back'[c] = "idle"
    BY <1>1, <1>2
  <1>4. RecoveryBusy(c)
    BY DEF RecoveryBusy
  <1>5. InBundle(on[c])' = InBundle(on[c])
    BY DEF InBundle
  <1>6. pc'[c] \notin Creating
    BY <1>1 DEF Creating, Recovering
  <1>7. /\ on \in [Commands -> Bundles \cup {None}] /\ bundle \in [Bundles -> Bundle]
        /\ on[c] \in Bundles /\ bundle[on[c]].stage = "signed"
        /\ rest[c] \subseteq InBundle(on[c])
    BY <1>4 DEF BundleInv
  <1>8. pc'[c] \notin {"copy", "link"} => back'[c] = "idle"
    BY <1>3
  <1> QED
    BY <1>1, <1>4, <1>5, <1>6, <1>7, <1>8, BundleFrame

LEMMA RecoverStepBundle ==
  ASSUME StoreInv, BundleInv, NEW c \in Commands, RecoverStep(c)
  PROVE  BundleInv'
  <1>1. /\ pc[c] \in Recovering
        /\ {"nextModel", "copyRuntime", "previous", "current"} \subseteq Recovering
        /\ "copy" \notin Recovering
        /\ rest \in [Commands -> SUBSET Models]
        /\ pc = [pc EXCEPT ![c] = pc[c]]
    BY DEF RecoverStep, SkipModel, ImportModel, Install, CopyRuntimeFile, RenameRelease,
           KeepPrevious, SwitchCurrent, Goto, Recovering, StoreInv, BundleInv
  <1>2. ASSUME Exit(c), UNCHANGED bundle
        PROVE  BundleInv'
    BY <1>2, ExitBundle DEF BundleInv
  <1>3. ASSUME NEW m \in Models, SkipModel(c, m)
        PROVE  BundleInv'
    <2>1. /\ UNCHANGED <<pc, back, bundle, on>>
          /\ rest' = [rest EXCEPT ![c] = @ \ {m}]
      BY <1>3 DEF SkipModel, importing
    <2>2. /\ rest' \in [Commands -> SUBSET Models]
          /\ \A d \in Commands \ {c} : rest'[d] = rest[d]
          /\ rest'[c] \subseteq rest[c]
      BY <1>1, <2>1
    <2> QED
      BY <1>1, <2>1, <2>2, RecoverMove
  <1>4. ASSUME NEW m \in Models, ImportModel(c, m), SourcesMatch(on[c], m)
        PROVE  BundleInv'
    <2>1. /\ UNCHANGED <<bundle, on>>
          /\ pc' = [pc EXCEPT ![c] = "copy"]
          /\ back' = [back EXCEPT ![c] = "nextModel"]
          /\ rest' = [rest EXCEPT ![c] = @ \ {m}]
      BY <1>4 DEF ImportModel
    <2>2. /\ rest' \in [Commands -> SUBSET Models]
          /\ \A d \in Commands \ {c} : rest'[d] = rest[d]
          /\ rest'[c] \subseteq rest[c]
      BY <1>1, <2>1
    <2> QED
      BY <1>1, <2>1, <2>2, RecoverMove
  <1>5. ASSUME NEW m \in Models, ImportModel(c, m), ~SourcesMatch(on[c], m)
        PROVE  BundleInv'
    BY <1>2, <1>5 DEF ImportModel
  <1>6. ASSUME Install(c)
        PROVE  BundleInv'
    <2>1. CASE bundle[on[c]].runtime = None
      BY <1>2, <1>6, <2>1 DEF Install
    <2>2. CASE bundle[on[c]].runtime # None
      BY <1>1, <1>6, <2>2, RecoverMove DEF Install, importing, bundling
    <2> QED
      BY <2>1, <2>2
  <1>7. ASSUME NEW f \in RuntimeFiles, CopyRuntimeFile(c, f)
        PROVE  BundleInv'
    BY <1>1, <1>7, RecoverMove DEF CopyRuntimeFile, importing
  <1>8. ASSUME RenameRelease(c) \/ KeepPrevious(c)
        PROVE  BundleInv'
    BY <1>1, <1>8, RecoverMove DEF RenameRelease, KeepPrevious, Goto, importing, bundling
  <1>9. ASSUME SwitchCurrent(c)
        PROVE  BundleInv'
    BY <1>2, <1>9 DEF SwitchCurrent
  <1> QED
    BY <1>3, <1>4, <1>5, <1>6, <1>7, <1>8, <1>9 DEF RecoverStep

LEMMA DamageBundle ==
  ASSUME BundleInv, NEW b \in Bundles, Damage(b)
  PROVE  BundleInv'
  <1> DEFINE new == [bundle[b] EXCEPT !.intact = FALSE]
  <1>0. bundle[b] \in Bundle
    BY DEF BundleInv
  <1>1. new \in Bundle /\ new.stage = bundle[b].stage /\ bundle' = [bundle EXCEPT ![b] = new]
    <2>1. new \in Bundle /\ new.stage = bundle[b].stage
      BY <1>0 DEF Bundle
    <2>2. bundle' = [bundle EXCEPT ![b] = new]
      BY DEF Damage
    <2> QED
      BY <2>1, <2>2
  <1> HIDE DEF new
  <1>2. /\ bundle' \in [Bundles -> Bundle]
        /\ \A d \in Bundles \ {b} : bundle'[d] = bundle[d]
    BY <1>1 DEF BundleInv
  <1>3. UNCHANGED <<pc, back, on, rest>> /\ \A c \in Commands : on[c] # b
    BY DEF Damage, storeVars, importing, bundling
  <1>4. \A c \in Commands : (RecoveryBusy(c)' <=> RecoveryBusy(c))
                           /\ (on[c] \in Bundles => InBundle(on[c])' = InBundle(on[c]))
    BY <1>2, <1>3 DEF RecoveryBusy, InBundle
  <1>5. \A c \in Commands : RecoveryBusy(c)' =>
          /\ on'[c] \in Bundles
          /\ bundle'[on'[c]].stage = "signed"
          /\ rest'[c] \subseteq InBundle(on[c])'
    BY <1>2, <1>3, <1>4 DEF BundleInv
  <1>6. \A c \in Commands : pc'[c] \in Creating =>
          on'[c] \in Bundles /\ bundle'[on'[c]].stage \in {"open", "listed"}
    BY <1>2, <1>3 DEF BundleInv
  <1>7. \A c, d \in Commands : RecoveryBusy(c)' /\ RecoveryBusy(d)' => c = d
    BY <1>4 DEF BundleInv
  <1> QED
    BY <1>2, <1>3, <1>5, <1>6, <1>7 DEF BundleInv

LEMMA BundleSame ==
  ASSUME BundleInv, UNCHANGED <<pc, back, bundle, on, rest>>
  PROVE  BundleInv'
  <1>1. \A c \in Commands : /\ RecoveryBusy(c)' <=> RecoveryBusy(c)
                           /\ InBundle(on[c])' = InBundle(on[c])
    BY DEF RecoveryBusy, InBundle
  <1> QED
    BY <1>1 DEF BundleInv

LEMMA BundleInvNext ==
  ASSUME StoreInv, BundleInv, ReleaseTypes, [Next]_vars
  PROVE  BundleInv'
  <1>1. ASSUME NEW c \in Commands, Kill(c)
        PROVE  BundleInv'
    BY <1>1, ExitBundle DEF Kill, BundleInv
  <1>2. CASE NewMachine \/ MapGpus \/ UNCHANGED vars
    BY <1>2, BundleSame DEF NewMachine, MapGpus, vars, storeVars, importing, bundling
  <1>3. ASSUME NEW c \in Commands, StoreStep(c),
               IF pc'[c] = "idle" THEN Drop(c) ELSE UNCHANGED bundling,
               UNCHANGED <<bundle, installation>>
        PROVE  BundleInv'
    BY <1>3, StoreStepBundle
  <1>4. ASSUME NEW c \in Commands, NEW b \in Bundles, NEW models \in SUBSET Models,
               Create(c, b, models)
        PROVE  BundleInv'
    BY <1>4, CreateBundle
  <1>5. ASSUME NEW c \in Commands, CreateStep(c) \/ RecoverStep(c)
        PROVE  BundleInv'
    BY <1>5, CreateStepBundle, RecoverStepBundle
  <1>6. ASSUME NEW c \in Commands, NEW b \in Bundles, Recover(c, b)
        PROVE  BundleInv'
    BY <1>6, RecoverBundle
  <1>7. ASSUME NEW b \in Bundles, Damage(b)
        PROVE  BundleInv'
    BY <1>7, DamageBundle
  <1>8. ASSUME NEW c \in Commands, Command(c)
        PROVE  BundleInv'
    BY <1>3, <1>4, <1>5, <1>6, <1>8 DEF Command
  <1> QED
    BY <1>1, <1>2, <1>7, <1>8 DEF Next, Done

-----------------------------------------------------------------------------
(***************************************************************************)
(* The releases.                                                           *)
(***************************************************************************)
LEMMA RuntimeFilesReal == RuntimeFiles # None /\ RuntimeFiles # {}
  BY ReleaseAssumption

LEMMA ReleaseInvInit == Init => ReleaseInv
  <1> SUFFICES ASSUME Init PROVE ReleaseInv
    OBVIOUS
  <1> USE DEF Init, StoreInit
  <1>1. ReleaseTypes
    BY WipeAssumption DEF ReleaseTypes, Releases
  <1>2. LinksComplete
    BY ReleaseAssumption DEF LinksComplete, Releases
  <1>3. \A b \in Bundles : bundle[b].runtime = None
    BY DEF NoBundle
  <1> QED
    BY <1>1, <1>2, <1>3 DEF ReleaseInv

\* A step that leaves the installation alone and takes no command to the steps
\* of the installation keeps the invariant.
LEMMA ReleaseFrame ==
  ASSUME ReleaseInv, UNCHANGED installation, wiped' \in 0..Wipes,
         files' \in [Commands -> SUBSET RuntimeFiles],
         \A b \in Bundles : bundle'[b].runtime \in {None, RuntimeFiles},
         \A c \in Commands :
            \/ pc'[c] \notin {"copyRuntime", "previous", "current"}
            \/ pc'[c] = pc[c] /\ on'[c] = on[c] /\ files'[c] = files[c]
  PROVE  ReleaseInv'
  <1>1. UNCHANGED <<release, staging, current, previous>>
    BY DEF installation
  <1>2. ReleaseTypes' /\ LinksComplete'
    BY <1>1 DEF ReleaseInv, ReleaseTypes, LinksComplete
  <1> QED
    BY <1>1, <1>2 DEF ReleaseInv

LEMMA StoreStepRelease ==
  ASSUME RecoveryInv, NEW c \in Commands, StoreStep(c), UNCHANGED <<bundle, installation, wiped>>,
         IF pc'[c] = "idle" THEN Drop(c) ELSE UNCHANGED bundling
  PROVE  ReleaseInv'
  <1> USE DEF RecoveryInv
  <1>1. \A d \in Commands \ {c} : pc'[d] = pc[d]
    BY DEF StoreStep, Import, ReadForPromotion, ImportStep, KeepBlob, CopyBlob, MakeDirectory,
           WriteManifest, Link, WritePromotion, Start, Goto, Forget, StoreInv
  <1>2. pc'[c] \notin {"copyRuntime", "previous", "current"}
    <2>1. back[c] \in {"idle", "nextModel"}
      BY DEF BundleInv
    <2> QED
      BY <2>1 DEF StoreStep, Import, ReadForPromotion, ImportStep, KeepBlob, CopyBlob, MakeDirectory,
             MakeDirectory, WriteManifest, Link, WritePromotion, Start, Goto, Forget, StoreInv
  <1>3. /\ files' \in [Commands -> SUBSET RuntimeFiles]
        /\ \A d \in Commands \ {c} : on'[d] = on[d] /\ files'[d] = files[d]
    BY DEF Drop, bundling, ReleaseInv, ReleaseTypes, BundleInv
  <1>4. wiped' \in 0..Wipes /\ \A b \in Bundles : bundle'[b].runtime \in {None, RuntimeFiles}
    BY DEF ReleaseInv, ReleaseTypes
  <1> QED
    BY <1>1, <1>2, <1>3, <1>4, ReleaseFrame

LEMMA ExitRelease ==
  ASSUME RecoveryInv, NEW c \in Commands, Exit(c), UNCHANGED <<installation, wiped>>,
         \A b \in Bundles : bundle'[b].runtime \in {None, RuntimeFiles}
  PROVE  ReleaseInv'
  <1> USE DEF RecoveryInv
  <1>1. /\ pc'[c] = "idle"
        /\ \A d \in Commands \ {c} : pc'[d] = pc[d] /\ on'[d] = on[d] /\ files'[d] = files[d]
        /\ files' \in [Commands -> SUBSET RuntimeFiles]
    BY DEF Exit, Forget, Drop, StoreInv, BundleInv, ReleaseInv, ReleaseTypes
  <1>2. wiped' \in 0..Wipes
    BY DEF ReleaseInv, ReleaseTypes
  <1> QED
    BY <1>1, <1>2, ReleaseFrame

LEMMA CreateStepRelease ==
  ASSUME RecoveryInv, NEW c \in Commands, CreateStep(c), UNCHANGED wiped
  PROVE  ReleaseInv'
  <1> USE DEF RecoveryInv
  <1>1. /\ pc[c] \in Creating /\ on[c] \in Bundles /\ Open(c) = bundle[on[c]]
        /\ bundle \in [Bundles -> Bundle]
        /\ \A b \in Bundles : bundle[b].runtime \in {None, RuntimeFiles}
    BY DEF CreateStep, VerifyModel, CopyManifest, CopyArtifact, CopyWeights, ModelCopied,
           CopyRelease, List, Sign, Abandon, Goto, Creating, BundleInv, ReleaseInv, Open
  <1>2. \A b \in Bundles : bundle'[b].runtime \in {None, RuntimeFiles}
    <2>1. CASE UNCHANGED bundle
      BY <1>1, <2>1
    <2>2. ASSUME NEW changed, changed.runtime \in {None, RuntimeFiles}, Amend(c, changed)
          PROVE  \A b \in Bundles : bundle'[b].runtime \in {None, RuntimeFiles}
      <3>1. bundle' = [bundle EXCEPT ![on[c]] = changed]
        BY <2>2 DEF Amend
      <3> QED
        BY <1>1, <2>2, <3>1
    <2>3. Open(c).runtime \in {None, RuntimeFiles} /\ Open(c) \in Bundle
      BY <1>1
    <2>4. CASE CopyManifest(c) \/ CopyWeights(c) \/ List(c) \/ Sign(c)
               \/ \E d \in Digests : CopyArtifact(c, d)
      <3> DEFINE Same(new) == new.runtime = Open(c).runtime
                 copied == [Open(c) EXCEPT !.manifest[plan[c].model] =
                                              manifest[plan[c].model].of]
                 heavy == [Open(c) EXCEPT !.weights[plan[c].model] = blob[plan[c].weights]]
                 more(d) == [Open(c) EXCEPT !.artifacts[plan[c].model] = @ \cup {blob[d]}]
                 listed == [Open(c) EXCEPT !.stage = "listed"]
                 signed == [Open(c) EXCEPT !.stage = "signed", !.solo = alone[c]]
      <3>1. Same(copied) /\ Same(heavy) /\ Same(listed) /\ Same(signed)
            /\ \A d \in Digests : Same(more(d))
        BY <2>3 DEF Bundle
      <3>2. \/ Amend(c, copied) \/ Amend(c, heavy) \/ Amend(c, listed) \/ Amend(c, signed)
            \/ \E d \in Digests : Amend(c, more(d))
        BY <2>4 DEF CopyManifest, CopyWeights, List, Sign, CopyArtifact
      <3> HIDE DEF copied, heavy, listed, signed, more
      <3> QED
        BY <2>2, <2>3, <3>1, <3>2
    <2>5. ASSUME CopyRelease(c, TRUE)
          PROVE  \A b \in Bundles : bundle'[b].runtime \in {None, RuntimeFiles}
      <3> DEFINE new == [Open(c) EXCEPT !.runtime = release[current]]
      <3>1. release[current] \in {None, RuntimeFiles} /\ Amend(c, new)
        BY <2>5 DEF CopyRelease, ReleaseInv, ReleaseTypes
      <3>2. new.runtime \in {None, RuntimeFiles}
        BY <2>3, <3>1 DEF Bundle
      <3> HIDE DEF new
      <3> QED
        BY <2>2, <3>1, <3>2
    <2>6. CASE Abandon(c)
      <3>1. bundle' = [bundle EXCEPT ![on[c]] = NoBundle] /\ NoBundle.runtime = None
        BY <2>6 DEF Abandon, NoBundle
      <3> QED
        BY <1>1, <3>1
    <2>7. UNCHANGED bundle \/ CopyManifest(c) \/ CopyWeights(c) \/ List(c) \/ Sign(c) \/ Abandon(c)
          \/ CopyRelease(c, TRUE) \/ \E d \in Digests : CopyArtifact(c, d)
      BY DEF CreateStep, VerifyModel, ModelCopied, CopyRelease
    <2> QED
      BY <2>1, <2>4, <2>5, <2>6, <2>7
  <1>3. CASE Sign(c) \/ Abandon(c)
    BY <1>2, <1>3, ExitRelease DEF Sign, Abandon
  <1>4. CASE ~Sign(c) /\ ~Abandon(c)
    <2>1. /\ UNCHANGED <<installation, on, files>>
          /\ pc'[c] \notin {"copyRuntime", "previous", "current"}
          /\ \A d \in Commands \ {c} : pc'[d] = pc[d]
      BY <1>4 DEF CreateStep, VerifyModel, CopyManifest, CopyArtifact, CopyWeights,
           ModelCopied, CopyRelease, List, Goto, importing, bundling, StoreInv
    <2>2. wiped' \in 0..Wipes /\ files' \in [Commands -> SUBSET RuntimeFiles]
      BY <2>1 DEF ReleaseInv, ReleaseTypes
    <2> QED
      BY <1>2, <2>1, <2>2, ReleaseFrame
  <1> QED
    BY <1>3, <1>4

LEMMA RecoverStepRelease ==
  ASSUME RecoveryInv, NEW c \in Commands, RecoverStep(c), UNCHANGED wiped
  PROVE  ReleaseInv'
  <1> USE DEF RecoveryInv
  <1>0. /\ bundle' = bundle /\ wiped' \in 0..Wipes
        /\ \A b \in Bundles : bundle'[b].runtime \in {None, RuntimeFiles}
        /\ pc \in [Commands -> Steps] /\ files \in [Commands -> SUBSET RuntimeFiles]
    BY DEF RecoverStep, SkipModel, ImportModel, Install, CopyRuntimeFile, RenameRelease,
           KeepPrevious, SwitchCurrent, ReleaseInv, ReleaseTypes, StoreInv, importing
  <1>1. /\ on[c] \in Bundles /\ on[c] \in Releases
        /\ \A d \in Commands \ {c} : pc[d] \notin Recovering
    BY DEF RecoverStep, SkipModel, ImportModel, Install, CopyRuntimeFile, RenameRelease,
           KeepPrevious, SwitchCurrent, Goto, BundleInv, RecoveryBusy, Recovering, Releases
  <1>2. ASSUME NEW m \in Models, SkipModel(c, m) \/ ImportModel(c, m)
        PROVE  ReleaseInv'
    <2>1. CASE Exit(c)
      BY <1>0, <1>2, <2>1, ExitRelease DEF SkipModel, ImportModel, ReleaseInv
    <2>2. CASE ~Exit(c)
      <3>1. /\ UNCHANGED <<installation, on, files>>
            /\ pc'[c] \in {"nextModel", "copy"}
            /\ \A d \in Commands \ {c} : pc'[d] = pc[d]
        BY <1>0, <1>2, <2>2 DEF SkipModel, ImportModel
      <3> QED
        BY <1>0, <3>1, ReleaseFrame DEF ReleaseInv
    <2> QED
      BY <2>1, <2>2
  <1>3. ASSUME Install(c)
        PROVE  ReleaseInv'
    <2>1. CASE bundle[on[c]].runtime = None
      <3>1. Exit(c) /\ UNCHANGED installation
        BY <1>3, <2>1 DEF Install, installation
      <3> QED
        BY <1>0, <3>1, ExitRelease
    <2>2. CASE bundle[on[c]].runtime # None /\ release[on[c]] # None
      <3>1. /\ UNCHANGED <<release, staging, current, previous, on, files>>
            /\ pc'[c] = "previous" /\ \A d \in Commands \ {c} : pc'[d] = pc[d]
        BY <1>0, <1>3, <2>2 DEF Install, bundling
      <3>2. release[on[c]] = RuntimeFiles
        BY <1>1, <2>2 DEF ReleaseInv, ReleaseTypes
      <3>3. ReleaseTypes' /\ LinksComplete'
        BY <1>0, <3>1 DEF ReleaseInv, ReleaseTypes, LinksComplete
      <3> QED
        BY <1>0, <1>1, <3>1, <3>2, <3>3 DEF ReleaseInv, Recovering
    <2>3. CASE bundle[on[c]].runtime # None /\ release[on[c]] = None
      <3>1. /\ UNCHANGED <<release, current, previous, on>>
            /\ staging' = [staging EXCEPT ![on[c]] = None]
            /\ files' = [files EXCEPT ![c] = bundle[on[c]].runtime]
            /\ pc'[c] = "copyRuntime" /\ \A d \in Commands \ {c} : pc'[d] = pc[d]
        BY <1>0, <1>3, <2>3 DEF Install
      <3>2. bundle[on[c]].runtime = RuntimeFiles
        BY <1>1, <2>3 DEF ReleaseInv
      <3>3. ReleaseTypes' /\ LinksComplete'
        BY <1>0, <1>1, <3>1, <3>2 DEF ReleaseInv, ReleaseTypes, LinksComplete
      <3>4. staging'[on[c]] = None /\ files'[c] = RuntimeFiles
        BY <1>0, <1>1, <3>1, <3>2 DEF ReleaseInv, ReleaseTypes
      <3> QED
        BY <1>0, <1>1, <3>1, <3>3, <3>4 DEF ReleaseInv, Recovering
    <2> QED
      BY <2>1, <2>2, <2>3
  <1>4. ASSUME NEW f \in RuntimeFiles, CopyRuntimeFile(c, f)
        PROVE  ReleaseInv'
    <2> DEFINE had == IF staging[on[c]] = None THEN {} ELSE staging[on[c]]
    <2>1. /\ UNCHANGED <<pc, release, current, previous, on>>
          /\ staging' = [staging EXCEPT ![on[c]] = had \cup {f}]
          /\ files' = [files EXCEPT ![c] = @ \ {f}]
          /\ pc[c] = "copyRuntime" /\ f \in files[c]
      BY <1>4 DEF CopyRuntimeFile
    <2>2. had \subseteq RuntimeFiles /\ had \cup files[c] = RuntimeFiles
      BY <1>0, <1>1, <2>1 DEF ReleaseInv, ReleaseTypes
    <2>3. ReleaseTypes' /\ LinksComplete'
      BY <1>0, <1>1, <2>1, <2>2 DEF ReleaseInv, ReleaseTypes, LinksComplete
    <2>4. staging'[on[c]] = had \cup {f} /\ files'[c] = files[c] \ {f}
      BY <1>0, <1>1, <2>1 DEF ReleaseInv, ReleaseTypes
    <2>5. staging'[on[c]] # None
      BY <2>2, <2>4, ReleaseAssumption
    <2>6. staging'[on[c]] \cup files'[c] = RuntimeFiles
      BY <2>1, <2>2, <2>4
    <2> QED
      BY <1>0, <1>1, <2>1, <2>3, <2>5, <2>6 DEF ReleaseInv, Recovering
  <1>5. ASSUME RenameRelease(c)
        PROVE  ReleaseInv'
    <2>1. /\ UNCHANGED <<current, previous, on, files>>
          /\ release' = [release EXCEPT ![on[c]] = staging[on[c]]]
          /\ staging' = [staging EXCEPT ![on[c]] = None]
          /\ pc[c] = "copyRuntime" /\ files[c] = {}
          /\ pc'[c] = "previous" /\ \A d \in Commands \ {c} : pc'[d] = pc[d]
      BY <1>0, <1>5 DEF RenameRelease, Goto, bundling
    <2>2. staging[on[c]] = RuntimeFiles
      <3>1. IF staging[on[c]] = None THEN files[c] = RuntimeFiles
                                     ELSE staging[on[c]] \cup files[c] = RuntimeFiles
        BY <2>1 DEF ReleaseInv
      <3> QED
        BY <2>1, <3>1, RuntimeFilesReal
    <2>3. ReleaseTypes' /\ LinksComplete' /\ release'[on[c]] = RuntimeFiles
      BY <1>0, <1>1, <2>1, <2>2 DEF ReleaseInv, ReleaseTypes, LinksComplete
    <2> QED
      BY <1>0, <1>1, <2>1, <2>3 DEF ReleaseInv, Recovering
  <1>6. ASSUME KeepPrevious(c)
        PROVE  ReleaseInv'
    <2>1. /\ UNCHANGED <<release, staging, current, on, files>>
          /\ previous' = IF current = None THEN previous ELSE current
          /\ pc[c] = "previous"
          /\ pc'[c] = "current" /\ \A d \in Commands \ {c} : pc'[d] = pc[d]
      BY <1>0, <1>6 DEF KeepPrevious, Goto, bundling
    <2>2. ReleaseTypes' /\ LinksComplete'
      BY <1>0, <2>1 DEF ReleaseInv, ReleaseTypes, LinksComplete
    <2>3. release[on[c]] = RuntimeFiles
      BY <2>1 DEF ReleaseInv
    <2> QED
      BY <1>0, <1>1, <2>1, <2>2, <2>3 DEF ReleaseInv, Recovering
  <1>7. ASSUME SwitchCurrent(c)
        PROVE  ReleaseInv'
    <2>1. /\ UNCHANGED <<release, staging, previous>>
          /\ current' = on[c] /\ pc[c] = "current"
          /\ files' = [files EXCEPT ![c] = {}]
          /\ pc'[c] = "idle" /\ \A d \in Commands \ {c} : pc'[d] = pc[d]
      BY <1>0, <1>7 DEF SwitchCurrent, Exit, Forget, Drop
    <2>2. ReleaseTypes' /\ LinksComplete'
      BY <1>0, <1>1, <2>1 DEF ReleaseInv, ReleaseTypes, LinksComplete
    <2>3. \A d \in Commands : pc'[d] \notin {"copyRuntime", "previous", "current"}
      BY <1>1, <2>1 DEF Recovering
    <2> QED
      BY <1>0, <2>2, <2>3 DEF ReleaseInv
  <1> QED
    BY <1>2, <1>3, <1>4, <1>5, <1>6, <1>7 DEF RecoverStep

LEMMA ReleaseInvNext ==
  ASSUME RecoveryInv, [Next]_vars
  PROVE  ReleaseInv'
  <1> USE DEF RecoveryInv
  <1>0. /\ wiped \in 0..Wipes /\ files \in [Commands -> SUBSET RuntimeFiles]
        /\ \A b \in Bundles : bundle[b].runtime \in {None, RuntimeFiles}
        /\ pc \in [Commands -> Steps] /\ on \in [Commands -> Bundles \cup {None}]
        /\ rest \in [Commands -> SUBSET Models]
    BY DEF StoreInv, BundleInv, ReleaseInv, ReleaseTypes
  <1>1. ASSUME NEW c \in Commands, Command(c), UNCHANGED wiped
        PROVE  ReleaseInv'
    <2>1. ASSUME NEW b \in Bundles, NEW models \in SUBSET Models, Create(c, b, models)
          PROVE  ReleaseInv'
      <3>1. /\ UNCHANGED <<installation, files>>
            /\ pc'[c] = "model"
            /\ \A d \in Commands \ {c} : pc'[d] = pc[d] /\ on'[d] = on[d]
        BY <1>0, <2>1 DEF Create, Start
      <3>2. \A d \in Bundles : bundle'[d].runtime \in {None, RuntimeFiles}
        <4> DEFINE new == [bundle[b] EXCEPT !.stage = "open", !.solo = Busy = {}]
        <4>1. bundle' = [bundle EXCEPT ![b] = new]
          BY <2>1 DEF Create
        <4>2. bundle \in [Bundles -> Bundle] /\ bundle[b] \in Bundle
          BY DEF BundleInv
        <4>3. new.runtime = bundle[b].runtime
          BY <4>2 DEF Bundle
        <4> HIDE DEF new
        <4> QED
          BY <1>0, <4>1, <4>2, <4>3
      <3> QED
        BY <1>0, <1>1, <3>1, <3>2, ReleaseFrame
    <2>2. ASSUME NEW b \in Bundles, Recover(c, b)
          PROVE  ReleaseInv'
      <3>1. /\ UNCHANGED <<installation, bundle, files>>
            /\ pc'[c] = "nextModel"
            /\ \A d \in Commands \ {c} : pc'[d] = pc[d] /\ on'[d] = on[d]
        BY <1>0, <2>2 DEF Recover, Start
      <3> QED
        BY <1>0, <1>1, <3>1, ReleaseFrame
    <2>3. ASSUME StoreStep(c), IF pc'[c] = "idle" THEN Drop(c) ELSE UNCHANGED bundling,
                 UNCHANGED <<bundle, installation>>
          PROVE  ReleaseInv'
      BY <1>1, <2>3, StoreStepRelease
    <2>4. ASSUME CreateStep(c) \/ RecoverStep(c)
          PROVE  ReleaseInv'
      BY <1>1, <2>4, CreateStepRelease, RecoverStepRelease
    <2> QED
      BY <1>1, <2>1, <2>2, <2>3, <2>4 DEF Command
  <1>2. ASSUME NEW c \in Commands, Kill(c)
        PROVE  ReleaseInv'
    BY <1>0, <1>2, ExitRelease DEF Kill
  <1>3. ASSUME NEW b \in Bundles, Damage(b)
        PROVE  ReleaseInv'
    <2>1. UNCHANGED <<pc, installation, on, files, wiped>>
      BY <1>3 DEF Damage, storeVars, bundling
    <2>2. \A d \in Bundles : bundle'[d].runtime \in {None, RuntimeFiles}
      <3> DEFINE new == [bundle[b] EXCEPT !.intact = FALSE]
      <3>1. bundle' = [bundle EXCEPT ![b] = new]
        BY <1>3 DEF Damage
      <3>2. bundle \in [Bundles -> Bundle] /\ bundle[b] \in Bundle
        BY DEF BundleInv
      <3>3. new.runtime = bundle[b].runtime
        BY <3>2 DEF Bundle
      <3> HIDE DEF new
      <3> QED
        BY <1>0, <3>1, <3>2, <3>3
    <2> QED
      BY <1>0, <2>1, <2>2, ReleaseFrame
  <1>4. CASE NewMachine
    <2>1. ReleaseTypes' /\ LinksComplete'
      BY <1>0, <1>4, WipeAssumption DEF NewMachine, ReleaseTypes, LinksComplete, bundling
    <2>2. bundle' = bundle /\ \A c \in Commands : pc'[c] = "idle"
      BY <1>4 DEF NewMachine, Busy
    <2> QED
      BY <1>0, <2>1, <2>2 DEF ReleaseInv
  <1>5. CASE MapGpus \/ UNCHANGED vars
    BY <1>0, <1>5, ReleaseFrame DEF MapGpus, vars, storeVars, bundling
  <1> QED
    BY <1>1, <1>2, <1>3, <1>4, <1>5 DEF Next, Done

-----------------------------------------------------------------------------
(***************************************************************************)
(* What nothing overlaps.  A command that runs alone finds the store as it *)
(* has left it: the manifest it copies into a bundle is the one it copies  *)
(* the artifacts by, the manifest it has written is in place when it turns *)
(* the links, and what a recovery has imported stays imported.             *)
(***************************************************************************)
AloneInv == \A c \in Commands : alone[c] => \A d \in Commands \ {c} : pc[d] = "idle"

\* The manifests of a bundle are those of the models they stand for; a bundle
\* that is not there holds nothing.
ManifestsInBundle ==
    \A b \in Bundles, m \in Models :
        /\ bundle[b].manifest[m] # None => bundle[b].manifest[m].model = m
        /\ bundle[b].stage = "absent" => bundle[b].manifest[m] = None /\ ~HasWeights(b, m)

\* create copies every model once, and the artifacts by its plan.
Copied(c) ==
    pc[c] \in Creating =>
        /\ pc[c] \in {"manifestFile", "artifacts"} => plan[c].model \in rest[c]
        /\ \A m \in rest[c] : HasWeights(on[c], m) => pc[c] = "artifacts" /\ m = plan[c].model
        /\ pc[c] = "artifacts" =>
              /\ bundle[on[c]].weights[plan[c].model] \in {None, plan[c].weights}
              /\ plan[c].others \subseteq bundle[on[c]].artifacts[plan[c].model] \cup todo[c]

\* When it is alone, the manifest beside them is that plan.
Matching(c) ==
    pc[c] \in Creating /\ alone[c] =>
        /\ pc[c] = "manifestFile" => manifest[plan[c].model].of = plan[c]
        /\ pc[c] = "artifacts" => bundle[on[c]].manifest[plan[c].model] = plan[c]
        /\ \A m \in InBundle(on[c]) :
              \/ pc[c] = "artifacts" /\ m = plan[c].model
              \/ HasWeights(on[c], m) => SourcesMatch(on[c], m)

Placed(c) ==
    alone[c] /\ pc[c] = "link" =>
        manifest[plan[c].model] = [of |-> plan[c], status |-> "verified"]

\* The models a recovery has handled are installed, but for the one in its hands;
\* it turns to the release when it has handled them all.
InPlace(b, m) ==
    /\ manifest[m] # None
    /\ manifest[m].of = bundle[b].manifest[m]
    /\ link[m] = bundle[b].manifest[m].weights
Imported(c) ==
    alone[c] /\ RecoveryBusy(c) =>
        /\ pc[c] \in {"copyRuntime", "previous", "current"} => rest[c] = {}
        /\ \A m \in InBundle(on[c]) \ rest[c] : HasWeights(on[c], m) =>
              IF pc[c] \in {"copy", "link"} /\ plan[c].model = m
              THEN plan[c] = bundle[on[c]].manifest[m]
              ELSE InPlace(on[c], m)

Signed ==
    \A b \in Bundles : bundle[b].stage = "signed" /\ bundle[b].solo => Importable(b)

SoloInv ==
    /\ AloneInv
    /\ ManifestsInBundle
    /\ Signed
    /\ \A c \in Commands : Copied(c) /\ Matching(c) /\ Placed(c) /\ Imported(c)

LEMMA SoloInit == Init => SoloInv
  <1> SUFFICES ASSUME Init PROVE SoloInv
    OBVIOUS
  <1> USE DEF Init, StoreInit
  <1>1. ManifestsInBundle /\ Signed
    BY DEF ManifestsInBundle, HasWeights, Signed, NoBundle
  <1>2. \A c \in Commands : Copied(c) /\ Matching(c) /\ Placed(c) /\ Imported(c)
    BY DEF Copied, Matching, Placed, Imported, Creating
  <1> QED
    BY <1>1, <1>2 DEF SoloInv, AloneInv

-----------------------------------------------------------------------------
(***************************************************************************)
(* Who is alone.                                                           *)
(***************************************************************************)
\* A step of a command leaves the memory of the others, and ends their solitude.
LEMMA OwnStep ==
  ASSUME RecoveryInv, NEW c \in Commands, Command(c) \/ Kill(c)
  PROVE  /\ \A d \in Commands \ {c} : /\ pc'[d] = pc[d] /\ plan'[d] = plan[d]
                                      /\ todo'[d] = todo[d] /\ back'[d] = back[d]
                                      /\ on'[d] = on[d] /\ rest'[d] = rest[d]
         /\ \/ alone' = alone /\ pc[c] # "idle"
            \/ alone' = [d \in Commands |-> d = c /\ Busy = {}] /\ pc[c] = "idle"
  <1> USE DEF RecoveryInv, StoreInv, StoreTypeOK, BundleInv
  <1>1. ASSUME NEW step, Start(c, step)
        PROVE  /\ alone' = [d \in Commands |-> d = c /\ Busy = {}] /\ pc[c] = "idle"
               /\ \A d \in Commands \ {c} : pc'[d] = pc[d]
    BY <1>1 DEF Start
  <1>2. ASSUME Forget(c)
        PROVE  \A d \in Commands \ {c} : /\ pc'[d] = pc[d] /\ plan'[d] = plan[d]
                                         /\ todo'[d] = todo[d] /\ back'[d] = back[d]
    BY <1>2 DEF Forget
  <1>3. ASSUME Drop(c) \/ UNCHANGED bundling
        PROVE  \A d \in Commands \ {c} : on'[d] = on[d] /\ rest'[d] = rest[d]
    BY <1>3 DEF Drop, bundling
  <1>4. ASSUME StoreStep(c), Drop(c) \/ UNCHANGED bundling
        PROVE  /\ \A d \in Commands \ {c} : /\ pc'[d] = pc[d] /\ plan'[d] = plan[d]
                                            /\ todo'[d] = todo[d] /\ back'[d] = back[d]
                                            /\ on'[d] = on[d] /\ rest'[d] = rest[d]
               /\ \/ alone' = alone /\ pc[c] # "idle"
                  \/ alone' = [d \in Commands |-> d = c /\ Busy = {}] /\ pc[c] = "idle"
    <2>1. CASE (\E v \in Manifests : Import(c, v)) \/ \E m \in Models : ReadForPromotion(c, m)
      BY <1>1, <1>3, <1>4, <2>1 DEF Import, ReadForPromotion
    <2>2. CASE ImportStep(c) \/ (WritePromotion(c) /\ UNCHANGED observed)
      <3>1. alone' = alone /\ pc[c] # "idle"
        BY <2>2 DEF ImportStep, KeepBlob, CopyBlob, MakeDirectory, WriteManifest, Link, Goto,
                    WritePromotion, observed
      <3>2. \A d \in Commands \ {c} : /\ pc'[d] = pc[d] /\ plan'[d] = plan[d]
                                      /\ todo'[d] = todo[d] /\ back'[d] = back[d]
        BY <1>2, <2>2 DEF ImportStep, KeepBlob, CopyBlob, MakeDirectory, WriteManifest, Link, Goto,
                    WritePromotion, importing
      <3> QED
        BY <1>3, <1>4, <3>1, <3>2
    <2> QED
      BY <1>4, <2>1, <2>2 DEF StoreStep
  <1>5. ASSUME NEW b \in Bundles,
               Recover(c, b) \/ \E models \in SUBSET Models : Create(c, b, models)
        PROVE  /\ \A d \in Commands \ {c} : /\ pc'[d] = pc[d] /\ plan'[d] = plan[d]
                                            /\ todo'[d] = todo[d] /\ back'[d] = back[d]
                                            /\ on'[d] = on[d] /\ rest'[d] = rest[d]
               /\ alone' = [d \in Commands |-> d = c /\ Busy = {}] /\ pc[c] = "idle"
    BY <1>1, <1>5 DEF Recover, Create, importing
  <1>6. ASSUME CreateStep(c)
        PROVE  /\ \A d \in Commands \ {c} : /\ pc'[d] = pc[d] /\ plan'[d] = plan[d]
                                            /\ todo'[d] = todo[d] /\ back'[d] = back[d]
                                            /\ on'[d] = on[d] /\ rest'[d] = rest[d]
               /\ alone' = alone /\ pc[c] # "idle"
    <2>1. alone' = alone /\ pc[c] # "idle"
      BY <1>6 DEF CreateStep, observed, VerifyModel, CopyManifest, CopyArtifact, CopyWeights,
                  ModelCopied, CopyRelease, List, Sign, Abandon, Goto, Creating
    <2>2. CASE Exit(c)
      BY <1>2, <1>3, <2>1, <2>2 DEF Exit
    <2>3. CASE ~Exit(c)
      BY <1>6, <2>1, <2>3 DEF CreateStep, VerifyModel, CopyManifest, CopyArtifact, CopyWeights,
                  ModelCopied, CopyRelease, List, Sign, Abandon, Goto, importing, bundling
    <2> QED
      BY <2>2, <2>3
  <1>7. ASSUME RecoverStep(c)
        PROVE  /\ \A d \in Commands \ {c} : /\ pc'[d] = pc[d] /\ plan'[d] = plan[d]
                                            /\ todo'[d] = todo[d] /\ back'[d] = back[d]
                                            /\ on'[d] = on[d] /\ rest'[d] = rest[d]
               /\ alone' = alone /\ pc[c] # "idle"
    <2>1. alone' = alone /\ pc[c] # "idle"
      BY <1>7 DEF RecoverStep, observed, SkipModel, ImportModel, Install, CopyRuntimeFile,
                  RenameRelease, KeepPrevious, SwitchCurrent, Goto
    <2>2. CASE Exit(c)
      BY <1>2, <1>3, <2>1, <2>2 DEF Exit
    <2>3. CASE ~Exit(c)
      BY <1>7, <2>1, <2>3 DEF RecoverStep, SkipModel, ImportModel, Install, CopyRuntimeFile,
                  RenameRelease, KeepPrevious, SwitchCurrent, Goto, importing, bundling
    <2> QED
      BY <2>2, <2>3
  <1>8. ASSUME Kill(c)
        PROVE  /\ \A d \in Commands \ {c} : /\ pc'[d] = pc[d] /\ plan'[d] = plan[d]
                                            /\ todo'[d] = todo[d] /\ back'[d] = back[d]
                                            /\ on'[d] = on[d] /\ rest'[d] = rest[d]
               /\ alone' = alone /\ pc[c] # "idle"
    BY <1>2, <1>3, <1>8 DEF Kill, Exit
  <1> QED
    BY <1>4, <1>5, <1>6, <1>7, <1>8 DEF Command

LEMMA AloneNext ==
  ASSUME RecoveryInv, AloneInv, NEW c \in Commands, Command(c) \/ Kill(c)
  PROVE  AloneInv' /\ \A d \in Commands \ {c} : ~alone'[d]
  <1>1. \A d \in Commands \ {c} : ~alone'[d]
    BY OwnStep DEF AloneInv
  <1>2. alone'[c] => \A d \in Commands \ {c} : pc[d] = "idle"
    BY OwnStep DEF AloneInv, Busy
  <1> QED
    BY <1>1, <1>2, OwnStep DEF AloneInv

\* So only what the command itself relies on, and the bundles, are to be looked at.
LEMMA SoloFrame ==
  ASSUME RecoveryInv, SoloInv, NEW c \in Commands, Command(c) \/ Kill(c),
         \A b \in Bundles : \/ bundle'[b] = bundle[b]
                            \/ bundle[b].stage = "absent"
                            \/ b = on[c] /\ pc[c] \in Creating,
         ManifestsInBundle', Signed',
         Copied(c)', Matching(c)', Placed(c)', Imported(c)'
  PROVE  SoloInv'
  <1>1. AloneInv' /\ \A d \in Commands \ {c} : ~alone'[d]
    BY AloneNext DEF SoloInv
  <1>2. ASSUME NEW d \in Commands \ {c} PROVE Copied(d)'
    <2>1. /\ pc'[d] = pc[d] /\ plan'[d] = plan[d] /\ todo'[d] = todo[d]
          /\ on'[d] = on[d] /\ rest'[d] = rest[d]
      BY OwnStep
    <2>2. pc[d] \in Creating => bundle'[on[d]] = bundle[on[d]]
      BY DEF RecoveryInv, BundleInv
    <2>3. Copied(d)
      BY DEF SoloInv
    <2> QED
      BY <2>1, <2>2, <2>3 DEF Copied, HasWeights
  <1>3. \A d \in Commands \ {c} : Matching(d)' /\ Placed(d)' /\ Imported(d)'
    BY <1>1 DEF Matching, Placed, Imported
  <1> QED
    BY <1>1, <1>2, <1>3 DEF SoloInv

\* A command that ends relies on nothing.
LEMMA SoloExit ==
  ASSUME RecoveryInv, SoloInv, NEW c \in Commands, Command(c) \/ Kill(c), Exit(c),
         \A b \in Bundles : bundle'[b] = bundle[b] \/ (b = on[c] /\ pc[c] \in Creating),
         ManifestsInBundle', Signed'
  PROVE  SoloInv'
  <1>1. pc'[c] = "idle"
    BY DEF Exit, Forget, RecoveryInv, StoreInv
  <1>2. back'[c] = "idle"
    BY DEF Exit, Forget, RecoveryInv, BundleInv
  <1>3. Copied(c)' /\ Matching(c)' /\ Placed(c)' /\ Imported(c)'
    BY <1>1, <1>2 DEF Copied, Matching, Placed, Imported, Creating, RecoveryBusy, Recovering
  <1> QED
    BY <1>3, SoloFrame

LEMMA BundlesSame ==
  ASSUME SoloInv, bundle' = bundle
  PROVE  ManifestsInBundle' /\ Signed'
  <1>1. \A b \in Bundles : Importable(b)' <=> Importable(b)
    BY DEF Importable, InBundle, HasWeights, SourcesMatch
  <1> QED
    BY <1>1 DEF SoloInv, ManifestsInBundle, Signed, HasWeights

-----------------------------------------------------------------------------
(***************************************************************************)
(* create, alone.                                                          *)
(***************************************************************************)
LEMMA Amending ==
  ASSUME BundleInv, NEW c \in Commands, on[c] \in Bundles, NEW changed, Amend(c, changed)
  PROVE  /\ bundle'[on[c]] = changed
         /\ \A b \in Bundles \ {on[c]} : bundle'[b] = bundle[b]
  BY DEF Amend, BundleInv

LEMMA CreateSolo ==
  ASSUME RecoveryInv, SoloInv, NEW c \in Commands, NEW b \in Bundles,
         NEW models \in SUBSET Models, Create(c, b, models), Command(c)
  PROVE  SoloInv'
  <1> DEFINE new == [bundle[b] EXCEPT !.stage = "open", !.solo = Busy = {}]
  <1>1. bundle[b] \in Bundle /\ bundle \in [Bundles -> Bundle]
    BY DEF RecoveryInv, BundleInv
  <1>2. /\ new.stage = "open" /\ new.manifest = bundle[b].manifest
        /\ new.weights = bundle[b].weights
    BY <1>1 DEF Bundle
  <1>3. bundle' = [bundle EXCEPT ![b] = new] /\ bundle[b].stage = "absent"
    BY DEF Create
  <1> HIDE DEF new
  <1>4. /\ bundle'[b] = new /\ \A d \in Bundles \ {b} : bundle'[d] = bundle[d]
        /\ pc'[c] = "model" /\ on'[c] = b
    BY <1>1, <1>3 DEF Create, Start, RecoveryInv, StoreInv, BundleInv
  <1>5. \A m \in Models : new.manifest[m] = None /\ new.weights[m] = None
    BY <1>2, <1>3 DEF SoloInv, ManifestsInBundle, HasWeights
  <1>6. ManifestsInBundle'
    BY <1>2, <1>4, <1>5 DEF SoloInv, ManifestsInBundle, HasWeights
  <1>7. Signed'
    BY <1>2, <1>4 DEF SoloInv, Signed, Importable, InBundle, HasWeights, SourcesMatch
  <1>8. Copied(c)'
    <2>1. rest'[c] \subseteq Models
      BY DEF Create, RecoveryInv, BundleInv
    <2> QED
      BY <1>4, <1>5, <2>1 DEF Copied, HasWeights
  <1>9. Matching(c)' /\ Placed(c)' /\ Imported(c)'
    BY <1>4, <1>5 DEF Matching, Placed, Imported, InBundle, RecoveryBusy, Recovering
  <1> QED
    BY <1>3, <1>4, <1>6, <1>7, <1>8, <1>9, SoloFrame

\* A step inside create is about the command's own bundle, which is not signed.
LEMMA InsideCreate ==
  ASSUME RecoveryInv, SoloInv, NEW c \in Commands, CreateStep(c), Command(c),
         pc'[c] \in Creating, bundle'[on[c]].stage # "signed", bundle'[on[c]].stage # "absent",
         \A b \in Bundles \ {on[c]} : bundle'[b] = bundle[b],
         \A m \in Models : bundle'[on[c]].manifest[m] # None =>
                              bundle'[on[c]].manifest[m].model = m,
         pc[c] \in Creating, Copied(c)', Matching(c)'
  PROVE  SoloInv'
  <1>1. ManifestsInBundle'
    BY DEF SoloInv, ManifestsInBundle, HasWeights
  <1>2. Signed'
    BY DEF SoloInv, Signed, Importable, InBundle, HasWeights, SourcesMatch
  <1>3. Placed(c)' /\ Imported(c)'
    BY DEF Placed, Imported, Creating, RecoveryBusy, Recovering
  <1> QED
    BY <1>1, <1>2, <1>3, SoloFrame

\* What a command inside create knows of its bundle.
LEMMA OpenBundle ==
  ASSUME RecoveryInv, SoloInv, NEW c \in Commands, pc[c] \in Creating
  PROVE  /\ on[c] \in Bundles /\ bundle[on[c]] \in Bundle /\ Open(c) = bundle[on[c]]
         /\ bundle[on[c]].stage \in {"open", "listed"}
         /\ \A m \in Models : bundle[on[c]].manifest[m] # None =>
                                 bundle[on[c]].manifest[m].model = m
         /\ Copied(c) /\ Matching(c)
         /\ rest[c] \subseteq Models
         /\ pc[c] \in {"manifestFile", "artifacts"} =>
               plan[c] \in Manifests /\ plan[c].model \in Models /\ plan[c].weights # None
  <1>1. /\ on[c] \in Bundles /\ bundle[on[c]] \in Bundle /\ Open(c) = bundle[on[c]]
        /\ bundle[on[c]].stage \in {"open", "listed"} /\ rest[c] \subseteq Models
    BY DEF RecoveryInv, BundleInv, Open
  <1>2. /\ \A m \in Models : bundle[on[c]].manifest[m] # None =>
                                bundle[on[c]].manifest[m].model = m
        /\ Copied(c) /\ Matching(c)
    BY <1>1 DEF SoloInv, ManifestsInBundle
  <1>3. ASSUME pc[c] \in {"manifestFile", "artifacts"}
        PROVE  plan[c] \in Manifests /\ plan[c].model \in Models /\ plan[c].weights # None
    <2>1. plan[c] \in Manifests
      BY <1>3 DEF RecoveryInv, StoreInv, PlanInv, Sure
    <2>2. plan[c].model \in Models /\ plan[c].weights \in Digests
      BY <2>1, ArtifactsType
    <2> QED
      BY <2>1, <2>2, ContentAssumption
  <1> QED
    BY <1>1, <1>2, <1>3

LEMMA VerifyModelSolo ==
  ASSUME RecoveryInv, SoloInv, NEW c \in Commands, NEW m \in Models, VerifyModel(c, m),
         CreateStep(c), Command(c)
  PROVE  SoloInv'
  <1>1. /\ pc[c] = "model" /\ pc'[c] = "manifestFile" /\ m \in rest[c]
        /\ manifest[m] # None /\ plan'[c] = manifest[m].of
        /\ UNCHANGED <<bundle, manifest, on, rest>>
    BY DEF VerifyModel, Goto, Verified, store, bundling, RecoveryInv, StoreInv, StoreTypeOK
  <1>2. manifest[m].of.model = m
    BY <1>1 DEF RecoveryInv, StoreInv, ManifestsOwn
  <1>3. pc[c] \in Creating /\ pc'[c] \in Creating
    BY <1>1 DEF Creating
  <1>4. Copied(c)'
    <2>1. \A n \in rest[c] : ~HasWeights(on[c], n)
      BY <1>1, <1>3, OpenBundle DEF Copied
    <2> QED
      BY <1>1, <1>2, <2>1 DEF Copied, HasWeights
  <1>5. Matching(c)'
    <2>1. alone' = alone
      BY DEF CreateStep, observed
    <2>2. alone[c] => \A n \in InBundle(on[c]) : HasWeights(on[c], n) => SourcesMatch(on[c], n)
      BY <1>1, <1>3, OpenBundle DEF Matching
    <2> QED
      BY <1>1, <1>2, <2>1, <2>2 DEF Matching, InBundle, HasWeights, SourcesMatch
  <1> QED
    BY <1>1, <1>3, <1>4, <1>5, OpenBundle, InsideCreate

LEMMA CopyManifestSolo ==
  ASSUME RecoveryInv, SoloInv, NEW c \in Commands, CopyManifest(c), CreateStep(c), Command(c)
  PROVE  SoloInv'
  <1> DEFINE p == plan[c].model
             new == [Open(c) EXCEPT !.manifest[p] = manifest[p].of]
  <1>1. /\ pc[c] = "manifestFile" /\ pc'[c] = "artifacts" /\ todo'[c] = plan[c].others
        /\ UNCHANGED <<manifest, on, rest, plan, alone>> /\ Amend(c, new)
    BY DEF CopyManifest, Goto, store, bundling, CreateStep, observed,
           RecoveryInv, StoreInv, StoreTypeOK
  <1>2. pc[c] \in Creating /\ pc'[c] \in Creating
    BY <1>1 DEF Creating
  <1>3. /\ on[c] \in Bundles /\ bundle[on[c]] \in Bundle /\ Open(c) = bundle[on[c]]
        /\ plan[c] \in Manifests /\ p \in Models
        /\ bundle[on[c]].stage \in {"open", "listed"}
    BY <1>1, <1>2, OpenBundle
  <1>4. manifest[p].of.model = p
    BY <1>1, <1>3 DEF RecoveryInv, StoreInv, ManifestsOwn, PlanInv
  <1>5. /\ new.stage = bundle[on[c]].stage
        /\ new.weights = bundle[on[c]].weights /\ new.artifacts = bundle[on[c]].artifacts
        /\ new.manifest[p] = manifest[p].of
        /\ \A m \in Models \ {p} : new.manifest[m] = bundle[on[c]].manifest[m]
    BY <1>3 DEF Bundle
  <1>6. bundle'[on[c]] = new /\ \A b \in Bundles \ {on[c]} : bundle'[b] = bundle[b]
    BY <1>1, <1>3, Amending DEF RecoveryInv
  <1> HIDE DEF new
  <1>7. \A m \in Models : bundle'[on[c]].manifest[m] # None => bundle'[on[c]].manifest[m].model = m
    BY <1>2, <1>4, <1>5, <1>6, OpenBundle
  <1>8. \A m \in rest[c] : ~HasWeights(on[c], m)
    BY <1>1, <1>2, OpenBundle DEF Copied
  <1>9. Copied(c)'
    <2>1. p \in rest[c]
      BY <1>1, <1>2, OpenBundle DEF Copied
    <2> QED
      BY <1>1, <1>2, <1>5, <1>6, <1>8, <2>1 DEF Copied, HasWeights
  <1>10. Matching(c)'
    <2>1. alone[c] => /\ manifest[p].of = plan[c]
                      /\ \A m \in InBundle(on[c]) : HasWeights(on[c], m) => SourcesMatch(on[c], m)
      BY <1>1, <1>2, OpenBundle DEF Matching
    <2>2. \A m \in Models \ {p} :
            /\ m \in InBundle(on[c])' <=> m \in InBundle(on[c])
            /\ HasWeights(on[c], m)' <=> HasWeights(on[c], m)
            /\ SourcesMatch(on[c], m)' <=> SourcesMatch(on[c], m)
      BY <1>1, <1>5, <1>6 DEF InBundle, HasWeights, SourcesMatch
    <2>3. InBundle(on[c])' \subseteq Models
      BY DEF InBundle
    <2> QED
      BY <1>1, <1>5, <1>6, <2>1, <2>2, <2>3 DEF Matching
  <1> QED
    BY <1>2, <1>3, <1>5, <1>6, <1>7, <1>9, <1>10, InsideCreate

\* The copying of a file, of the weights or another.
LEMMA CopyFileSolo ==
  ASSUME RecoveryInv, SoloInv, NEW c \in Commands, CreateStep(c), Command(c),
         CopyWeights(c) \/ \E d \in Digests : CopyArtifact(c, d)
  PROVE  SoloInv'
  <1> DEFINE p == plan[c].model
  <1>1. /\ pc[c] = "artifacts" /\ pc'[c] = "artifacts"
        /\ UNCHANGED <<manifest, on, rest, plan, alone>>
    BY DEF CopyWeights, CopyArtifact, store, bundling, CreateStep, observed, importing
  <1>2. pc[c] \in Creating
    BY <1>1 DEF Creating
  <1>3. /\ on[c] \in Bundles /\ bundle[on[c]] \in Bundle /\ Open(c) = bundle[on[c]]
        /\ plan[c] \in Manifests /\ p \in Models
        /\ bundle[on[c]].stage \in {"open", "listed"} /\ Copied(c) /\ Matching(c)
    BY <1>1, <1>2, OpenBundle
  <1>4. \A d \in Artifacts(plan[c]) : blob[d] = d
    BY <1>1 DEF RecoveryInv, StoreInv, PlanInv, Sure
  <1>5. /\ bundle'[on[c]].stage = bundle[on[c]].stage
        /\ bundle'[on[c]].manifest = bundle[on[c]].manifest
        /\ bundle'[on[c]].weights[p] \in {bundle[on[c]].weights[p], plan[c].weights}
        /\ plan[c].others \subseteq bundle'[on[c]].artifacts[p] \cup todo'[c]
        /\ \A m \in Models \ {p} :
              /\ bundle'[on[c]].weights[m] = bundle[on[c]].weights[m]
              /\ bundle'[on[c]].artifacts[m] = bundle[on[c]].artifacts[m]
        /\ \A b \in Bundles \ {on[c]} : bundle'[b] = bundle[b]
    <2>1. plan[c].others \subseteq bundle[on[c]].artifacts[p] \cup todo[c]
      BY <1>1, <1>2, <1>3 DEF Copied
    <2>2. CASE CopyWeights(c)
      <3> DEFINE new == [Open(c) EXCEPT !.weights[p] = blob[plan[c].weights]]
      <3>1. /\ Amend(c, new) /\ todo' = todo /\ blob[plan[c].weights] = plan[c].weights
        BY <1>4, <2>2 DEF CopyWeights, importing, Artifacts
      <3>2. /\ new.stage = bundle[on[c]].stage /\ new.manifest = bundle[on[c]].manifest
            /\ new.artifacts = bundle[on[c]].artifacts
            /\ new.weights[p] = plan[c].weights
            /\ \A m \in Models \ {p} : new.weights[m] = bundle[on[c]].weights[m]
        BY <1>3, <3>1 DEF Bundle
      <3>3. bundle'[on[c]] = new /\ \A b \in Bundles \ {on[c]} : bundle'[b] = bundle[b]
        BY <1>3, <3>1, Amending DEF RecoveryInv
      <3> HIDE DEF new
      <3> QED
        BY <2>1, <3>1, <3>2, <3>3
    <2>3. ASSUME NEW d \in Digests, CopyArtifact(c, d)
          PROVE  /\ bundle'[on[c]].stage = bundle[on[c]].stage
                 /\ bundle'[on[c]].manifest = bundle[on[c]].manifest
                 /\ bundle'[on[c]].weights = bundle[on[c]].weights
                 /\ plan[c].others \subseteq bundle'[on[c]].artifacts[p] \cup todo'[c]
                 /\ \A m \in Models \ {p} :
                       bundle'[on[c]].artifacts[m] = bundle[on[c]].artifacts[m]
                 /\ \A b \in Bundles \ {on[c]} : bundle'[b] = bundle[b]
      <3> DEFINE new == [Open(c) EXCEPT !.artifacts[p] = @ \cup {blob[d]}]
      <3>1. /\ Amend(c, new) /\ todo'[c] = todo[c] \ {d} /\ blob[d] = d
        BY <1>1, <1>4, <2>3 DEF CopyArtifact, RecoveryInv, StoreInv, StoreTypeOK, PlanInv
      <3>2. /\ new.stage = bundle[on[c]].stage /\ new.manifest = bundle[on[c]].manifest
            /\ new.weights = bundle[on[c]].weights
            /\ new.artifacts[p] = bundle[on[c]].artifacts[p] \cup {d}
            /\ \A m \in Models \ {p} : new.artifacts[m] = bundle[on[c]].artifacts[m]
        BY <1>3, <3>1 DEF Bundle
      <3>3. bundle'[on[c]] = new /\ \A b \in Bundles \ {on[c]} : bundle'[b] = bundle[b]
        BY <1>3, <3>1, Amending DEF RecoveryInv
      <3> HIDE DEF new
      <3> QED
        BY <2>1, <3>1, <3>2, <3>3
    <2> QED
      BY <2>2, <2>3
  <1>6. Copied(c)'
    <2>1. \A m \in rest[c] : HasWeights(on[c], m)' => m = p
      BY <1>1, <1>2, <1>3, <1>5, OpenBundle DEF Copied, HasWeights
    <2>2. bundle'[on[c]].weights[p] \in {None, plan[c].weights}
      BY <1>1, <1>2, <1>3, <1>5 DEF Copied
    <2> QED
      BY <1>1, <1>2, <1>3, <1>5, <2>1, <2>2 DEF Copied
  <1>7. Matching(c)'
    <2>1. InBundle(on[c])' = InBundle(on[c]) /\ InBundle(on[c]) \subseteq Models
      BY <1>1, <1>5 DEF InBundle
    <2>2. \A m \in Models \ {p} :
            /\ HasWeights(on[c], m)' <=> HasWeights(on[c], m)
            /\ SourcesMatch(on[c], m)' <=> SourcesMatch(on[c], m)
      BY <1>1, <1>5 DEF HasWeights, SourcesMatch
    <2> QED
      BY <1>1, <1>2, <1>3, <1>5, <2>1, <2>2 DEF Matching
  <1> QED
    BY <1>1, <1>2, <1>3, <1>5, <1>6, <1>7, OpenBundle, InsideCreate

LEMMA ModelCopiedSolo ==
  ASSUME RecoveryInv, SoloInv, NEW c \in Commands, ModelCopied(c), CreateStep(c), Command(c)
  PROVE  SoloInv'
  <1> DEFINE p == plan[c].model
  <1>1. /\ pc[c] = "artifacts" /\ pc'[c] = "model" /\ todo[c] = {}
        /\ plan[c].share => HasWeights(on[c], p)
        /\ rest'[c] = rest[c] \ {p}
        /\ UNCHANGED <<bundle, on, alone>>
    BY DEF ModelCopied, Goto, CreateStep, observed,
           RecoveryInv, StoreInv, BundleInv
  <1>2. pc[c] \in Creating /\ pc'[c] \in Creating
    BY <1>1 DEF Creating
  <1>3. Copied(c) /\ Matching(c)
    BY <1>2, OpenBundle
  <1>4. Copied(c)'
    BY <1>1, <1>2, <1>3 DEF Copied, HasWeights
  <1>5. Matching(c)'
    <2>1. ASSUME alone[c], HasWeights(on[c], p)
          PROVE  SourcesMatch(on[c], p)
      <3>1. bundle[on[c]].manifest[p] = plan[c]
        BY <1>1, <1>2, <1>3, <2>1 DEF Matching
      <3>2. /\ bundle[on[c]].weights[p] = plan[c].weights
            /\ plan[c].others \subseteq bundle[on[c]].artifacts[p]
        BY <1>1, <1>2, <1>3, <2>1 DEF Copied, HasWeights
      <3> QED
        BY <3>1, <3>2 DEF SourcesMatch
    <2>2. alone[c] => \A m \in InBundle(on[c]) : HasWeights(on[c], m) => SourcesMatch(on[c], m)
      BY <1>1, <1>2, <1>3, <2>1 DEF Matching
    <2> QED
      BY <1>1, <2>2 DEF Matching, InBundle, HasWeights, SourcesMatch
  <1> QED
    BY <1>1, <1>2, <1>4, <1>5, OpenBundle, InsideCreate

\* CopyRelease and List, which leave the models in the bundle alone.
LEMMA ModelsListedSolo ==
  ASSUME RecoveryInv, SoloInv, NEW c \in Commands, CreateStep(c), Command(c),
         List(c) \/ \E include \in BOOLEAN : CopyRelease(c, include)
  PROVE  SoloInv'
  <1>1. /\ pc[c] \in {"model", "list"} /\ pc'[c] \in {"list", "sign"}
        /\ UNCHANGED <<on, rest, alone>>
    BY DEF List, CopyRelease, Goto, CreateStep, observed, bundling, RecoveryInv, StoreInv
  <1>2. pc[c] \in Creating /\ pc'[c] \in Creating
    BY <1>1 DEF Creating
  <1>3. /\ on[c] \in Bundles /\ bundle[on[c]] \in Bundle /\ Open(c) = bundle[on[c]]
        /\ bundle[on[c]].stage \in {"open", "listed"}
        /\ Copied(c) /\ Matching(c)
    BY <1>2, OpenBundle
  <1>4. /\ bundle'[on[c]].stage \in {"open", "listed"}
        /\ bundle'[on[c]].manifest = bundle[on[c]].manifest
        /\ bundle'[on[c]].weights = bundle[on[c]].weights
        /\ bundle'[on[c]].artifacts = bundle[on[c]].artifacts
        /\ \A b \in Bundles \ {on[c]} : bundle'[b] = bundle[b]
    <2>1. CASE bundle' = bundle
      BY <1>3, <2>1
    <2>2. CASE Amend(c, [Open(c) EXCEPT !.runtime = release[current]])
      <3> DEFINE new == [Open(c) EXCEPT !.runtime = release[current]]
      <3>1. /\ new.stage = bundle[on[c]].stage /\ new.manifest = bundle[on[c]].manifest
            /\ new.weights = bundle[on[c]].weights /\ new.artifacts = bundle[on[c]].artifacts
        BY <1>3 DEF Bundle
      <3>2. bundle'[on[c]] = new /\ \A b \in Bundles \ {on[c]} : bundle'[b] = bundle[b]
        BY <1>3, <2>2, Amending DEF RecoveryInv
      <3> HIDE DEF new
      <3> QED
        BY <1>3, <3>1, <3>2
    <2>3. CASE Amend(c, [Open(c) EXCEPT !.stage = "listed"])
      <3> DEFINE new == [Open(c) EXCEPT !.stage = "listed"]
      <3>1. /\ new.stage = "listed" /\ new.manifest = bundle[on[c]].manifest
            /\ new.weights = bundle[on[c]].weights /\ new.artifacts = bundle[on[c]].artifacts
        BY <1>3 DEF Bundle
      <3>2. bundle'[on[c]] = new /\ \A b \in Bundles \ {on[c]} : bundle'[b] = bundle[b]
        BY <1>3, <2>3, Amending DEF RecoveryInv
      <3> HIDE DEF new
      <3> QED
        BY <3>1, <3>2
    <2> QED
      BY <2>1, <2>2, <2>3 DEF List, CopyRelease
  <1>5. Copied(c)'
    BY <1>1, <1>2, <1>3, <1>4 DEF Copied, HasWeights
  <1>6. Matching(c)'
    BY <1>1, <1>2, <1>3, <1>4 DEF Matching, InBundle, HasWeights, SourcesMatch
  <1> QED
    BY <1>2, <1>3, <1>4, <1>5, <1>6, OpenBundle, InsideCreate

LEMMA SignSolo ==
  ASSUME RecoveryInv, SoloInv, NEW c \in Commands, Sign(c), CreateStep(c), Command(c)
  PROVE  SoloInv'
  <1> DEFINE new == [Open(c) EXCEPT !.stage = "signed", !.solo = alone[c]]
  <1>1. pc[c] = "sign" /\ Amend(c, new) /\ Exit(c)
    BY DEF Sign
  <1>2. pc[c] \in Creating
    BY <1>1 DEF Creating
  <1>3. /\ on[c] \in Bundles /\ bundle[on[c]] \in Bundle /\ Open(c) = bundle[on[c]]
        /\ Matching(c)
    BY <1>2, OpenBundle
  <1>4. /\ new.stage = "signed" /\ new.solo = alone[c]
        /\ new.manifest = bundle[on[c]].manifest
        /\ new.weights = bundle[on[c]].weights /\ new.artifacts = bundle[on[c]].artifacts
    BY <1>3 DEF Bundle
  <1>5. bundle'[on[c]] = new /\ \A b \in Bundles \ {on[c]} : bundle'[b] = bundle[b]
    BY <1>1, <1>3, Amending DEF RecoveryInv
  <1> HIDE DEF new
  <1>6. ManifestsInBundle'
    BY <1>4, <1>5 DEF SoloInv, ManifestsInBundle, HasWeights
  <1>7. Signed'
    <2>1. alone[c] => Importable(on[c])
      BY <1>1, <1>2, <1>3 DEF Matching, Importable
    <2>2. ASSUME NEW b \in Bundles, bundle'[b].stage = "signed", bundle'[b].solo
          PROVE  Importable(b)'
      <3>1. CASE b = on[c]
        <4>1. alone[c]
          BY <1>4, <1>5, <2>2, <3>1
        <4> QED
          BY <1>1, <1>4, <1>5, <2>1, <3>1, <4>1
             DEF Importable, InBundle, HasWeights, SourcesMatch
      <3>2. CASE b # on[c]
        BY <1>5, <2>2, <3>2 DEF SoloInv, Signed, Importable, InBundle, HasWeights, SourcesMatch
      <3> QED
        BY <3>1, <3>2
    <2> QED
      BY <2>2 DEF Signed
  <1> QED
    BY <1>1, <1>2, <1>5, <1>6, <1>7, SoloExit

LEMMA AbandonSolo ==
  ASSUME RecoveryInv, SoloInv, NEW c \in Commands, Abandon(c), CreateStep(c), Command(c)
  PROVE  SoloInv'
  <1>1. pc[c] \in Creating /\ Exit(c) /\ bundle' = [bundle EXCEPT ![on[c]] = NoBundle]
    BY DEF Abandon
  <1>2. on[c] \in Bundles
    BY <1>1, OpenBundle
  <1>3. bundle'[on[c]] = NoBundle /\ \A b \in Bundles \ {on[c]} : bundle'[b] = bundle[b]
    BY <1>1, <1>2 DEF RecoveryInv, BundleInv
  <1>4. ManifestsInBundle'
    BY <1>3 DEF SoloInv, ManifestsInBundle, HasWeights, NoBundle
  <1>5. Signed'
    BY <1>3 DEF SoloInv, Signed, Importable, InBundle, HasWeights, SourcesMatch, NoBundle
  <1> QED
    BY <1>1, <1>2, <1>3, <1>4, <1>5, SoloExit

LEMMA CreateStepSolo ==
  ASSUME RecoveryInv, SoloInv, NEW c \in Commands, CreateStep(c), Command(c)
  PROVE  SoloInv'
  BY VerifyModelSolo, CopyManifestSolo, CopyFileSolo, ModelCopiedSolo, ModelsListedSolo,
     SignSolo, AbandonSolo DEF CreateStep

-----------------------------------------------------------------------------
(***************************************************************************)
(* The store, promotion and recovery, alone.                               *)
(***************************************************************************)
LEMMA PlainSolo ==
  ASSUME RecoveryInv, SoloInv, NEW c \in Commands, Command(c), bundle' = bundle,
         pc'[c] \notin Creating, Placed(c)', Imported(c)'
  PROVE  SoloInv'
  <1>1. Copied(c)' /\ Matching(c)'
    BY DEF Copied, Matching
  <1> QED
    BY <1>1, BundlesSame, SoloFrame

LEMMA PlainExit ==
  ASSUME RecoveryInv, SoloInv, NEW c \in Commands, Command(c) \/ Kill(c), bundle' = bundle,
         Exit(c)
  PROVE  SoloInv'
  BY BundlesSame, SoloExit

\* A command that is idle afterwards relies on nothing.
LEMMA IdleSolo ==
  ASSUME NEW c \in Commands, pc'[c] = "idle"
  PROVE  pc'[c] \notin Creating /\ Placed(c)' /\ Imported(c)'
  BY DEF Placed, Imported, RecoveryBusy, Recovering, Creating

\* A recovery that copies blobs or makes a directory changes nothing it relies on.
LEMMA CopyingSolo ==
  ASSUME RecoveryInv, SoloInv, NEW c \in Commands,
         (\E d \in Digests : KeepBlob(c, d)) \/
            (\E d \in Digests : \E content \in Sources(d) : CopyBlob(c, d, content)) \/
            MakeDirectory(c),
         UNCHANGED observed, UNCHANGED bundle,
         IF pc'[c] = "idle" THEN Drop(c) ELSE UNCHANGED bundling
  PROVE  pc'[c] \notin Creating /\ Placed(c)' /\ Imported(c)'
  <1>1. CASE Forget(c)
    BY <1>1, IdleSolo DEF Forget, RecoveryInv, StoreInv
  <1>2. CASE ~Forget(c)
    <2>1. pc[c] = "copy" /\ UNCHANGED <<pc, plan, back, manifest, link, alone>>
      BY <1>2 DEF KeepBlob, CopyBlob, MakeDirectory, store, importing, observed
    <2>2. UNCHANGED bundling
      BY <2>1
    <2>3. Imported(c)
      BY DEF SoloInv
    <2> QED
      BY <2>1, <2>2, <2>3 DEF Placed, Imported, InPlace, InBundle, HasWeights, RecoveryBusy,
                              bundling, Creating
  <1> QED
    BY <1>1, <1>2

LEMMA WriteManifestSolo ==
  ASSUME RecoveryInv, SoloInv, NEW c \in Commands, WriteManifest(c),
         UNCHANGED observed, UNCHANGED bundle,
         IF pc'[c] = "idle" THEN Drop(c) ELSE UNCHANGED bundling
  PROVE  pc'[c] \notin Creating /\ Placed(c)' /\ Imported(c)'
  <1>1. /\ pc[c] = "copy" /\ pc'[c] = "link"
        /\ UNCHANGED <<plan, back, link, alone>>
        /\ manifest' = [manifest EXCEPT ![plan[c].model] =
                            [of |-> plan[c], status |-> "verified"]]
    BY DEF WriteManifest, Goto, importing, observed, RecoveryInv, StoreInv
  <1>2. plan[c].model \in Models
    BY <1>1, ArtifactsType DEF RecoveryInv, StoreInv, PlanInv, Sure
  <1>3. /\ manifest'[plan[c].model] = [of |-> plan[c], status |-> "verified"]
        /\ \A m \in Models \ {plan[c].model} : manifest'[m] = manifest[m]
    BY <1>1, <1>2 DEF RecoveryInv, StoreInv, StoreTypeOK
  <1>4. Placed(c)'
    BY <1>1, <1>3 DEF Placed
  <1>5. Imported(c)'
    <2>1. UNCHANGED bundling
      BY <1>1
    <2>2. Imported(c)
      BY DEF SoloInv
    <2> QED
      BY <1>1, <1>3, <2>1, <2>2 DEF Imported, InPlace, InBundle, HasWeights, RecoveryBusy,
                                    Recovering, bundling
  <1> QED
    BY <1>1, <1>4, <1>5 DEF Creating

LEMMA LinkSolo ==
  ASSUME RecoveryInv, SoloInv, NEW c \in Commands, Link(c),
         UNCHANGED observed, UNCHANGED bundle,
         IF pc'[c] = "idle" THEN Drop(c) ELSE UNCHANGED bundling
  PROVE  pc'[c] \notin Creating /\ Placed(c)' /\ Imported(c)'
  <1>1. CASE back[c] = "idle"
    BY <1>1, IdleSolo DEF Link, Goto, RecoveryInv, StoreInv
  <1>2. CASE back[c] # "idle"
    <2>1. /\ pc[c] = "link" /\ pc'[c] = "nextModel"
          /\ UNCHANGED <<manifest, alone>>
          /\ link' = [link EXCEPT ![plan[c].model] = plan[c].weights]
      BY <1>2 DEF Link, Goto, observed, RecoveryInv, StoreInv, BundleInv
    <2>2. UNCHANGED bundling
      BY <2>1
    <2>3. plan[c].model \in Models
      BY <2>1, ArtifactsType DEF RecoveryInv, StoreInv, PlanInv, Sure
    <2>4. /\ link'[plan[c].model] = plan[c].weights
          /\ \A m \in Models \ {plan[c].model} : link'[m] = link[m]
      BY <2>1, <2>3 DEF RecoveryInv, StoreInv, StoreTypeOK
    <2>5. alone[c] => manifest[plan[c].model] = [of |-> plan[c], status |-> "verified"]
      BY <2>1 DEF SoloInv, Placed
    <2>6. plan[c] \in Manifests
      BY <2>1 DEF RecoveryInv, StoreInv, PlanInv, Sure
    <2>7. alone[c] => manifest[plan[c].model] # None
      BY <2>5, <2>6, ContentAssumption DEF Installed
    <2>8. ASSUME alone[c], NEW m \in InBundle(on[c]) \ rest[c], HasWeights(on[c], m)
          PROVE  InPlace(on[c], m)'
      <3>1. RecoveryBusy(c) /\ Imported(c)
        BY <1>2, <2>1 DEF RecoveryBusy, SoloInv
      <3>2. CASE m = plan[c].model
        BY <2>1, <2>2, <2>4, <2>5, <2>7, <2>8, <3>1, <3>2 DEF Imported, InPlace, bundling
      <3>3. CASE m # plan[c].model
        BY <2>1, <2>2, <2>4, <2>8, <3>1, <3>3 DEF Imported, InPlace, InBundle, bundling
      <3> QED
        BY <3>2, <3>3
    <2> QED
      BY <2>1, <2>2, <2>8 DEF Placed, Imported, InBundle, HasWeights, bundling, Creating
  <1> QED
    BY <1>1, <1>2

LEMMA StoreStepSolo ==
  ASSUME RecoveryInv, SoloInv, NEW c \in Commands, StoreStep(c), Command(c),
         UNCHANGED bundle, IF pc'[c] = "idle" THEN Drop(c) ELSE UNCHANGED bundling
  PROVE  SoloInv'
  <1>1. ASSUME (\E v \in Manifests : Import(c, v)) \/ \E m \in Models : ReadForPromotion(c, m)
        PROVE  pc'[c] \notin Creating /\ Placed(c)' /\ Imported(c)'
    <2>1. pc[c] = "idle" /\ pc'[c] \in {"copy", "promote"} /\ back' = back
      BY <1>1 DEF Import, ReadForPromotion, Start, RecoveryInv, StoreInv
    <2>2. back[c] = "idle"
      BY <2>1 DEF RecoveryInv, BundleInv
    <2> QED
      BY <2>1, <2>2 DEF Creating, Placed, Imported, RecoveryBusy, Recovering
  <1>2. ASSUME ImportStep(c)
        PROVE  pc'[c] \notin Creating /\ Placed(c)' /\ Imported(c)'
    BY <1>2, CopyingSolo, WriteManifestSolo, LinkSolo DEF ImportStep
  <1>3. ASSUME WritePromotion(c)
        PROVE  pc'[c] \notin Creating /\ Placed(c)' /\ Imported(c)'
    BY <1>3, IdleSolo DEF WritePromotion, Forget, RecoveryInv, StoreInv
  <1> QED
    BY <1>1, <1>2, <1>3, PlainSolo DEF StoreStep

LEMMA RecoverSolo ==
  ASSUME RecoveryInv, SoloInv, NEW c \in Commands, NEW b \in Bundles, Recover(c, b), Command(c)
  PROVE  SoloInv'
  <1>1. /\ pc'[c] = "nextModel" /\ on'[c] = b /\ rest'[c] = InBundle(b) /\ bundle' = bundle
    BY DEF Recover, Start, RecoveryInv, StoreInv, BundleInv
  <1>2. Placed(c)' /\ Imported(c)'
    BY <1>1 DEF Placed, Imported, InBundle
  <1> QED
    BY <1>1, <1>2, PlainSolo DEF Creating

LEMMA ImportModelSolo ==
  ASSUME RecoveryInv, SoloInv, NEW c \in Commands, NEW m \in Models, ImportModel(c, m),
         Command(c), UNCHANGED observed
  PROVE  SoloInv'
  <1>1. pc[c] = "nextModel" /\ bundle' = bundle /\ UNCHANGED <<manifest, link, alone>>
    BY DEF ImportModel, store, observed
  <1>2. CASE ~SourcesMatch(on[c], m)
    BY <1>1, <1>2, PlainExit DEF ImportModel
  <1>3. CASE SourcesMatch(on[c], m)
    <2>1. /\ pc'[c] = "copy" /\ plan'[c] = bundle[on[c]].manifest[m]
          /\ m \in rest[c] /\ rest'[c] = rest[c] \ {m} /\ on'[c] = on[c]
      BY <1>3 DEF ImportModel, RecoveryInv, StoreInv, StoreTypeOK, BundleInv
    <2>2. RecoveryBusy(c) /\ Imported(c)
      BY <1>1 DEF RecoveryBusy, Recovering, SoloInv
    <2>3. on[c] \in Bundles /\ m \in InBundle(on[c])
      BY <2>1, <2>2 DEF RecoveryInv, BundleInv
    <2>4. plan'[c].model = m
      BY <2>1, <2>3 DEF SoloInv, ManifestsInBundle, InBundle
    <2>5. Imported(c)'
      BY <1>1, <2>1, <2>2, <2>4 DEF Imported, InPlace, InBundle, HasWeights
    <2>6. Placed(c)' /\ pc'[c] \notin Creating
      BY <2>1 DEF Placed, Creating
    <2> QED
      BY <1>1, <2>5, <2>6, PlainSolo
  <1> QED
    BY <1>2, <1>3

LEMMA RecoverStepSolo ==
  ASSUME RecoveryInv, SoloInv, NEW c \in Commands, RecoverStep(c), Command(c)
  PROVE  SoloInv'
  <1>1. /\ pc[c] \in Recovering /\ RecoveryBusy(c) /\ bundle' = bundle
        /\ UNCHANGED <<manifest, link, alone>> /\ Imported(c)
    BY DEF RecoverStep, SkipModel, ImportModel, Install, CopyRuntimeFile, RenameRelease,
           KeepPrevious, SwitchCurrent, Goto, store, observed, RecoveryBusy, Recovering, SoloInv
  <1>2. CASE \E m \in Models : ImportModel(c, m)
    BY <1>2, ImportModelSolo DEF RecoverStep
  <1>3. CASE Exit(c)
    BY <1>1, <1>3, PlainExit
  <1>4. CASE \E m \in Models : SkipModel(c, m)
    <2>1. PICK m \in Models : SkipModel(c, m)
      BY <1>4
    <2>2. /\ pc[c] = "nextModel" /\ UNCHANGED <<pc, on>> /\ ~HasWeights(on[c], m)
          /\ rest'[c] = rest[c] \ {m}
      BY <2>1 DEF SkipModel, RecoveryInv, BundleInv
    <2>3. pc'[c] = "nextModel" /\ on'[c] = on[c]
      BY <2>2
    <2>4. Imported(c)'
      BY <1>1, <2>2, <2>3 DEF Imported, InPlace, InBundle, HasWeights
    <2> QED
      BY <1>1, <2>3, <2>4, PlainSolo DEF Placed, Creating
  <1>5. CASE ~Exit(c) /\ (\/ Install(c) \/ RenameRelease(c) \/ KeepPrevious(c)
                          \/ \E f \in RuntimeFiles : CopyRuntimeFile(c, f))
    <2>1. /\ pc'[c] \in {"copyRuntime", "previous", "current"}
          /\ UNCHANGED <<on, rest>>
          /\ rest[c] = {} \/ pc[c] \in {"copyRuntime", "previous", "current"}
          /\ pc[c] \notin {"copy", "link"}
      BY <1>5 DEF Install, CopyRuntimeFile, RenameRelease, KeepPrevious, Goto, bundling,
                  RecoveryInv, StoreInv
    <2>2. Imported(c)'
      BY <1>1, <2>1 DEF Imported, InPlace, InBundle, HasWeights
    <2> QED
      BY <1>1, <2>1, <2>2, PlainSolo DEF Placed, Creating
  <1> QED
    BY <1>2, <1>3, <1>4, <1>5 DEF RecoverStep, SwitchCurrent

-----------------------------------------------------------------------------
(***************************************************************************)
(* What comes from outside.                                                *)
(***************************************************************************)
LEMMA KillSolo ==
  ASSUME RecoveryInv, SoloInv, NEW c \in Commands, Kill(c)
  PROVE  SoloInv'
  BY PlainExit DEF Kill

\* When no command moves and the store stays.
LEMMA StillSolo ==
  ASSUME RecoveryInv, SoloInv, UNCHANGED <<storeVars, bundling>>,
         \A b \in Bundles, m \in Models :
            /\ bundle'[b].stage = bundle[b].stage /\ bundle'[b].solo = bundle[b].solo
            /\ bundle'[b].manifest[m] = bundle[b].manifest[m]
            /\ bundle'[b].weights[m] = bundle[b].weights[m]
            /\ bundle'[b].artifacts[m] = bundle[b].artifacts[m]
  PROVE  SoloInv'
  <1> USE DEF storeVars, store, importing, observed, bundling
  <1>1. AloneInv'
    BY DEF SoloInv, AloneInv
  <1>2. ManifestsInBundle' /\ Signed'
    BY DEF SoloInv, ManifestsInBundle, Signed, Importable, InBundle, HasWeights, SourcesMatch
  <1>3. ASSUME NEW c \in Commands PROVE Copied(c)' /\ Matching(c)' /\ Placed(c)' /\ Imported(c)'
    <2>1. Copied(c) /\ Matching(c) /\ Placed(c) /\ Imported(c)
      BY DEF SoloInv
    <2>2. pc[c] \in Creating => on[c] \in Bundles /\ rest[c] \subseteq Models
                               /\ (pc[c] \in {"manifestFile", "artifacts"} => plan[c].model \in Models)
      BY OpenBundle
    <2>3. Copied(c)'
      BY <2>1, <2>2 DEF Copied, HasWeights
    <2>4. Matching(c)'
      <3>1. CASE pc[c] \in Creating /\ alone[c]
        <4>1. \A m \in Models : /\ HasWeights(on[c], m)' <=> HasWeights(on[c], m)
                                /\ SourcesMatch(on[c], m)' <=> SourcesMatch(on[c], m)
          BY <2>2, <3>1 DEF HasWeights, SourcesMatch
        <4>2. InBundle(on[c])' = InBundle(on[c]) /\ InBundle(on[c]) \subseteq Models
          BY <2>2, <3>1 DEF InBundle
        <4>3. pc[c] = "artifacts" => bundle'[on[c]].manifest[plan[c].model] = plan[c]
          BY <2>1, <2>2, <3>1 DEF Matching
        <4> QED
          BY <2>1, <3>1, <4>1, <4>2, <4>3 DEF Matching
      <3> QED
        BY <3>1 DEF Matching
    <2>5. RecoveryBusy(c) => on[c] \in Bundles
      BY DEF RecoveryInv, BundleInv
    <2>6. Placed(c)'
      BY <2>1 DEF Placed
    <2>7. Imported(c)'
      BY <2>1, <2>5 DEF Imported, InPlace, InBundle, HasWeights, RecoveryBusy
    <2> QED
      BY <2>3, <2>4, <2>6, <2>7
  <1> QED
    BY <1>1, <1>2, <1>3 DEF SoloInv

LEMMA DamageSolo ==
  ASSUME RecoveryInv, SoloInv, NEW b \in Bundles, Damage(b)
  PROVE  SoloInv'
  <1> DEFINE new == [bundle[b] EXCEPT !.intact = FALSE]
  <1>1. bundle[b] \in Bundle /\ bundle \in [Bundles -> Bundle]
    BY DEF RecoveryInv, BundleInv
  <1>2. /\ new.stage = bundle[b].stage /\ new.solo = bundle[b].solo
        /\ new.manifest = bundle[b].manifest /\ new.weights = bundle[b].weights
        /\ new.artifacts = bundle[b].artifacts
    BY <1>1 DEF Bundle
  <1>3. bundle' = [bundle EXCEPT ![b] = new] /\ UNCHANGED <<storeVars, bundling>>
    BY DEF Damage
  <1> HIDE DEF new
  <1>4. bundle'[b] = new /\ \A d \in Bundles \ {b} : bundle'[d] = bundle[d]
    BY <1>1, <1>3
  <1> QED
    BY <1>2, <1>3, <1>4, StillSolo

LEMMA NewMachineSolo ==
  ASSUME RecoveryInv, SoloInv, NewMachine
  PROVE  SoloInv'
  <1>1. \A c \in Commands : pc[c] = "idle" /\ pc'[c] = "idle"
    BY DEF NewMachine, Busy
  <1>2. \A c \in Commands : Copied(c)' /\ Matching(c)' /\ Placed(c)' /\ Imported(c)'
    BY <1>1, IdleSolo DEF Copied, Matching, Creating
  <1>3. AloneInv'
    BY <1>1 DEF AloneInv
  <1> QED
    BY <1>2, <1>3, BundlesSame DEF SoloInv, NewMachine

LEMMA SoloNext ==
  ASSUME RecoveryInv, SoloInv, [Next]_vars
  PROVE  SoloInv'
  <1>1. ASSUME NEW c \in Commands, Command(c) PROVE SoloInv'
    <2>1. CASE StoreStep(c) /\ (IF pc'[c] = "idle" THEN Drop(c) ELSE UNCHANGED bundling)
                           /\ UNCHANGED bundle
      BY <1>1, <2>1, StoreStepSolo
    <2>2. CASE \E b \in Bundles, models \in SUBSET Models : Create(c, b, models)
      BY <1>1, <2>2, CreateSolo
    <2>3. CASE CreateStep(c)
      BY <1>1, <2>3, CreateStepSolo
    <2>4. CASE \E b \in Bundles : Recover(c, b)
      BY <1>1, <2>4, RecoverSolo
    <2>5. CASE RecoverStep(c)
      BY <1>1, <2>5, RecoverStepSolo
    <2> QED
      BY <1>1, <2>1, <2>2, <2>3, <2>4, <2>5 DEF Command
  <1>2. CASE MapGpus \/ vars' = vars
    BY <1>2, StillSolo DEF MapGpus, vars
  <1> QED
    BY <1>1, <1>2, KillSolo, DamageSolo, NewMachineSolo DEF Next, Done

-----------------------------------------------------------------------------
(***************************************************************************)
(* What doctor looks at besides: the map of the GPUs, and the directories  *)
(* of the models, of which every manifest has one.                         *)
(***************************************************************************)
HostInv ==
    /\ mapped \in BOOLEAN
    /\ \A m \in Models : manifest[m] # None => m \in directories
    /\ \A c \in Commands : pc[c] = "promote" => plan[c].model \in directories

LEMMA HostInit == Init => HostInv
  BY DEF Init, StoreInit, Empty, Holding, HostInv

\* A manifest is written into the directory of its model.
LEMMA HostCommand ==
  ASSUME RecoveryInv, HostInv, NEW c \in Commands, Command(c) \/ Kill(c), UNCHANGED mapped
  PROVE  HostInv'
  <1> USE DEF RecoveryInv, StoreInv, StoreTypeOK
  <1>1. /\ directories \subseteq directories'
        /\ \/ manifest' = manifest
           \/ /\ manifest' = [manifest EXCEPT ![plan[c].model] = manifest'[plan[c].model]]
              /\ plan[c].model \in directories
    <2>1. CASE WriteManifest(c) \/ WritePromotion(c)
      BY <2>1 DEF WriteManifest, WritePromotion, HostInv
    <2>2. CASE ~(WriteManifest(c) \/ WritePromotion(c))
      BY <2>2 DEF Command, Kill, StoreStep, Import, ReadForPromotion, ImportStep,
             KeepBlob, CopyBlob, MakeDirectory, Link, Create, CreateStep, VerifyModel, CopyManifest,
             CopyArtifact, CopyWeights, ModelCopied, CopyRelease, List, Sign, Abandon,
             Recover, RecoverStep, SkipModel, ImportModel, Install, CopyRuntimeFile,
             RenameRelease, KeepPrevious, SwitchCurrent, store
    <2> QED
      BY <2>1, <2>2
  <1>2. \A m \in Models : manifest'[m] # None => m \in directories'
    BY <1>1 DEF HostInv
  <1>3. pc'[c] = "promote" => plan'[c].model \in directories
    <2>1. ASSUME NEW m \in Models, ReadForPromotion(c, m)
          PROVE  plan'[c].model \in directories
      BY <2>1 DEF ReadForPromotion, HostInv, ManifestsOwn
    <2>2. ASSUME ~\E m \in Models : ReadForPromotion(c, m)
          PROVE  pc'[c] # "promote"
      <3>1. ASSUME Forget(c) PROVE pc'[c] # "promote"
        BY <3>1 DEF Forget
      <3>2. pc[c] \in {"copy", "link"} => back[c] # "promote"
        BY DEF BundleInv
      <3>3. ASSUME StoreStep(c) PROVE pc'[c] # "promote"
        BY <2>2, <3>1, <3>2, <3>3 DEF StoreStep, Import, Start, ImportStep, KeepBlob, CopyBlob,
           MakeDirectory, WriteManifest, Link, WritePromotion, Goto
      <3>4. ASSUME CreateStep(c) PROVE pc'[c] # "promote"
        BY <3>1, <3>4 DEF CreateStep, VerifyModel, CopyManifest, CopyArtifact, CopyWeights,
           ModelCopied, CopyRelease, List, Sign, Abandon, Goto, Exit, Creating
      <3>5. ASSUME RecoverStep(c) PROVE pc'[c] # "promote"
        BY <3>1, <3>5 DEF RecoverStep, SkipModel, ImportModel, Install, CopyRuntimeFile,
           RenameRelease, KeepPrevious, SwitchCurrent, Goto, Exit
      <3>6. ASSUME NEW b \in Bundles,
                   Recover(c, b) \/ \E models \in SUBSET Models : Create(c, b, models)
            PROVE  pc'[c] # "promote"
        BY <3>6 DEF Recover, Create, Start
      <3> QED
        BY <3>1, <3>3, <3>4, <3>5, <3>6 DEF Command, Kill, Exit
    <2> QED
      BY <2>1, <2>2
  <1>4. \A d \in Commands : pc'[d] = "promote" => plan'[d].model \in directories'
    BY <1>1, <1>3, OwnStep DEF HostInv
  <1> QED
    BY <1>2, <1>4 DEF HostInv

LEMMA HostNext ==
  ASSUME RecoveryInv, HostInv, [Next]_vars
  PROVE  HostInv'
  <1>1. CASE NewMachine
    BY <1>1 DEF NewMachine, Busy, HostInv
  <1>2. CASE MapGpus \/ (\E b \in Bundles : Damage(b)) \/ UNCHANGED vars
    BY <1>2 DEF MapGpus, Damage, HostInv, vars, storeVars, store, importing
  <1>3. ASSUME NEW c \in Commands, Command(c) /\ UNCHANGED <<mapped, wiped>>
        PROVE  HostInv'
    BY <1>3, HostCommand
  <1>4. ASSUME NEW c \in Commands, Kill(c)
        PROVE  HostInv'
    BY <1>4, HostCommand DEF Kill
  <1> QED
    BY <1>1, <1>2, <1>3, <1>4 DEF Next, Done

-----------------------------------------------------------------------------
(***************************************************************************)
(* The theorems.                                                           *)
(***************************************************************************)
LEMMA RecoveryInvNext ==
  ASSUME RecoveryInv, [Next]_vars
  PROVE  RecoveryInv'
  BY StoreInvNext, BundleInvNext, ReleaseInvNext DEF RecoveryInv, ReleaseInv

THEOREM RecoveryInvHolds == Spec => []RecoveryInv
  <1>1. Init => RecoveryInv
    BY StoreInvInit, BundleInvInit, ReleaseInvInit DEF RecoveryInv
  <1>2. RecoveryInv /\ [Next]_vars => RecoveryInv'
    BY RecoveryInvNext
  <1> QED
    BY <1>1, <1>2, PTL DEF Spec

\* Every manifest is in the directory of its model.
THEOREM HostInvHolds == Spec => []HostInv
  <1>1. RecoveryInv /\ HostInv /\ [Next]_vars => HostInv'
    BY HostNext
  <1> QED
    BY <1>1, HostInit, RecoveryInvHolds, PTL DEF Spec

\* Every variable of the store, the bundles and the releases keeps its type.
THEOREM RecoveryTypes == Spec => []TypeOK
  <1>1. RecoveryInv /\ HostInv => TypeOK
    BY DEF RecoveryInv, StoreInv, BundleInv, ReleaseInv, ReleaseTypes, HostInv, TypeOK
  <1> QED
    BY <1>1, RecoveryInvHolds, HostInvHolds, PTL

\* Whatever imports, promotions, recoveries and kills do, an address holds what
\* it names, a manifest verifies and the name of a model reaches its weights.
THEOREM StoreIsSound == Spec => []StoreSound
  <1>1. RecoveryInv => StoreSound
    BY DEF RecoveryInv, StoreInv, StoreSound
  <1> QED
    BY <1>1, RecoveryInvHolds, PTL

\* current and previous are complete releases.
THEOREM LinksAreComplete == Spec => []LinksComplete
  <1>1. RecoveryInv => LinksComplete
    BY DEF RecoveryInv, ReleaseInv
  <1> QED
    BY <1>1, RecoveryInvHolds, PTL

\* The release that stops being current is the previous one.
THEOREM ThereIsAWayBack == Spec => WayBack
  <1>1. ASSUME RecoveryInv, [Next]_vars, current # current',
               None \notin {current, current'}
        PROVE  previous' = current
    <2>1. ASSUME NEW c \in Commands, Command(c)
          PROVE  SwitchCurrent(c)
      BY <1>1, <2>1 DEF Command, Create, CreateStep, VerifyModel, CopyManifest,
           CopyArtifact, CopyWeights, ModelCopied, CopyRelease, List, Sign, Abandon, Recover,
           RecoverStep, SkipModel, ImportModel, Install, CopyRuntimeFile,
           RenameRelease, KeepPrevious, installation
    <2>2. ASSUME NEW c \in Commands, SwitchCurrent(c)
          PROVE  previous' = current
      BY <1>1, <2>2 DEF SwitchCurrent, RecoveryInv, ReleaseInv
    <2>3. \E c \in Commands : Command(c)
      BY <1>1 DEF Next, Kill, Damage, MapGpus, NewMachine, Done, vars, installation
    <2> QED
      BY <2>1, <2>2, <2>3
  <1>2. RecoveryInv /\ [Next]_vars =>
           [(current # current' /\ None \notin {current, current'})
                => previous' = current]_vars
    BY <1>1
  <1> QED
    BY <1>2, RecoveryInvHolds, PTL DEF Spec, WayBack

\* What nothing has overlapped is as the command has left it.
THEOREM SoloInvHolds == Spec => []SoloInv
  <1>1. RecoveryInv /\ SoloInv /\ [Next]_vars => SoloInv'
    BY SoloNext
  <1> QED
    BY <1>1, SoloInit, RecoveryInvHolds, PTL DEF Spec

\* A bundle that verifies and that was created alone can be imported.
THEOREM SoloBundles == Spec => []SoloBundleImports
  <1>1. SoloInv => SoloBundleImports
    BY DEF SoloInv, Signed, SoloBundleImports, Verifies
  <1> QED
    BY <1>1, SoloInvHolds, PTL

\* A command that moves without being killed has taken a step of its own.
LEMMA OwnCommand ==
  ASSUME RecoveryInv, [Next]_vars, NEW c \in Commands, pc'[c] # pc[c], kills' = kills
  PROVE  Command(c)
  <1>1. \E d \in Commands : Command(d)
    <2>1. kills \in Nat
      BY BoundAssumption DEF RecoveryInv, StoreInv, StoreTypeOK
    <2>2. ASSUME NEW d \in Commands PROVE ~Kill(d)
      BY <2>1 DEF Kill
    <2> QED
      BY <2>2 DEF Next, Damage, MapGpus, NewMachine, Done, vars, storeVars
  <1>2. PICK d \in Commands : Command(d)
    BY <1>1
  <1>3. c = d
    BY <1>2, OwnStep
  <1> QED
    BY <1>2, <1>3

\* What a command can do where it is.
LEMMA WhichStep ==
  ASSUME NEW c \in Commands, Command(c), pc[c] \in {"link", "current"}
  PROVE  /\ pc[c] = "link" => Link(c)
         /\ pc[c] = "current" => SwitchCurrent(c)
  <1>1. CASE StoreStep(c)
    <2>1. ImportStep(c)
      BY <1>1 DEF StoreStep, Import, ReadForPromotion, Start, WritePromotion
    <2> QED
      BY <2>1 DEF ImportStep, KeepBlob, CopyBlob, MakeDirectory, WriteManifest, Link, Goto
  <1>2. ~CreateStep(c)
    BY DEF CreateStep, VerifyModel, CopyManifest, CopyArtifact, CopyWeights, ModelCopied,
           CopyRelease, List, Sign, Abandon, Goto, Creating
  <1>3. CASE RecoverStep(c)
    BY <1>3 DEF RecoverStep, SkipModel, ImportModel, Install, CopyRuntimeFile,
                RenameRelease, KeepPrevious, SwitchCurrent, Goto
  <1> QED
    BY <1>1, <1>2, <1>3 DEF Command, Create, Recover, Start

\* An import that nothing overlaps delivers its manifest, its links and blobs,
\* whatever was killed before.
THEOREM ImportsDeliver == Spec => ImportDelivers
  <1>1. ASSUME RecoveryInv, SoloInv, [Next]_vars, NEW c \in Commands,
               pc[c] = "link", pc'[c] # "link", alone[c], kills' = kills
        PROVE  /\ manifest'[plan[c].model] = [of |-> plan[c], status |-> "verified"]
               /\ link'[plan[c].model] = plan[c].weights
               /\ \A d \in Artifacts(plan[c]) : blob'[d] = d
    <2>1. Command(c)
      BY <1>1, OwnCommand
    <2>2. Link(c)
      BY <1>1, <2>1, WhichStep
    <2>3. plan[c] \in Manifests /\ plan[c].model \in Models
      BY <1>1, ArtifactsType DEF RecoveryInv, StoreInv, PlanInv, Sure
    <2>4. \A d \in Artifacts(plan[c]) : blob'[d] = d
      BY <1>1, <2>2 DEF Link, RecoveryInv, StoreInv, PlanInv, Sure
    <2>5. manifest'[plan[c].model] = [of |-> plan[c], status |-> "verified"]
      BY <1>1, <2>2 DEF Link, SoloInv, Placed
    <2>6. link'[plan[c].model] = plan[c].weights
      BY <1>1, <2>2, <2>3 DEF Link, RecoveryInv, StoreInv, StoreTypeOK
    <2> QED
      BY <2>4, <2>5, <2>6
  <1>2. RecoveryInv /\ SoloInv /\ [Next]_vars =>
           [\A c \in Commands :
              (pc[c] = "link" /\ pc'[c] # "link" /\ alone[c] /\ kills' = kills)
                  => LET v == plan[c] IN
                     /\ manifest'[v.model] = [of |-> v, status |-> "verified"]
                     /\ link'[v.model] = v.weights
                     /\ \A d \in Artifacts(v) : blob'[d] = d]_storeVars
    BY <1>1
  <1> QED
    BY <1>2, RecoveryInvHolds, SoloInvHolds, PTL DEF Spec, ImportDelivers

\* A recovery that nothing overlaps delivers the models and the release.  Its
\* doctor finds the system healthy, if the GPUs are mapped and if no import was
\* killed in the new directory of a model that the bundle does not bring: the
\* recovery neither maps them nor clears such a directory away.
THEOREM RecoveriesDeliver == Spec => RecoveryDelivers
  <1>1. ASSUME RecoveryInv, SoloInv, HostInv, [Next]_vars, NEW c \in Commands,
               pc[c] = "current", pc'[c] = "idle", alone[c], kills' = kills
        PROVE  LET b == on[c]
                   imported == {m \in InBundle(b) : HasWeights(b, m)} IN
               /\ current' = b
               /\ release'[b] = RuntimeFiles
               /\ \A m \in imported :
                     /\ manifest'[m] # None
                     /\ manifest'[m].of = bundle[b].manifest[m]
                     /\ link'[m] = bundle[b].manifest[m].weights
               /\ (mapped /\ imported # {} /\ Leftovers \subseteq imported) => Healthy'
    <2>0. mapped' = mapped
      BY <1>1 DEF Next, Kill, Damage, MapGpus, NewMachine, Done, vars, storeVars
    <2>1. Command(c)
      BY <1>1, OwnCommand
    <2>2. SwitchCurrent(c)
      BY <1>1, <2>1, WhichStep
    <2>3. current' = on[c] /\ UNCHANGED <<blob, manifest, link, directories, release>>
      BY <2>2 DEF SwitchCurrent, store
    <2>4. release'[on[c]] = RuntimeFiles
      BY <1>1, <2>3 DEF RecoveryInv, ReleaseInv
    <2>5. RecoveryBusy(c) /\ Imported(c) /\ rest[c] = {}
      BY <1>1 DEF RecoveryBusy, Recovering, SoloInv, Imported
    <2>6. \A m \in InBundle(on[c]) : HasWeights(on[c], m) => InPlace(on[c], m)
      BY <1>1, <2>5 DEF Imported
    <2>7. current' # None
      BY <1>1, <2>3, <2>5, ReleaseAssumption DEF RecoveryInv, BundleInv
    <2>8. \A m \in Models : manifest[m] # None => m \in directories /\ Verified(m)'
      BY <1>1, <2>3 DEF RecoveryInv, StoreInv, InstalledVerifies, Verified, HostInv
    <2>9. \A m \in InBundle(on[c]) : HasWeights(on[c], m) => m \in Models /\ manifest[m] # None
      BY <2>6 DEF InPlace, InBundle
    <2>10. ASSUME mapped, NEW m \in InBundle(on[c]), HasWeights(on[c], m),
                  Leftovers \subseteq {n \in InBundle(on[c]) : HasWeights(on[c], n)}
           PROVE  Healthy'
      <3>1. m \in directories
        BY <2>8, <2>9, <2>10
      <3>2. \A n \in directories : n \in Models /\ manifest[n] # None
        BY <1>1, <2>9, <2>10 DEF Leftovers, RecoveryInv, StoreInv, StoreTypeOK
      <3>3. \A n \in directories : Verified(n)'
        BY <2>8, <3>2
      <3> QED
        BY <2>0, <2>3, <2>7, <2>10, <3>1, <3>3 DEF Healthy
    <2> QED
      BY <2>3, <2>4, <2>6, <2>10 DEF InPlace
  <1>2. RecoveryInv /\ SoloInv /\ HostInv /\ [Next]_vars =>
           [\A c \in Commands :
              (pc[c] = "current" /\ pc'[c] = "idle" /\ alone[c] /\ kills' = kills)
                  => LET b == on[c]
                         imported == {m \in InBundle(b) : HasWeights(b, m)} IN
                     /\ current' = b
                     /\ release'[b] = RuntimeFiles
                     /\ \A m \in imported :
                           /\ manifest'[m] # None
                           /\ manifest'[m].of = bundle[b].manifest[m]
                           /\ link'[m] = bundle[b].manifest[m].weights
                     /\ (mapped /\ imported # {} /\ Leftovers \subseteq imported) => Healthy']_vars
    BY <1>1
  <1> QED
    BY <1>2, RecoveryInvHolds, SoloInvHolds, HostInvHolds, PTL DEF Spec, RecoveryDelivers
===============================================================================
