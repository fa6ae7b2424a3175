----------------------------- MODULE KvCacheProofs -----------------------------
(***************************************************************************)
(* Proofs about the KV checkpoints, for any number of commands, sessions,  *)
(* identities and kills and any quota: a checkpoint is sound unless a      *)
(* prune has removed it under a restore, what a restore brings back is of  *)
(* the identity of the session, unless that is replaced while there is     *)
(* something of the session to mislabel, no checkpoint is overwritten, and *)
(* a prune that nothing disturbs removes no more and no less than the      *)
(* quota asks.                                                             *)
(***************************************************************************)
EXTENDS KvCache, FiniteSetTheorems, TLAPS

-----------------------------------------------------------------------------
(***************************************************************************)
(* The invariant.                                                          *)
(***************************************************************************)
\* A command that works on a session.
Working == {"copyLive", "writeMeta", "install", "unlink"} \cup Restoring

\* A live payload belongs to an active session, as it is registered.
LiveInv ==
    \A s \in Sessions : live[s] # None =>
        s \in active /\ (s \notin renamed => live[s].identity = registered[s])

\* A command that copies has read the identity of its session.
CurrentInv ==
    \A c \in Commands : pc[c] \in {"copyLive", "writeMeta", "install"} \cup Restoring =>
        /\ current[c] # None
        /\ on[c] \notin renamed => current[c] = registered[on[c]]

\* Metadata names the payload of its own identity.
MetaInv ==
    /\ \A s \in Sessions \ renamed : kept[s].meta # None =>
          kept[s].meta.digest.identity = kept[s].meta.identity
    /\ \A c \in Commands : pc[c] \in Restoring =>
          /\ known[c] # None
          /\ on[c] \notin renamed => known[c].digest.identity = known[c].identity

\* What a checkpoint prepares is of the session as it is registered.
DraftInv ==
    \A c \in Commands : pc[c] \in {"writeMeta", "install"} =>
        /\ draft[c].payload # None
        /\ on[c] \notin renamed => draft[c].payload.identity = registered[on[c]]
        /\ pc[c] = "install" =>
              /\ draft[c].meta # None
              /\ draft[c].meta.digest = draft[c].payload
              /\ on[c] \notin renamed => draft[c].meta.identity = registered[on[c]]

\* So is what a restore has verified, what it will copy and what it has copied.
RestoreInv ==
    \A c \in Commands : pc[c] \in Restoring =>
        /\ on[c] \notin renamed => known[c].identity = registered[on[c]]
        /\ on[c] \notin renamed /\ kept[on[c]].payload # None =>
              kept[on[c]].payload.identity = registered[on[c]]
        /\ pc[c] = "installLive" =>
              /\ copy[c] # None
              /\ on[c] \notin renamed => copy[c].identity = registered[on[c]]

\* Until a prune removes it under the restore, the checkpoint is the one verified.
VerifiedInv ==
    \A c \in Commands : pc[c] \in Restoring /\ on[c] \notin removed =>
        kept[on[c]].meta # None /\ kept[on[c]].payload = known[c].digest

CacheInv ==
    /\ TypeOK
    /\ \A c \in Commands : pc[c] \in Working => on[c] \in Sessions
    /\ LiveInv /\ CurrentInv /\ MetaInv /\ DraftInv /\ RestoreInv /\ VerifiedInv
    /\ CheckpointSound

-----------------------------------------------------------------------------
\* Records are not None.
LEMMA Records ==
  /\ \A r \in Payload : r # None /\ r.identity \in Identities
  /\ \A r \in Metadata : r # None /\ r.identity \in Identities /\ r.digest \in Payload
  /\ Absent \in Directory /\ Absent.payload = None /\ Absent.meta = None
  /\ Blank \in Directory /\ Blank.payload = None /\ Blank.meta = None
  /\ \A r \in Directory : r.payload \in Payload \cup {None} /\ r.meta \in Metadata \cup {None}
  BY RecordAssumption DEF Payload, Metadata, Directory, Absent, Blank

LEMMA CacheInvInit == Init => CacheInv
  <1> SUFFICES ASSUME Init PROVE CacheInv
    OBVIOUS
  <1>1. TypeOK
    BY Records, CacheAssumption DEF Init, TypeOK, Steps
  <1>2. LiveInv /\ CurrentInv /\ MetaInv /\ DraftInv /\ RestoreInv /\ VerifiedInv
       /\ CheckpointSound
    BY Records DEF Init, LiveInv, CurrentInv, MetaInv, DraftInv, RestoreInv, VerifiedInv,
                   CheckpointSound, Restoring
  <1> QED
    BY <1>1, <1>2 DEF CacheInv, Init, Working, Restoring

-----------------------------------------------------------------------------
(***************************************************************************)
(* checkpoint.                                                             *)
(***************************************************************************)
LEMMA ExitCache ==
  ASSUME CacheInv, NEW c \in Commands, Exit(c)
  PROVE  /\ pc' \in [Commands -> Steps] /\ on' \in [Commands -> Sessions \cup {None}]
         /\ draft' \in [Commands -> Directory] /\ known' \in [Commands -> Metadata \cup {None}]
         /\ current' \in [Commands -> Identities \cup {None}]
         /\ copy' \in [Commands -> Payload \cup {None}] /\ files' \in [Commands -> SUBSET File]
         /\ todo' \in [Commands -> SUBSET Entry] /\ total' \in [Commands -> Nat]
         /\ undisturbed' \in [Commands -> BOOLEAN]
         /\ pc'[c] = "idle"
         /\ \A d \in Commands \ {c} : /\ pc'[d] = pc[d] /\ on'[d] = on[d]
                                      /\ draft'[d] = draft[d] /\ known'[d] = known[d]
                                      /\ copy'[d] = copy[d] /\ current'[d] = current[d]
  BY Records DEF Exit, CacheInv, TypeOK, Steps

\* A step that leaves the directories alone keeps what the other commands know.
LEMMA Frame ==
  ASSUME CacheInv, TypeOK', NEW c \in Commands,
         UNCHANGED <<registered, active, live, kept, removed, renamed>>,
         \A d \in Commands \ {c} : /\ pc'[d] = pc[d] /\ on'[d] = on[d]
                                   /\ draft'[d] = draft[d] /\ known'[d] = known[d]
                                   /\ copy'[d] = copy[d] /\ current'[d] = current[d],
         pc'[c] \notin Working
  PROVE  CacheInv'
  <1>1. LiveInv' /\ CheckpointSound'
    BY DEF CacheInv, LiveInv, CheckpointSound
  <1>2. CurrentInv' /\ MetaInv' /\ DraftInv' /\ RestoreInv' /\ VerifiedInv'
    BY DEF CacheInv, CurrentInv, MetaInv, DraftInv, RestoreInv, VerifiedInv, Working
  <1> QED
    BY <1>1, <1>2 DEF CacheInv

LEMMA CheckpointCache ==
  ASSUME CacheInv, NEW c \in Commands, NEW s \in Sessions, Checkpoint(c, s)
  PROVE  CacheInv'
  <1> USE Records
  <1>1. /\ pc[c] = "idle" /\ pc' = [pc EXCEPT ![c] = "copyLive"] /\ on' = [on EXCEPT ![c] = s]
        /\ draft' = [draft EXCEPT ![c] = Blank]
        /\ current' = [current EXCEPT ![c] = registered[s]] /\ registered[s] \in Identities
        /\ UNCHANGED <<registered, active, live, kept, hidden, known, copy, files, todo, total>>
        /\ UNCHANGED <<removed, renamed, upsets, serves>> /\ undisturbed' \in [Commands -> BOOLEAN]
    BY DEF Checkpoint, Begin, disk, observed, CacheInv, TypeOK
  <1>2. TypeOK'
    BY <1>1 DEF CacheInv, TypeOK, Steps, Restoring
  <1>3. /\ pc'[c] = "copyLive" /\ on'[c] = s /\ current'[c] = registered[s]
        /\ \A d \in Commands \ {c} : /\ pc'[d] = pc[d] /\ on'[d] = on[d]
                                     /\ draft'[d] = draft[d] /\ current'[d] = current[d]
    BY <1>1 DEF CacheInv, TypeOK
  <1>4. LiveInv' /\ CheckpointSound'
    BY <1>1 DEF CacheInv, LiveInv, CheckpointSound
  <1>5. CurrentInv' /\ MetaInv' /\ DraftInv' /\ RestoreInv' /\ VerifiedInv'
    BY <1>1, <1>3, NoneAssumption
       DEF CacheInv, CurrentInv, MetaInv, DraftInv, RestoreInv, VerifiedInv, Restoring
  <1> QED
    BY <1>1, <1>2, <1>3, <1>4, <1>5 DEF CacheInv

LEMMA CopyLiveCache ==
  ASSUME CacheInv, NEW c \in Commands, CopyLive(c)
  PROVE  CacheInv'
  <1> USE Records
  <1>1. /\ pc[c] = "copyLive" /\ on[c] \in Sessions
        /\ UNCHANGED <<registered, active, live, kept, hidden, removed, renamed, upsets, serves>>
    BY DEF CopyLive, disk, observed, CacheInv, Working
  <1>2. CASE live[on[c]] = None
    <2>1. Exit(c)
      BY <1>2 DEF CopyLive
    <2>2. TypeOK'
      BY <1>1, <2>1, ExitCache DEF CacheInv, TypeOK
    <2>3. pc'[c] \notin Working
      BY <2>1, ExitCache DEF Working, Restoring
    <2> QED
      BY <1>1, <2>1, <2>2, <2>3, ExitCache, Frame
  <1>3. CASE live[on[c]] # None
    <2>1. /\ pc' = [pc EXCEPT ![c] = "writeMeta"]
          /\ draft' = [draft EXCEPT ![c].payload = live[on[c]]]
          /\ UNCHANGED <<on, current, known, copy, files, todo, total, undisturbed>>
      BY <1>3 DEF CopyLive
    <2>2. /\ live[on[c]] \in Payload /\ draft \in [Commands -> Directory]
          /\ on[c] \notin renamed => live[on[c]].identity = registered[on[c]]
      BY <1>1, <1>3 DEF CacheInv, TypeOK, LiveInv
    <2>3. draft' \in [Commands -> Directory] /\ draft'[c].payload = live[on[c]]
      BY <2>1, <2>2 DEF Directory
    <2>4. TypeOK'
      BY <1>1, <2>1, <2>3 DEF CacheInv, TypeOK, Steps
    <2>5. /\ pc'[c] = "writeMeta"
          /\ \A d \in Commands \ {c} : pc'[d] = pc[d] /\ draft'[d] = draft[d]
      BY <2>1, <2>2 DEF CacheInv, TypeOK
    <2>6. LiveInv' /\ CheckpointSound'
      BY <1>1 DEF CacheInv, LiveInv, CheckpointSound
    <2>7. CurrentInv' /\ MetaInv' /\ DraftInv' /\ RestoreInv' /\ VerifiedInv'
      BY <1>1, <1>3, <2>1, <2>2, <2>3, <2>5
         DEF CacheInv, CurrentInv, MetaInv, DraftInv, RestoreInv, VerifiedInv, Restoring
    <2> QED
      BY <1>1, <2>1, <2>4, <2>5, <2>6, <2>7 DEF CacheInv
  <1> QED
    BY <1>2, <1>3

LEMMA WriteMetaCache ==
  ASSUME CacheInv, NEW c \in Commands, WriteMeta(c)
  PROVE  CacheInv'
  <1> USE Records
  <1> DEFINE meta == [identity |-> current[c], digest |-> draft[c].payload]
  <1>1. /\ pc[c] = "writeMeta" /\ pc' = [pc EXCEPT ![c] = "install"]
        /\ draft' = [draft EXCEPT ![c].meta = meta]
        /\ UNCHANGED <<registered, active, live, kept, hidden, removed, renamed, upsets, serves>>
        /\ UNCHANGED <<on, current, known, copy, files, todo, total, undisturbed>>
    BY DEF WriteMeta, Goto, disk, observed
  <1>2. /\ on[c] \in Sessions /\ draft[c].payload \in Payload
        /\ current[c] \in Identities
        /\ on[c] \notin renamed => /\ current[c] = registered[on[c]]
                                  /\ draft[c].payload.identity = registered[on[c]]
        /\ draft \in [Commands -> Directory]
    BY <1>1 DEF CacheInv, TypeOK, CurrentInv, DraftInv, Working
  <1>3. meta \in Metadata
    BY <1>2 DEF Metadata
  <1>4. /\ draft' \in [Commands -> Directory] /\ draft'[c].meta = meta
        /\ draft'[c].payload = draft[c].payload
    BY <1>1, <1>2, <1>3 DEF Directory
  <1>5. /\ draft'[c].meta # None /\ draft'[c].meta.identity = current[c]
        /\ draft'[c].meta.digest = draft[c].payload
    BY <1>3, <1>4
  <1>6. TypeOK'
    BY <1>1, <1>4 DEF CacheInv, TypeOK, Steps
  <1>7. /\ pc'[c] = "install"
        /\ \A d \in Commands \ {c} : pc'[d] = pc[d] /\ draft'[d] = draft[d]
    BY <1>1, <1>2 DEF CacheInv, TypeOK
  <1>8. LiveInv' /\ CheckpointSound'
    BY <1>1 DEF CacheInv, LiveInv, CheckpointSound
  <1> HIDE DEF meta
  <1>9. CurrentInv' /\ MetaInv' /\ DraftInv' /\ RestoreInv' /\ VerifiedInv'
    BY <1>1, <1>2, <1>4, <1>5, <1>7
       DEF CacheInv, CurrentInv, MetaInv, DraftInv, RestoreInv, VerifiedInv, Restoring
  <1> QED
    BY <1>1, <1>2, <1>6, <1>7, <1>8, <1>9 DEF CacheInv

\* The draft takes the place of an absent or an empty directory: nobody restores
\* from that one unless a prune has removed it under the restore.
LEMMA InstallCheckpointCache ==
  ASSUME CacheInv, NEW c \in Commands, InstallCheckpoint(c)
  PROVE  CacheInv'
  <1> USE Records
  <1>1. /\ pc[c] = "install" /\ on[c] \in Sessions /\ Exit(c)
        /\ UNCHANGED <<registered, active, live, hidden, removed, renamed, upsets, serves>>
    BY DEF InstallCheckpoint, observed, CacheInv, Working
  <1>2. /\ draft[c] \in Directory /\ draft[c].payload # None /\ draft[c].meta # None
        /\ draft[c].payload = draft[c].meta.digest
        /\ on[c] \notin renamed => /\ draft[c].payload.identity = registered[on[c]]
                                  /\ draft[c].meta.identity = registered[on[c]]
    BY <1>1 DEF CacheInv, DraftInv, TypeOK
  <1>3. /\ kept' \in [Sessions -> Directory] /\ kept \in [Sessions -> Directory]
        /\ \/ kept' = kept
           \/ /\ kept[on[c]].payload = None /\ kept[on[c]].meta = None
              /\ kept'[on[c]] = draft[c]
              /\ \A s \in Sessions \ {on[c]} : kept'[s] = kept[s]
    BY <1>1, <1>2 DEF InstallCheckpoint, CacheInv, TypeOK
  <1>4. TypeOK'
    BY <1>1, <1>3, ExitCache DEF CacheInv, TypeOK
  <1>5. pc'[c] \notin Working
    BY <1>1, ExitCache DEF Working, Restoring
  <1>6. CASE kept' = kept
    BY <1>1, <1>4, <1>5, <1>6, ExitCache, Frame
  <1>7. CASE kept' # kept
    <2>1. /\ kept[on[c]].payload = None /\ kept[on[c]].meta = None
          /\ kept'[on[c]] = draft[c]
          /\ \A s \in Sessions \ {on[c]} : kept'[s] = kept[s]
      BY <1>3, <1>7
    <2>2. LiveInv' /\ CheckpointSound'
      BY <1>1, <1>2, <2>1 DEF CacheInv, LiveInv, CheckpointSound
    <2>3. \A d \in Commands : pc'[d] \in Working =>
            /\ d # c /\ pc'[d] = pc[d] /\ on'[d] = on[d] /\ on[d] \in Sessions
            /\ draft'[d] = draft[d] /\ known'[d] = known[d] /\ copy'[d] = copy[d]
          /\ current'[d] = current[d]
      BY <1>1, <1>5, ExitCache DEF CacheInv
    <2>4. CurrentInv' /\ MetaInv' /\ DraftInv' /\ RestoreInv' /\ VerifiedInv'
      BY <1>1, <1>2, <2>1, <2>3
         DEF CacheInv, CurrentInv, MetaInv, DraftInv, RestoreInv, VerifiedInv, Working
    <2> QED
      BY <1>4, <2>2, <2>3, <2>4 DEF CacheInv
  <1> QED
    BY <1>6, <1>7

-----------------------------------------------------------------------------
(***************************************************************************)
(* restore.                                                                *)
(***************************************************************************)
LEMMA RestoreCache ==
  ASSUME CacheInv, NEW c \in Commands, NEW s \in Sessions, Restore(c, s)
  PROVE  CacheInv'
  <1> USE Records
  <1>1. /\ pc[c] = "idle" /\ pc' = [pc EXCEPT ![c] = "makeDir"] /\ on' = [on EXCEPT ![c] = s]
        /\ known' = [known EXCEPT ![c] = kept[s].meta]
        /\ current' = [current EXCEPT ![c] = registered[s]] /\ registered[s] \in Identities
        /\ UNCHANGED <<registered, active, live, kept, hidden, draft, copy, files, todo, total>>
        /\ UNCHANGED <<removed, renamed, upsets, serves>> /\ undisturbed' \in [Commands -> BOOLEAN]
    BY DEF Restore, Begin, disk, observed, CacheInv, TypeOK
  <1>2. /\ kept[s].meta # None /\ kept[s].meta \in Metadata
        /\ kept[s].meta.identity = registered[s]
        /\ kept[s].payload = kept[s].meta.digest
        /\ s \notin renamed => kept[s].meta.digest.identity = kept[s].meta.identity
    BY DEF Restore, VerifiesCheckpoint, CacheInv, TypeOK, MetaInv
  <1>3. TypeOK'
    BY <1>1, <1>2 DEF CacheInv, TypeOK, Steps, Restoring
  <1>4. /\ pc'[c] = "makeDir" /\ on'[c] = s /\ known'[c] = kept[s].meta
        /\ current'[c] = registered[s]
        /\ \A d \in Commands \ {c} : /\ pc'[d] = pc[d] /\ on'[d] = on[d]
                                     /\ known'[d] = known[d] /\ current'[d] = current[d]
    BY <1>1 DEF CacheInv, TypeOK
  <1>5. LiveInv' /\ CheckpointSound'
    BY <1>1 DEF CacheInv, LiveInv, CheckpointSound
  <1>6. CurrentInv' /\ MetaInv' /\ DraftInv' /\ RestoreInv' /\ VerifiedInv'
    BY <1>1, <1>2, <1>4, NoneAssumption
       DEF CacheInv, CurrentInv, MetaInv, DraftInv, RestoreInv, VerifiedInv, Restoring
  <1> QED
    BY <1>1, <1>3, <1>4, <1>5, <1>6 DEF CacheInv

LEMMA MakeLiveDirCache ==
  ASSUME CacheInv, NEW c \in Commands, MakeLiveDir(c)
  PROVE  CacheInv'
  <1>1. /\ pc[c] = "makeDir" /\ pc' = [pc EXCEPT ![c] = "copyKept"]
        /\ active' = active \cup {on[c]} /\ on[c] \in Sessions
        /\ UNCHANGED <<registered, live, kept, hidden, removed, renamed, upsets, serves>>
        /\ UNCHANGED <<on, draft, current, known, copy, files, todo, total, undisturbed>>
    BY DEF MakeLiveDir, Goto, memory, observed, CacheInv, Working, Restoring
  <1>2. TypeOK'
    BY <1>1 DEF CacheInv, TypeOK, Steps, Restoring
  <1>3. pc'[c] = "copyKept" /\ \A d \in Commands \ {c} : pc'[d] = pc[d]
    BY <1>1 DEF CacheInv, TypeOK
  <1>4. LiveInv' /\ CheckpointSound'
    BY <1>1 DEF CacheInv, LiveInv, CheckpointSound
  <1>5. CurrentInv' /\ MetaInv' /\ DraftInv' /\ RestoreInv' /\ VerifiedInv'
    BY <1>1, <1>3
       DEF CacheInv, CurrentInv, MetaInv, DraftInv, RestoreInv, VerifiedInv, Restoring
  <1> QED
    BY <1>1, <1>2, <1>3, <1>4, <1>5 DEF CacheInv

\* A command that gives up.
LEMMA LeaveCache ==
  ASSUME CacheInv, NEW c \in Commands, Exit(c), hidden' \subseteq Sessions,
         upsets' \in 0..MaxUpsets,
         UNCHANGED <<registered, active, live, kept, removed, renamed, serves>>
  PROVE  CacheInv'
  <1>1. TypeOK'
    BY ExitCache DEF CacheInv, TypeOK
  <1>2. pc'[c] \notin Working
    BY ExitCache DEF Working, Restoring
  <1> QED
    BY <1>1, <1>2, ExitCache, Frame

LEMMA CopyKeptCache ==
  ASSUME CacheInv, NEW c \in Commands, CopyKept(c)
  PROVE  CacheInv'
  <1> USE Records
  <1>1. /\ pc[c] = "copyKept" /\ on[c] \in Sessions
        /\ UNCHANGED <<registered, active, live, kept, hidden, removed, renamed, upsets, serves>>
    BY DEF CopyKept, disk, observed, CacheInv, Working, Restoring
  <1>2. CASE Exit(c)
    BY <1>1, <1>2, LeaveCache DEF CacheInv, TypeOK
  <1>3. CASE ~Exit(c)
    <2>1. /\ pc' = [pc EXCEPT ![c] = "installLive"]
          /\ copy' = [copy EXCEPT ![c] = kept[on[c]].payload] /\ kept[on[c]].payload # None
          /\ UNCHANGED <<on, draft, current, known, files, todo, total, undisturbed>>
      BY <1>3 DEF CopyKept
    <2>2. /\ kept[on[c]].payload \in Payload
          /\ on[c] \notin renamed => kept[on[c]].payload.identity = registered[on[c]]
      BY <1>1, <2>1 DEF CacheInv, TypeOK, RestoreInv, Restoring
    <2>3. TypeOK'
      BY <1>1, <2>1, <2>2 DEF CacheInv, TypeOK, Steps, Restoring
    <2>4. /\ pc'[c] = "installLive" /\ copy'[c] = kept[on[c]].payload
          /\ \A d \in Commands \ {c} : pc'[d] = pc[d] /\ copy'[d] = copy[d]
      BY <2>1 DEF CacheInv, TypeOK
    <2>5. LiveInv' /\ CheckpointSound'
      BY <1>1 DEF CacheInv, LiveInv, CheckpointSound
    <2>6. CurrentInv' /\ MetaInv' /\ DraftInv' /\ RestoreInv' /\ VerifiedInv'
      BY <1>1, <2>1, <2>2, <2>4
         DEF CacheInv, CurrentInv, MetaInv, DraftInv, RestoreInv, VerifiedInv, Restoring
    <2> QED
      BY <1>1, <2>1, <2>3, <2>4, <2>5, <2>6 DEF CacheInv
  <1> QED
    BY <1>2, <1>3

LEMMA InstallLiveCache ==
  ASSUME CacheInv, NEW c \in Commands, InstallLive(c)
  PROVE  CacheInv'
  <1> USE Records
  <1>1. /\ pc[c] = "installLive" /\ on[c] \in Sessions
        /\ UNCHANGED <<registered, active, kept, hidden, removed, renamed, upsets, serves>>
    BY DEF InstallLive, observed, CacheInv, Working, Restoring
  <1>2. CASE on[c] \notin active
    BY <1>1, <1>2, LeaveCache DEF InstallLive, CacheInv, TypeOK
  <1>3. CASE on[c] \in active
    <2>1. /\ live' = [live EXCEPT ![on[c]] = copy[c]] /\ pc' = [pc EXCEPT ![c] = "touch"]
          /\ UNCHANGED <<on, draft, current, known, copy, files, todo, total, undisturbed>>
      BY <1>3 DEF InstallLive, memory
    <2>2. /\ copy[c] \in Payload
          /\ on[c] \notin renamed => copy[c].identity = registered[on[c]]
      BY <1>1 DEF CacheInv, TypeOK, RestoreInv, Restoring
    <2>3. TypeOK'
      BY <1>1, <2>1, <2>2 DEF CacheInv, TypeOK, Steps, Restoring
    <2>4. /\ pc'[c] = "touch" /\ live'[on[c]] = copy[c]
          /\ \A d \in Commands \ {c} : pc'[d] = pc[d]
          /\ \A s \in Sessions \ {on[c]} : live'[s] = live[s]
      BY <1>1, <2>1 DEF CacheInv, TypeOK
    <2>5. LiveInv' /\ CheckpointSound'
      BY <1>1, <1>3, <2>2, <2>4 DEF CacheInv, LiveInv, CheckpointSound
    <2>6. CurrentInv' /\ MetaInv' /\ DraftInv' /\ RestoreInv' /\ VerifiedInv'
      BY <1>1, <2>1, <2>4
         DEF CacheInv, CurrentInv, MetaInv, DraftInv, RestoreInv, VerifiedInv, Restoring
    <2> QED
      BY <1>1, <2>1, <2>3, <2>4, <2>5, <2>6 DEF CacheInv
  <1> QED
    BY <1>2, <1>3

\* The last step of a restore: the metadata it has verified is still that of the
\* payload, unless the checkpoint was removed meanwhile.
LEMMA TouchCache ==
  ASSUME CacheInv, NEW c \in Commands, Touch(c)
  PROVE  CacheInv'
  <1> USE Records
  <1>1. /\ pc[c] = "touch" /\ on[c] \in Sessions /\ Exit(c)
        /\ UNCHANGED <<registered, active, live, hidden, removed, renamed, upsets, serves>>
    BY DEF Touch, observed, CacheInv, Working, Restoring
  <1>2. /\ known[c] \in Metadata
        /\ on[c] \notin renamed => known[c].digest.identity = known[c].identity
        /\ on[c] \notin removed => kept[on[c]].payload = known[c].digest
    BY <1>1 DEF CacheInv, TypeOK, MetaInv, VerifiedInv, Restoring
  <1>3. /\ kept' \in [Sessions -> Directory]
        /\ kept'[on[c]].payload = kept[on[c]].payload /\ kept'[on[c]].meta = known[c]
        /\ \A s \in Sessions \ {on[c]} : kept'[s] = kept[s]
    <2>1. kept' = [kept EXCEPT ![on[c]].there = TRUE, ![on[c]].meta = known[c]]
      BY DEF Touch
    <2>2. kept \in [Sessions -> Directory]
      BY DEF CacheInv, TypeOK
    <2> QED
      BY <1>1, <1>2, <2>1, <2>2 DEF Directory
  <1>4. TypeOK'
    BY <1>1, <1>3, ExitCache DEF CacheInv, TypeOK
  <1>5. \A d \in Commands : pc'[d] \in Working =>
          /\ d # c /\ pc'[d] = pc[d] /\ on'[d] = on[d] /\ on[d] \in Sessions
          /\ draft'[d] = draft[d] /\ known'[d] = known[d] /\ copy'[d] = copy[d]
          /\ current'[d] = current[d]
    BY <1>1, ExitCache DEF CacheInv, Working, Restoring
  <1>6. LiveInv' /\ CheckpointSound'
    BY <1>1, <1>2, <1>3 DEF CacheInv, LiveInv, CheckpointSound
  <1>7. CurrentInv' /\ MetaInv' /\ DraftInv' /\ RestoreInv' /\ VerifiedInv'
    BY <1>1, <1>2, <1>3, <1>5
       DEF CacheInv, CurrentInv, MetaInv, DraftInv, RestoreInv, VerifiedInv, Working
  <1> QED
    BY <1>4, <1>5, <1>6, <1>7 DEF CacheInv

-----------------------------------------------------------------------------
(***************************************************************************)
(* prune.                                                                  *)
(***************************************************************************)
\* What list_checkpoints finds can be counted.
LEMMA ListedFinite ==
  ASSUME NEW S \in SUBSET Entry
  PROVE  Cardinality(S) \in Nat
  <1> DEFINE Triples == BOOLEAN \X (Sessions \X (0..1))
             entry == [t \in Triples |-> [hidden |-> t[1], session |-> t[2][1], size |-> t[2][2]]]
  <1>1. IsFiniteSet(BOOLEAN)
    <2>1. IsFiniteSet({}) /\ IsFiniteSet({TRUE}) /\ IsFiniteSet({TRUE} \cup {FALSE})
      BY FS_EmptySet, FS_Singleton, FS_AddElement
    <2>2. BOOLEAN = {TRUE} \cup {FALSE}
      OBVIOUS
    <2> QED
      BY <2>1, <2>2
  <1>2. IsFiniteSet(Sessions \X (0..1))
    <2>1. 0 \in Int /\ 1 \in Int
      OBVIOUS
    <2>2. IsFiniteSet(0..1)
      BY <2>1, FS_Interval, Zenon
    <2> QED
      BY <2>2, CacheAssumption, FS_Product
  <1>3. IsFiniteSet(Triples)
    BY <1>1, <1>2, FS_Product
  <1>4. entry \in Surjection(Triples, Entry)
    <2>1. \A t \in Triples : entry[t] \in Entry
      BY DEF Entry
    <2>2. ASSUME NEW e \in Entry PROVE \E t \in Triples : entry[t] = e
      <3>1. <<e.hidden, <<e.session, e.size>>>> \in Triples
        BY DEF Entry
      <3>2. entry[<<e.hidden, <<e.session, e.size>>>>] = e
        BY <3>1 DEF Entry
      <3> QED
        BY <3>1, <3>2
    <2> QED
      BY <2>1, <2>2 DEF Surjection
  <1>5. IsFiniteSet(Entry)
    <2> HIDE DEF Triples, entry
    <2> QED
      BY <1>3, <1>4, FS_Surjection
  <1> QED
    BY <1>5, FS_Subset, FS_CardinalityType

\* The steps of a prune between two directories.
LEMMA VisitCache ==
  ASSUME CacheInv, NEW c \in Commands,
         \/ Prune(c) \/ EndPrune(c)
         \/ \E e \in Entry : SkipActive(c, e)
  PROVE  CacheInv'
  <1>1. CASE Prune(c)
    <2>1. /\ pc' = [pc EXCEPT ![c] = "visit"] /\ todo' = [todo EXCEPT ![c] = Listed]
          /\ total' = [total EXCEPT ![c] = Cardinality({e \in Listed : e.size = 1})]
          /\ undisturbed' \in [Commands -> BOOLEAN]
          /\ UNCHANGED <<registered, active, live, kept, hidden, removed, renamed, upsets, serves>>
          /\ UNCHANGED <<on, draft, current, known, copy, files>>
      BY <1>1 DEF Prune, Begin, disk, observed
    <2>2. Listed \subseteq Entry /\ Cardinality({e \in Listed : e.size = 1}) \in Nat
      <3>1. Listed \in SUBSET Entry /\ {e \in Listed : e.size = 1} \in SUBSET Entry
        BY DEF Listed
      <3> QED
        BY <3>1, ListedFinite
    <2>3. TypeOK'
      BY <2>1, <2>2 DEF CacheInv, TypeOK, Steps
    <2>4. pc'[c] \notin Working /\ \A d \in Commands \ {c} : pc'[d] = pc[d]
      BY <2>1 DEF CacheInv, TypeOK, Working, Restoring
    <2> QED
      BY <2>1, <2>3, <2>4, Frame
  <1>2. CASE EndPrune(c)
    BY <1>2, LeaveCache DEF EndPrune, disk, observed, CacheInv, TypeOK
  <1>3. ASSUME NEW e \in Entry, SkipActive(c, e) PROVE CacheInv'
    <2>1. /\ todo' = [todo EXCEPT ![c] = @ \ {e}]
          /\ UNCHANGED <<registered, active, live, kept, hidden, removed, renamed, upsets, serves>>
          /\ UNCHANGED <<pc, on, draft, current, known, copy, files, total, undisturbed>>
          /\ pc'[c] \notin Working
      BY <1>3 DEF SkipActive, disk, observed, Working, Restoring
    <2>2. TypeOK'
      BY <2>1 DEF CacheInv, TypeOK
    <2> QED
      BY <2>1, <2>2, Frame
  <1> QED
    BY <1>1, <1>2, <1>3

LEMMA ChooseCache ==
  ASSUME CacheInv, NEW c \in Commands, NEW e \in Entry, Choose(c, e)
  PROVE  CacheInv'
  <1>1. /\ pc[c] = "visit" /\ total[c] > Quota
        /\ UNCHANGED <<registered, active, live, kept, hidden, removed, renamed, upsets, serves>>
    BY DEF Choose, disk, observed
  <1>2. CASE Exit(c)
    BY <1>1, <1>2, LeaveCache DEF CacheInv, TypeOK
  <1>3. CASE ~Exit(c)
    <2>1. /\ pc' = [pc EXCEPT ![c] = "unlink"] /\ on' = [on EXCEPT ![c] = e.session]
          /\ files' = [files EXCEPT ![c] = {f \in File : kept[e.session][f] # None}]
          /\ todo' = [todo EXCEPT ![c] = @ \ {e}]
          /\ total' = [total EXCEPT ![c] = @ - e.size]
          /\ UNCHANGED <<draft, current, known, copy, undisturbed>>
      BY <1>3 DEF Choose
    <2>2. e.session \in Sessions /\ e.size \in 0..1
      BY DEF Entry
    <2>3. total[c] - e.size \in Nat
      BY <1>1, <2>2, CacheAssumption DEF CacheInv, TypeOK
    <2>4. TypeOK'
      BY <1>1, <2>1, <2>2, <2>3 DEF CacheInv, TypeOK, Steps
    <2>5. /\ pc'[c] = "unlink" /\ on'[c] \in Sessions
          /\ \A d \in Commands \ {c} : pc'[d] = pc[d] /\ on'[d] = on[d]
      BY <2>1, <2>2 DEF CacheInv, TypeOK
    <2>6. LiveInv' /\ CheckpointSound'
      BY <1>1 DEF CacheInv, LiveInv, CheckpointSound
    <2>7. CurrentInv' /\ MetaInv' /\ DraftInv' /\ RestoreInv' /\ VerifiedInv'
      BY <1>1, <2>1, <2>5
         DEF CacheInv, CurrentInv, MetaInv, DraftInv, RestoreInv, VerifiedInv, Restoring
    <2> QED
      BY <1>1, <2>4, <2>5, <2>6, <2>7 DEF CacheInv
  <1> QED
    BY <1>2, <1>3

\* A removal under a restore is remembered in removed.
LEMMA UnlinkCache ==
  ASSUME CacheInv, NEW c \in Commands, NEW f \in File, Unlink(c, f)
  PROVE  CacheInv'
  <1> USE Records
  <1>1. /\ pc[c] = "unlink" /\ on[c] \in Sessions
        /\ UNCHANGED <<registered, active, live, hidden, renamed, upsets, serves>>
    BY DEF Unlink, CacheInv, Working
  <1>2. CASE Exit(c) /\ UNCHANGED <<kept, removed>>
    BY <1>1, <1>2, LeaveCache DEF CacheInv, TypeOK
  <1>3. CASE ~(Exit(c) /\ UNCHANGED <<kept, removed>>)
    <2>1. /\ kept' = [kept EXCEPT ![on[c]][f] = None]
          /\ removed' = IF \E d \in Commands : on[d] = on[c] /\ pc[d] \in Restoring
                        THEN removed \cup {on[c]} ELSE removed
          /\ files' = [files EXCEPT ![c] = @ \ {f}]
          /\ UNCHANGED <<pc, on, draft, current, known, copy, todo, total, undisturbed>>
      BY <1>3 DEF Unlink
    <2>2. /\ kept' \in [Sessions -> Directory]
          /\ kept'[on[c]].payload \in {kept[on[c]].payload, None}
          /\ kept'[on[c]].meta \in {kept[on[c]].meta, None}
          /\ \A s \in Sessions \ {on[c]} : kept'[s] = kept[s]
      <3>1. kept \in [Sessions -> Directory]
        BY DEF CacheInv, TypeOK
      <3>2. CASE f = "payload"
        BY <1>1, <2>1, <3>1, <3>2 DEF Directory
      <3>3. CASE f = "meta"
        BY <1>1, <2>1, <3>1, <3>3 DEF Directory
      <3> QED
        BY <3>2, <3>3 DEF File
    <2>3. TypeOK'
      BY <1>1, <2>1, <2>2 DEF CacheInv, TypeOK
    <2>4. /\ removed \subseteq removed'
          /\ \A d \in Commands : pc[d] \in Restoring /\ on[d] \notin removed' => on[d] # on[c]
      BY <2>1
    <2>5. LiveInv' /\ CheckpointSound'
      BY <1>1, <2>2, <2>4 DEF CacheInv, LiveInv, CheckpointSound
    <2>6. \A d \in Commands : pc[d] \in Restoring => on[d] \in Sessions
      BY DEF CacheInv, Working
    <2>7. CurrentInv' /\ MetaInv' /\ DraftInv' /\ RestoreInv' /\ VerifiedInv'
      BY <1>1, <2>1, <2>2, <2>4, <2>6
         DEF CacheInv, CurrentInv, MetaInv, DraftInv, RestoreInv, VerifiedInv
    <2> QED
      BY <2>1, <2>3, <2>5, <2>7 DEF CacheInv
  <1> QED
    BY <1>2, <1>3

LEMMA RemoveDirCache ==
  ASSUME CacheInv, NEW c \in Commands, RemoveDir(c)
  PROVE  CacheInv'
  <1> USE Records
  <1>1. /\ pc[c] = "unlink" /\ on[c] \in Sessions
        /\ UNCHANGED <<registered, active, live, hidden, removed, renamed, upsets, serves>>
    BY DEF RemoveDir, observed, CacheInv, Working
  <1>2. CASE kept[on[c]] # Blank
    BY <1>1, <1>2, LeaveCache DEF RemoveDir, CacheInv, TypeOK
  <1>3. CASE kept[on[c]] = Blank
    <2>1. /\ kept' = [kept EXCEPT ![on[c]] = Absent] /\ pc' = [pc EXCEPT ![c] = "visit"]
          /\ on' = [on EXCEPT ![c] = None]
          /\ UNCHANGED <<draft, current, known, copy, files, todo, total, undisturbed>>
      BY <1>3 DEF RemoveDir
    <2>2. /\ kept[on[c]].payload = None /\ kept[on[c]].meta = None
          /\ kept'[on[c]].payload = None /\ kept'[on[c]].meta = None
          /\ \A s \in Sessions \ {on[c]} : kept'[s] = kept[s]
      BY <1>1, <1>3, <2>1 DEF CacheInv, TypeOK
    <2>3. TypeOK'
      BY <1>1, <2>1 DEF CacheInv, TypeOK, Steps
    <2>4. /\ pc'[c] = "visit"
          /\ \A d \in Commands \ {c} : pc'[d] = pc[d] /\ on'[d] = on[d]
      BY <2>1 DEF CacheInv, TypeOK
    <2>5. \A d \in Commands : pc'[d] \in Working =>
            d # c /\ pc'[d] = pc[d] /\ on'[d] = on[d] /\ on[d] \in Sessions
      BY <2>4 DEF CacheInv, Working, Restoring
    <2>6. LiveInv' /\ CheckpointSound'
      BY <1>1, <2>2 DEF CacheInv, LiveInv, CheckpointSound
    <2>7. CurrentInv' /\ MetaInv' /\ DraftInv' /\ RestoreInv' /\ VerifiedInv'
      BY <1>1, <2>1, <2>2, <2>5
         DEF CacheInv, CurrentInv, MetaInv, DraftInv, RestoreInv, VerifiedInv, Working
    <2> QED
      BY <2>3, <2>5, <2>6, <2>7 DEF CacheInv
  <1> QED
    BY <1>2, <1>3

-----------------------------------------------------------------------------
(***************************************************************************)
(* Kills and the runtime.                                                  *)
(***************************************************************************)
LEMMA KillCache ==
  ASSUME CacheInv, NEW c \in Commands, Kill(c)
  PROVE  CacheInv'
  <1>1. hidden' \subseteq Sessions
    BY DEF Kill, CacheInv, TypeOK, Working
  <1>2. upsets' \in 0..MaxUpsets
    BY CacheAssumption DEF Kill, CacheInv, TypeOK
  <1> QED
    BY <1>1, <1>2, LeaveCache DEF Kill

\* A session that register finds with a payload or at work is in renamed from then on.
LEMMA RegisterCache ==
  ASSUME CacheInv, NEW s \in Sessions, NEW i \in Identities, Register(s, i)
  PROVE  CacheInv'
  <1> USE Records
  <1>1. /\ UNCHANGED <<active, live, kept, hidden, removed, serves>>
        /\ UNCHANGED <<pc, on, draft, current, known, copy, files, todo, total, undisturbed>>
    BY DEF Register, memory
  <1>2. CASE UNCHANGED <<registered, renamed, upsets>>
    <2>1. TypeOK'
      BY <1>1, <1>2 DEF CacheInv, TypeOK
    <2>2. LiveInv' /\ CheckpointSound'
      BY <1>1, <1>2 DEF CacheInv, LiveInv, CheckpointSound
    <2>3. CurrentInv' /\ MetaInv' /\ DraftInv' /\ RestoreInv' /\ VerifiedInv'
      BY <1>1, <1>2 DEF CacheInv, CurrentInv, MetaInv, DraftInv, RestoreInv, VerifiedInv
    <2> QED
      BY <1>1, <2>1, <2>2, <2>3 DEF CacheInv
  <1>3. CASE ~UNCHANGED <<registered, renamed, upsets>>
    <2>1. /\ upsets < MaxUpsets /\ upsets' = upsets + 1
          /\ registered' = [registered EXCEPT ![s] = i]
          /\ renamed' = IF live[s] # None \/ \E c \in Commands : on[c] = s /\ current[c] # None
                        THEN renamed \cup {s} ELSE renamed
      BY <1>3 DEF Register, Works
    <2>2. TypeOK'
      BY <1>1, <2>1, CacheAssumption DEF CacheInv, TypeOK
    <2>3. /\ renamed \subseteq renamed'
          /\ \A t \in Sessions \ {s} : registered'[t] = registered[t]
          /\ live[s] # None => s \in renamed'
          /\ \A c \in Commands : on[c] = s /\ current[c] # None => s \in renamed'
      BY <2>1 DEF CacheInv, TypeOK
    <2>4. \A c \in Commands :
            pc[c] \in {"copyLive", "writeMeta", "install"} \cup Restoring =>
              /\ on[c] \in Sessions /\ current[c] # None
              /\ on[c] \notin renamed' => on[c] \notin renamed
                                          /\ registered'[on[c]] = registered[on[c]]
      BY <2>3 DEF CacheInv, CurrentInv, Working
    <2>5. LiveInv' /\ CheckpointSound'
      BY <1>1, <2>3 DEF CacheInv, LiveInv, CheckpointSound
    <2>6. CurrentInv' /\ DraftInv'
      BY <1>1, <2>4 DEF CacheInv, CurrentInv, DraftInv
    <2>7. MetaInv' /\ RestoreInv' /\ VerifiedInv'
      BY <1>1, <2>3, <2>4 DEF CacheInv, MetaInv, RestoreInv, VerifiedInv
    <2> QED
      BY <1>1, <2>2, <2>5, <2>6, <2>7 DEF CacheInv
  <1> QED
    BY <1>2, <1>3

LEMMA RuntimeCache ==
  ASSUME CacheInv, NEW s \in Sessions,
         End(s) \/ \E content \in Contents : Serve(s, content)
  PROVE  CacheInv'
  <1> USE Records
  <1>1. /\ UNCHANGED <<registered, kept, hidden, removed, renamed, upsets>>
        /\ UNCHANGED <<pc, on, draft, current, known, copy, files, todo, total>>
        /\ undisturbed' \in [Commands -> BOOLEAN]
    BY DEF Serve, End, Disturbed, observed
  <1>2. /\ active' \subseteq Sessions /\ live' \in [Sessions -> Payload \cup {None}]
        /\ LiveInv' /\ serves' \in 0..MaxServes
    <2>1. ASSUME NEW content \in Contents, Serve(s, content)
          PROVE  /\ active' \subseteq Sessions /\ live' \in [Sessions -> Payload \cup {None}]
                 /\ LiveInv' /\ serves' \in 0..MaxServes
      <3> DEFINE payload == [identity |-> registered[s], content |-> content]
      <3>1. payload \in Payload /\ payload.identity = registered[s]
        BY DEF Payload, CacheInv, TypeOK
      <3>2. /\ live' = [live EXCEPT ![s] = payload] /\ active' = active \cup {s}
            /\ serves < MaxServes /\ serves' = serves + 1
        BY <2>1 DEF Serve
      <3> HIDE DEF payload
      <3>3. serves' \in 0..MaxServes
        BY <3>2, CacheAssumption DEF CacheInv, TypeOK
      <3> QED
        BY <1>1, <3>1, <3>2, <3>3 DEF CacheInv, TypeOK, LiveInv
    <2>2. CASE End(s)
      BY <1>1, <2>2 DEF End, observed, CacheInv, TypeOK, LiveInv
    <2> QED
      BY <2>1, <2>2
  <1>3. TypeOK'
    BY <1>1, <1>2 DEF CacheInv, TypeOK
  <1>4. CheckpointSound' /\ CurrentInv' /\ MetaInv' /\ DraftInv' /\ RestoreInv' /\ VerifiedInv'
    BY <1>1 DEF CacheInv, CheckpointSound, CurrentInv, MetaInv, DraftInv, RestoreInv, VerifiedInv
  <1> QED
    BY <1>1, <1>2, <1>3, <1>4 DEF CacheInv

-----------------------------------------------------------------------------
(***************************************************************************)
(* The invariant is inductive.                                             *)
(***************************************************************************)
LEMMA CacheInvNext ==
  ASSUME CacheInv, [Next]_vars
  PROVE  CacheInv'
  <1>1. CASE UNCHANGED vars
    <2>1. /\ UNCHANGED <<registered, active, live, kept, hidden>>
          /\ UNCHANGED <<pc, removed, renamed, upsets, serves>>
          /\ UNCHANGED <<on, draft, current, known, copy, files, todo, total, undisturbed>>
      BY <1>1 DEF vars, disk, memory, observed
    <2> QED
      BY <2>1 DEF CacheInv, TypeOK, LiveInv, CheckpointSound, CurrentInv, MetaInv, DraftInv,
                  RestoreInv, VerifiedInv
  <1>2. ASSUME NEW c \in Commands, Command(c) PROVE CacheInv'
    BY <1>2, CheckpointCache, CopyLiveCache, WriteMetaCache, InstallCheckpointCache,
       RestoreCache, MakeLiveDirCache, CopyKeptCache, InstallLiveCache, TouchCache,
       VisitCache, ChooseCache, UnlinkCache, RemoveDirCache
       DEF Command
  <1> QED
    BY <1>1, <1>2, KillCache, RegisterCache, RuntimeCache DEF Next

\* A payload in place changes by no step but the unlink of a prune.
LEMMA PayloadNext ==
  ASSUME CacheInv, [Next]_vars, NEW s \in Sessions, kept[s].payload # None
  PROVE  kept'[s].payload \in {kept[s].payload, None}
  <1> USE Records
  <1>1. kept \in [Sessions -> Directory]
    BY DEF CacheInv, TypeOK
  <1>2. ASSUME NEW c \in Commands, InstallCheckpoint(c)
        PROVE  kept'[s] = kept[s]
    BY <1>1, <1>2 DEF InstallCheckpoint
  <1>3. ASSUME NEW c \in Commands, Touch(c)
        PROVE  kept'[s].payload = kept[s].payload
    BY <1>1, <1>3 DEF Touch, Directory
  <1>4. ASSUME NEW c \in Commands, NEW f \in File, Unlink(c, f)
        PROVE  kept'[s].payload \in {kept[s].payload, None}
    <2>1. CASE f = "payload"
      BY <1>1, <1>4, <2>1 DEF Unlink, Directory
    <2>2. CASE f = "meta"
      BY <1>1, <1>4, <2>2 DEF Unlink, Directory
    <2> QED
      BY <2>1, <2>2 DEF File
  <1>5. ASSUME NEW c \in Commands, RemoveDir(c)
        PROVE  kept'[s] = kept[s]
    BY <1>1, <1>5 DEF RemoveDir
  <1>6. ASSUME NEW c \in Commands, Command(c), kept' # kept
        PROVE  \/ InstallCheckpoint(c) \/ Touch(c) \/ RemoveDir(c)
               \/ \E f \in File : Unlink(c, f)
    BY <1>6 DEF Command, Checkpoint, Restore, CopyLive, WriteMeta, MakeLiveDir, CopyKept,
                InstallLive, Prune, SkipActive, Choose, EndPrune, disk
  <1>7. ASSUME kept' # kept
        PROVE  \E c \in Commands : Command(c)
    BY <1>7 DEF Next, Kill, Register, Serve, End, vars, disk
  <1> QED
    BY <1>2, <1>3, <1>4, <1>5, <1>6, <1>7

-----------------------------------------------------------------------------
(***************************************************************************)
(* A prune that nothing disturbs.  It runs alone; what it has still to     *)
(* visit are checkpoints in place, each once; and the size it counts is    *)
(* that of the checkpoints it leaves.  A killed checkpoint breaks the last *)
(* two for good: its hidden directory is listed as a second entry.         *)
(***************************************************************************)
Visited(c) == {e.session : e \in todo[c]}

AloneInv == \A c \in Commands : undisturbed[c] => \A d \in Commands \ {c} : pc[d] = "idle"

EntriesInv ==
    \A c \in Commands : undisturbed[c] /\ hidden = {} => \A e \in todo[c] :
        /\ ~e.hidden
        /\ kept[e.session].there /\ kept[e.session].meta # None
        /\ e.size = IF kept[e.session].payload = None THEN 0 ELSE 1

\* Between two directories.
VisitInv ==
    \A c \in Commands : undisturbed[c] /\ hidden = {} /\ pc[c] = "visit" =>
        /\ total[c] = Cardinality(Complete)
        /\ Complete \ active \subseteq Visited(c)

\* Within one, whose size is counted as gone.
UnlinkInv ==
    \A c \in Commands : undisturbed[c] /\ hidden = {} /\ pc[c] = "unlink" =>
        /\ on[c] \notin active /\ on[c] \notin Visited(c)
        /\ kept[on[c]].there
        /\ files[c] = {f \in File : kept[on[c]][f] # None}
        /\ total[c] = Cardinality(Complete \ {on[c]})
        /\ (Complete \ active) \ {on[c]} \subseteq Visited(c)

QuietInv == AloneInv /\ EntriesInv /\ VisitInv /\ UnlinkInv

\* A step that no undisturbed prune survives.
LEMMA NoneQuiet ==
  ASSUME \A c \in Commands : undisturbed'[c] => pc'[c] \notin {"visit", "unlink"} /\ todo'[c] = {},
         AloneInv'
  PROVE  QuietInv'
  BY DEF QuietInv, EntriesInv, VisitInv, UnlinkInv

LEMMA CompleteFinite ==
  /\ IsFiniteSet(Complete)
  /\ \A s : IsFiniteSet(Complete \ {s})
            /\ Cardinality(Complete \ {s}) =
                 IF s \in Complete THEN Cardinality(Complete) - 1 ELSE Cardinality(Complete)
  /\ Cardinality(Complete) \in Nat
  <1>1. Complete \in SUBSET Sessions
    BY DEF Complete
  <1>2. IsFiniteSet(Complete)
    BY <1>1, CacheAssumption, FS_Subset
  <1> QED
    BY <1>2, FS_RemoveElement, FS_CardinalityType

\* When no draft has metadata and no kill has left one, prune lists every
\* checkpoint once, and counts the complete ones.
LEMMA ListedOnce ==
  ASSUME CacheInv, hidden = {}, \A c \in Commands : pc[c] # "install"
  PROVE  /\ \A e \in Listed : /\ ~e.hidden /\ kept[e.session].meta # None
                              /\ e.size = IF kept[e.session].payload = None THEN 0 ELSE 1
         /\ \A s \in Complete : \E e \in Listed : e.session = s /\ e.size = 1
         /\ Cardinality({e \in Listed : e.size = 1}) = Cardinality(Complete)
  <1>1. \A e \in Listed : /\ ~e.hidden /\ kept[e.session].meta # None
                          /\ e.size = IF kept[e.session].payload = None THEN 0 ELSE 1
    BY DEF Listed
  <1> DEFINE Large == {e \in Listed : e.size = 1}
             entry == [s \in Complete |-> [hidden |-> FALSE, session |-> s, size |-> 1]]
  <1>2. \A s \in Complete : entry[s] \in Large /\ entry[s].session = s
    BY DEF Complete, Listed, Entry
  <1>3. \A e \in Large : e.session \in Complete /\ entry[e.session] = e
    <2> SUFFICES ASSUME NEW e \in Large PROVE e.session \in Complete /\ entry[e.session] = e
      OBVIOUS
    <2>1. /\ e \in Entry /\ e.hidden = FALSE /\ e.size = 1
          /\ kept[e.session].meta # None /\ kept[e.session].payload # None
      BY <1>1 DEF Listed, Entry
    <2>2. e = [hidden |-> FALSE, session |-> e.session, size |-> 1]
      BY <2>1 DEF Entry
    <2>3. e.session \in Complete
      BY <2>1 DEF Entry, Complete
    <2> QED
      BY <2>2, <2>3
  <1>4. entry \in Bijection(Complete, Large)
    <2>1. entry \in [Complete -> Large]
      BY <1>2
    <2>2. \A s, t \in Complete : entry[s] = entry[t] => s = t
      BY <1>2
    <2>3. \A e \in Large : \E s \in Complete : entry[s] = e
      BY <1>3
    <2> HIDE DEF entry, Large
    <2> QED
      BY <2>1, <2>2, <2>3 DEF Bijection, Injection, Surjection, IsInjective
  <1>5. Cardinality(Large) = Cardinality(Complete)
    <2> HIDE DEF entry, Large
    <2> QED
      BY <1>4, CompleteFinite, FS_Bijection DEF ExistsBijection
  <1>6. \A s \in Complete : \E e \in Listed : e.session = s /\ e.size = 1
    BY <1>2
  <1> QED
    BY <1>1, <1>5, <1>6

-----------------------------------------------------------------------------
(***************************************************************************)
(* The steps that disturb nothing, or everything.                          *)
(***************************************************************************)
LEMMA QuietInit == Init => QuietInv
  BY DEF Init, QuietInv, AloneInv, EntriesInv, VisitInv, UnlinkInv

\* Every command but a prune begins without entries to visit.
IdleInv == \A c \in Commands : pc[c] \notin {"visit", "unlink"} => todo[c] = {}

LEMMA IdleNext ==
  ASSUME CacheInv, IdleInv, [Next]_vars
  PROVE  IdleInv'
  <1>1. CASE UNCHANGED vars
    BY <1>1 DEF vars, memory, IdleInv
  <1>2. ASSUME NEW c \in Commands, Exit(c) PROVE IdleInv'
    BY <1>2 DEF Exit, IdleInv, CacheInv, TypeOK
  <1>3. ASSUME NEW c \in Commands, Command(c), ~Exit(c) PROVE IdleInv'
    <2>1. ASSUME NEW s \in Sessions, Checkpoint(c, s) \/ Restore(c, s) PROVE IdleInv'
      BY <2>1 DEF Checkpoint, Restore, Begin, IdleInv, CacheInv, TypeOK
    <2>2. CASE CopyLive(c) \/ WriteMeta(c) \/ MakeLiveDir(c) \/ CopyKept(c) \/ InstallLive(c)
      BY <1>3, <2>2 DEF CopyLive, WriteMeta, MakeLiveDir, CopyKept, InstallLive, Goto, memory,
                        IdleInv, CacheInv, TypeOK
    <2>3. CASE Prune(c)
      BY <2>3 DEF Prune, Begin, IdleInv, CacheInv, TypeOK
    <2>4. ASSUME NEW e \in Entry, SkipActive(c, e) PROVE IdleInv'
      BY <2>4 DEF SkipActive, IdleInv, CacheInv, TypeOK
    <2>5. ASSUME NEW e \in Entry, Choose(c, e) PROVE IdleInv'
      BY <1>3, <2>5 DEF Choose, IdleInv, CacheInv, TypeOK
    <2>6. ASSUME NEW f \in File, Unlink(c, f) PROVE IdleInv'
      BY <1>3, <2>6 DEF Unlink, IdleInv
    <2>7. CASE RemoveDir(c)
      BY <1>3, <2>7 DEF RemoveDir, IdleInv, CacheInv, TypeOK
    <2> QED
      BY <1>3, <2>1, <2>2, <2>3, <2>4, <2>5, <2>6, <2>7
         DEF Command, InstallCheckpoint, Touch, EndPrune
  <1>4. ASSUME NEW s \in Sessions,
               \/ End(s) \/ \E content \in Contents : Serve(s, content)
               \/ \E i \in Identities : Register(s, i)
        PROVE  IdleInv'
    BY <1>4 DEF End, Serve, Register, memory, IdleInv
  <1> QED
    BY <1>1, <1>2, <1>3, <1>4 DEF Next, Kill

\* While another command runs, no prune is undisturbed.
LEMMA OwnStep ==
  ASSUME CacheInv, AloneInv, NEW c \in Commands, pc[c] # "idle",
         undisturbed' = undisturbed \/ undisturbed' = [undisturbed EXCEPT ![c] = FALSE],
         \A d \in Commands \ {c} : pc'[d] = pc[d]
  PROVE  AloneInv' /\ \A d \in Commands : undisturbed'[d] => d = c /\ undisturbed[c]
  <1>1. undisturbed \in [Commands -> BOOLEAN]
    BY DEF CacheInv, TypeOK
  <1>2. \A d \in Commands : undisturbed'[d] => undisturbed[d]
    BY <1>1
  <1> QED
    BY <1>2 DEF AloneInv

\* A command begins: it is alone only when nothing was busy.
LEMMA BeginAlone ==
  ASSUME CacheInv, NEW c \in Commands, NEW step, Begin(c, step)
  PROVE  /\ AloneInv'
         /\ pc'[c] = step /\ \A d \in Commands \ {c} : pc'[d] = pc[d]
         /\ \A d \in Commands : undisturbed'[d] =>
               d = c /\ \A b \in Commands : pc[b] = "idle"
  <1>1. /\ pc'[c] = step /\ \A d \in Commands \ {c} : pc'[d] = pc[d]
        /\ \A d \in Commands : undisturbed'[d] => d = c /\ Busy = {}
    BY DEF Begin, CacheInv, TypeOK
  <1> QED
    BY <1>1 DEF AloneInv, Busy

LEMMA ExitQuiet ==
  ASSUME CacheInv, QuietInv, NEW c \in Commands, pc[c] # "idle", Exit(c)
  PROVE  QuietInv'
  <1>1. undisturbed' = [undisturbed EXCEPT ![c] = FALSE] /\ undisturbed'[c] = FALSE
    BY DEF Exit, CacheInv, TypeOK
  <1>2. AloneInv /\ \A d \in Commands \ {c} : pc'[d] = pc[d]
    BY ExitCache DEF QuietInv
  <1>3. AloneInv' /\ \A d \in Commands : ~undisturbed'[d]
    BY <1>1, <1>2, OwnStep
  <1> QED
    BY <1>3, NoneQuiet

LEMMA PruneQuiet ==
  ASSUME CacheInv, QuietInv, NEW c \in Commands, Prune(c)
  PROVE  QuietInv'
  <1>1. /\ Begin(c, "visit") /\ \A e \in Listed : kept[e.session].there
        /\ todo'[c] = Listed
        /\ total'[c] = Cardinality({e \in Listed : e.size = 1})
        /\ UNCHANGED <<active, kept, hidden>>
    BY DEF Prune, disk, CacheInv, TypeOK
  <1>2. /\ AloneInv' /\ pc'[c] = "visit"
        /\ \A d \in Commands : undisturbed'[d] => d = c /\ \A b \in Commands : pc[b] = "idle"
    BY <1>1, BeginAlone
  <1>3. Complete' = Complete
    BY <1>1 DEF Complete
  <1>4. ASSUME undisturbed'[c], hidden' = {}
        PROVE  /\ \A e \in todo'[c] :
                     /\ ~e.hidden
                     /\ kept'[e.session].there /\ kept'[e.session].meta # None
                     /\ e.size = IF kept'[e.session].payload = None THEN 0 ELSE 1
               /\ total'[c] = Cardinality(Complete')
               /\ Complete' \ active' \subseteq Visited(c)'
    <2>1. hidden = {} /\ \A d \in Commands : pc[d] # "install"
      BY <1>1, <1>2, <1>4
    <2>2. /\ \A e \in Listed : /\ ~e.hidden /\ kept[e.session].meta # None
                               /\ e.size = IF kept[e.session].payload = None THEN 0 ELSE 1
          /\ \A s \in Complete : \E e \in Listed : e.session = s /\ e.size = 1
          /\ Cardinality({e \in Listed : e.size = 1}) = Cardinality(Complete)
      BY <2>1, ListedOnce
    <2>3. Complete \subseteq Visited(c)'
      BY <1>1, <2>2 DEF Visited
    <2> QED
      BY <1>1, <1>3, <2>2, <2>3
  <1>5. EntriesInv'
    BY <1>2, <1>4 DEF EntriesInv
  <1>6. VisitInv' /\ UnlinkInv'
    BY <1>2, <1>4 DEF VisitInv, UnlinkInv
  <1> QED
    BY <1>2, <1>5, <1>6 DEF QuietInv

LEMMA SkipActiveQuiet ==
  ASSUME CacheInv, QuietInv, NEW c \in Commands, NEW e \in Entry, SkipActive(c, e)
  PROVE  QuietInv'
  <1>1. /\ pc[c] = "visit" /\ e.session \in active /\ todo'[c] = todo[c] \ {e}
        /\ UNCHANGED <<active, kept, hidden, pc, files, on, total, undisturbed>>
    BY DEF SkipActive, disk, CacheInv, TypeOK
  <1>2. AloneInv' /\ \A d \in Commands : undisturbed'[d] => d = c /\ undisturbed[c]
    BY <1>1, OwnStep DEF QuietInv
  <1>3. Complete' = Complete
    BY <1>1 DEF Complete
  <1>4. EntriesInv'
    BY <1>1, <1>2 DEF QuietInv, EntriesInv
  <1>5. VisitInv'
    <2>1. ASSUME undisturbed'[c], hidden' = {}
          PROVE  total'[c] = Cardinality(Complete') /\ Complete' \ active' \subseteq Visited(c)'
      <3>1. total[c] = Cardinality(Complete) /\ Complete \ active \subseteq Visited(c)
        BY <1>1, <1>2, <2>1 DEF QuietInv, VisitInv
      <3> QED
        BY <1>1, <1>3, <3>1 DEF Visited
    <2> QED
      BY <1>2, <2>1 DEF VisitInv
  <1>6. UnlinkInv'
    BY <1>1, <1>2 DEF UnlinkInv
  <1> QED
    BY <1>2, <1>4, <1>5, <1>6 DEF QuietInv

\* An undisturbed prune finds every directory it visits in place.
LEMMA ChooseQuiet ==
  ASSUME CacheInv, QuietInv, NEW c \in Commands, NEW e \in Entry, Choose(c, e)
  PROVE  QuietInv'
  <1>1. /\ pc[c] = "visit" /\ total[c] > Quota /\ e \in todo[c] /\ e.session \notin active
        /\ UNCHANGED <<active, kept, hidden>>
    BY DEF Choose, disk
  <1>2. CASE Exit(c)
    BY <1>1, <1>2, ExitQuiet
  <1>3. CASE ~Exit(c)
    <2>1. /\ pc' = [pc EXCEPT ![c] = "unlink"] /\ on' = [on EXCEPT ![c] = e.session]
          /\ files' = [files EXCEPT ![c] = {f \in File : kept[e.session][f] # None}]
          /\ todo' = [todo EXCEPT ![c] = @ \ {e}]
          /\ total' = [total EXCEPT ![c] = @ - e.size]
          /\ UNCHANGED undisturbed
      BY <1>3 DEF Choose
    <2>2. /\ pc'[c] = "unlink" /\ on'[c] = e.session
          /\ files'[c] = {f \in File : kept[e.session][f] # None}
          /\ todo'[c] = todo[c] \ {e} /\ total'[c] = total[c] - e.size
          /\ \A d \in Commands \ {c} : pc'[d] = pc[d]
      BY <2>1 DEF CacheInv, TypeOK
    <2>3. AloneInv' /\ \A d \in Commands : undisturbed'[d] => d = c /\ undisturbed[c]
      BY <1>1, <2>1, <2>2, OwnStep DEF QuietInv
    <2>4. Complete' = Complete
      BY <1>1 DEF Complete
    <2>5. EntriesInv'
      BY <1>1, <2>2, <2>3 DEF QuietInv, EntriesInv
    <2>6. VisitInv'
      <3>1. ~(undisturbed'[c] /\ pc'[c] = "visit")
        BY <2>2
      <3> QED
        BY <2>3, <3>1 DEF VisitInv
    <2>7. ASSUME undisturbed[c], hidden = {}
          PROVE  /\ e.session \notin Visited(c)'
                 /\ kept[e.session].there
                 /\ total[c] - e.size = Cardinality(Complete \ {e.session})
                 /\ (Complete \ active) \ {e.session} \subseteq Visited(c)'
      <3>1. /\ \A g \in todo[c] :
                  /\ g.hidden = FALSE
                  /\ kept[g.session].there /\ kept[g.session].meta # None
                  /\ g.size = IF kept[g.session].payload = None THEN 0 ELSE 1
            /\ total[c] = Cardinality(Complete) /\ Complete \ active \subseteq Visited(c)
            /\ todo[c] \subseteq Entry
        BY <1>1, <2>7 DEF QuietInv, EntriesInv, VisitInv, CacheInv, TypeOK, Entry
      <3>2. \A g \in todo[c] : g.session = e.session => g = e
        <4> SUFFICES ASSUME NEW g \in todo[c], g.session = e.session PROVE g = e
          OBVIOUS
        <4>1. g.hidden = e.hidden /\ g.size = e.size
          <5>1. e.hidden = FALSE
            BY <1>1, <3>1, Zenon
          <5>2. g.hidden = FALSE
            BY <3>1, Zenon
          <5>3. g.size = e.size
            BY <1>1, <3>1
          <5> QED
            BY <5>1, <5>2, <5>3, Zenon
        <4>2. \A x \in Entry :
                x = [hidden |-> x.hidden, session |-> x.session, size |-> x.size]
          BY DEF Entry
        <4>3. g = [hidden |-> e.hidden, session |-> e.session, size |-> e.size]
          BY <3>1, <4>1, <4>2
        <4> QED
          BY <4>2, <4>3
      <3>3. e.session \notin Visited(c)'
        BY <2>2, <3>2 DEF Visited
      <3>4. e.session \in Complete <=> e.size = 1
        BY <1>1, <3>1 DEF Complete, Entry
      <3>5. total[c] - e.size = Cardinality(Complete \ {e.session})
        <4>1. e.size \in {0, 1} /\ Cardinality(Complete) \in Nat
          BY CompleteFinite DEF Entry
        <4>2. Cardinality(Complete \ {e.session}) =
                IF e.session \in Complete THEN Cardinality(Complete) - 1
                ELSE Cardinality(Complete)
          BY CompleteFinite
        <4> QED
          BY <3>1, <3>4, <4>1, <4>2
      <3>6. (Complete \ active) \ {e.session} \subseteq Visited(c)'
        BY <2>2, <3>1 DEF Visited
      <3> QED
        BY <1>1, <3>1, <3>3, <3>5, <3>6
    <2>8. UnlinkInv'
      <3> SUFFICES ASSUME undisturbed'[c], hidden' = {}
                   PROVE  /\ on'[c] \notin active' /\ on'[c] \notin Visited(c)'
                          /\ kept'[on'[c]].there
                          /\ files'[c] = {f \in File : kept'[on'[c]][f] # None}
                          /\ total'[c] = Cardinality(Complete' \ {on'[c]})
                          /\ (Complete' \ active') \ {on'[c]} \subseteq Visited(c)'
        BY <2>3 DEF UnlinkInv
      <3>1. /\ e.session \notin Visited(c)'
            /\ kept[e.session].there
            /\ total[c] - e.size = Cardinality(Complete \ {e.session})
            /\ (Complete \ active) \ {e.session} \subseteq Visited(c)'
        BY <1>1, <2>3, <2>7
      <3> QED
        BY <1>1, <2>2, <2>4, <3>1
    <2> QED
      BY <2>3, <2>5, <2>6, <2>8 DEF QuietInv
  <1> QED
    BY <1>2, <1>3

LEMMA UnlinkQuiet ==
  ASSUME CacheInv, QuietInv, NEW c \in Commands, NEW f \in File, Unlink(c, f)
  PROVE  QuietInv'
  <1> USE Records
  <1>1. /\ pc[c] = "unlink" /\ f \in files[c] /\ on[c] \in Sessions
        /\ UNCHANGED <<active, hidden>>
    BY DEF Unlink, CacheInv, Working
  <1>2. CASE Exit(c)
    BY <1>1, <1>2, ExitQuiet
  <1>3. CASE ~Exit(c)
    <2>1. /\ kept' = [kept EXCEPT ![on[c]][f] = None]
          /\ files' = [files EXCEPT ![c] = @ \ {f}]
          /\ UNCHANGED <<pc, on, todo, total, undisturbed>>
      BY <1>3 DEF Unlink
    <2>2. kept \in [Sessions -> Directory] /\ files \in [Commands -> SUBSET File]
      BY DEF CacheInv, TypeOK
    <2>3. /\ \A s \in Sessions \ {on[c]} : kept'[s] = kept[s]
          /\ kept'[on[c]] = [kept[on[c]] EXCEPT ![f] = None]
          /\ files'[c] = files[c] \ {f}
      BY <1>1, <2>1, <2>2
    <2>4. /\ kept'[on[c]].there = kept[on[c]].there
          /\ kept'[on[c]][f] = None
          /\ \A g \in File \ {f} : kept'[on[c]][g] = kept[on[c]][g]
      <3>1. kept[on[c]] \in Directory
        BY <1>1, <2>2
      <3>2. CASE f = "payload"
        BY <2>3, <3>1, <3>2 DEF Directory, File
      <3>3. CASE f = "meta"
        BY <2>3, <3>1, <3>3 DEF Directory, File
      <3> QED
        BY <3>2, <3>3 DEF File
    <2>5. AloneInv' /\ \A d \in Commands : undisturbed'[d] => d = c /\ undisturbed[c]
      BY <1>1, <2>1, OwnStep DEF QuietInv
    <2>6. Complete' \ {on[c]} = Complete \ {on[c]}
      BY <2>3 DEF Complete
    <2>7. VisitInv'
      <3>1. ~(undisturbed'[c] /\ pc'[c] = "visit")
        BY <1>1, <2>1
      <3> QED
        BY <2>5, <3>1 DEF VisitInv
    <2>8. ASSUME undisturbed[c], hidden = {}
          PROVE  /\ on[c] \notin active /\ on[c] \notin Visited(c)
                 /\ kept[on[c]].there
                 /\ files[c] = {g \in File : kept[on[c]][g] # None}
                 /\ total[c] = Cardinality(Complete \ {on[c]})
                 /\ (Complete \ active) \ {on[c]} \subseteq Visited(c)
      BY <1>1, <2>8 DEF QuietInv, UnlinkInv
    <2>9. EntriesInv'
      <3> SUFFICES ASSUME undisturbed'[c], hidden' = {}, NEW e \in todo'[c]
                   PROVE  /\ ~e.hidden
                          /\ kept'[e.session].there /\ kept'[e.session].meta # None
                          /\ e.size = IF kept'[e.session].payload = None THEN 0 ELSE 1
        BY <2>5 DEF EntriesInv
      <3>1. /\ undisturbed[c] /\ hidden = {} /\ e \in todo[c] /\ e.session \in Sessions
        BY <1>1, <2>1, <2>5 DEF CacheInv, TypeOK, Entry
      <3>2. kept'[e.session] = kept[e.session]
        BY <2>3, <2>8, <3>1 DEF Visited
      <3> QED
        BY <3>1, <3>2 DEF QuietInv, EntriesInv
    <2>10. UnlinkInv'
      <3> SUFFICES ASSUME undisturbed'[c], hidden' = {}
                   PROVE  /\ on'[c] \notin active' /\ on'[c] \notin Visited(c)'
                          /\ kept'[on'[c]].there
                          /\ files'[c] = {g \in File : kept'[on'[c]][g] # None}
                          /\ total'[c] = Cardinality(Complete' \ {on'[c]})
                          /\ (Complete' \ active') \ {on'[c]} \subseteq Visited(c)'
        BY <2>5 DEF UnlinkInv
      <3>1. undisturbed[c] /\ hidden = {}
        BY <1>1, <2>5
      <3>2. files'[c] = {g \in File : kept'[on[c]][g] # None}
        BY <2>3, <2>4, <2>8, <3>1
      <3>3. Visited(c)' = Visited(c)
        BY <2>1 DEF Visited
      <3>4. on'[c] = on[c] /\ total'[c] = total[c] /\ active' = active
        BY <1>1, <2>1
      <3>5. /\ on[c] \notin active /\ on[c] \notin Visited(c) /\ kept'[on[c]].there
            /\ total[c] = Cardinality(Complete' \ {on[c]})
            /\ (Complete' \ active) \ {on[c]} \subseteq Visited(c)
        BY <2>4, <2>6, <2>8, <3>1
      <3> QED
        BY <3>2, <3>3, <3>4, <3>5
    <2> QED
      BY <2>5, <2>7, <2>9, <2>10 DEF QuietInv
  <1> QED
    BY <1>2, <1>3

LEMMA RemoveDirQuiet ==
  ASSUME CacheInv, QuietInv, NEW c \in Commands, RemoveDir(c)
  PROVE  QuietInv'
  <1> USE Records
  <1>1. /\ pc[c] = "unlink" /\ on[c] \in Sessions /\ UNCHANGED <<active, hidden>>
    BY DEF RemoveDir, CacheInv, Working
  <1>2. CASE Exit(c)
    BY <1>1, <1>2, ExitQuiet
  <1>3. CASE ~Exit(c)
    <2>1. /\ kept[on[c]] = Blank
          /\ kept' = [kept EXCEPT ![on[c]] = Absent] /\ pc' = [pc EXCEPT ![c] = "visit"]
          /\ UNCHANGED <<files, todo, total, undisturbed>>
      BY <1>3 DEF RemoveDir
    <2>2. /\ \A s \in Sessions \ {on[c]} : kept'[s] = kept[s]
          /\ kept'[on[c]] = Absent
          /\ pc'[c] = "visit" /\ \A d \in Commands \ {c} : pc'[d] = pc[d]
      BY <1>1, <2>1 DEF CacheInv, TypeOK
    <2>3. AloneInv' /\ \A d \in Commands : undisturbed'[d] => d = c /\ undisturbed[c]
      BY <1>1, <2>1, <2>2, OwnStep DEF QuietInv
    <2>4. Complete' = Complete /\ on[c] \notin Complete
      BY <2>1, <2>2 DEF Complete
    <2>5. ASSUME undisturbed[c], hidden = {}
          PROVE  /\ on[c] \notin Visited(c)
                 /\ total[c] = Cardinality(Complete)
                 /\ Complete \ active \subseteq Visited(c)
      <3>1. Complete \ {on[c]} = Complete
        BY <2>4
      <3> QED
        BY <1>1, <2>4, <2>5, <3>1 DEF QuietInv, UnlinkInv
    <2>6. EntriesInv'
      <3> SUFFICES ASSUME undisturbed'[c], hidden' = {}, NEW e \in todo'[c]
                   PROVE  /\ ~e.hidden
                          /\ kept'[e.session].there /\ kept'[e.session].meta # None
                          /\ e.size = IF kept'[e.session].payload = None THEN 0 ELSE 1
        BY <2>3 DEF EntriesInv
      <3>1. /\ undisturbed[c] /\ hidden = {} /\ e \in todo[c] /\ e.session \in Sessions
        BY <1>1, <2>1, <2>3 DEF CacheInv, TypeOK, Entry
      <3>2. kept'[e.session] = kept[e.session]
        BY <2>2, <2>5, <3>1 DEF Visited
      <3> QED
        BY <3>1, <3>2 DEF QuietInv, EntriesInv
    <2>7. VisitInv'
      <3>1. Visited(c)' = Visited(c)
        BY <2>1 DEF Visited
      <3> QED
        BY <1>1, <2>1, <2>3, <2>4, <2>5, <3>1 DEF VisitInv
    <2>8. UnlinkInv'
      <3>1. ~(undisturbed'[c] /\ pc'[c] = "unlink")
        BY <2>2
      <3> QED
        BY <2>3, <3>1 DEF UnlinkInv
    <2> QED
      BY <2>3, <2>6, <2>7, <2>8 DEF QuietInv
  <1> QED
    BY <1>2, <1>3

\* A checkpoint or a restore visits nothing.
LEMMA OtherQuiet ==
  ASSUME CacheInv, IdleInv', QuietInv, NEW c \in Commands,
         \/ \E s \in Sessions : Checkpoint(c, s) \/ Restore(c, s)
         \/ CopyLive(c) \/ WriteMeta(c) \/ MakeLiveDir(c) \/ CopyKept(c) \/ InstallLive(c)
  PROVE  QuietInv'
  <1>1. CASE Exit(c) /\ pc[c] # "idle"
    BY <1>1, ExitQuiet
  <1>2. ASSUME NEW s \in Sessions, Checkpoint(c, s) \/ Restore(c, s) PROVE QuietInv'
    <2>1. Begin(c, "copyLive") \/ Begin(c, "makeDir")
      BY <1>2 DEF Checkpoint, Restore
    <2>2. /\ AloneInv' /\ pc'[c] \in {"copyLive", "makeDir"}
          /\ \A d \in Commands : undisturbed'[d] => d = c
      BY <2>1, BeginAlone
    <2> QED
      BY <2>2, NoneQuiet DEF IdleInv
  <1>3. CASE /\ CopyLive(c) \/ WriteMeta(c) \/ MakeLiveDir(c) \/ CopyKept(c) \/ InstallLive(c)
             /\ ~Exit(c)
    <2>1. /\ pc[c] # "idle" /\ UNCHANGED undisturbed
          /\ \E step \in {"writeMeta", "install", "copyKept", "installLive", "touch"} :
                pc' = [pc EXCEPT ![c] = step]
      BY <1>3 DEF CopyLive, WriteMeta, MakeLiveDir, CopyKept, InstallLive, Goto, memory
    <2>2. /\ pc'[c] \notin {"visit", "unlink"} /\ \A d \in Commands \ {c} : pc'[d] = pc[d]
      BY <2>1 DEF CacheInv, TypeOK
    <2>3. AloneInv' /\ \A d \in Commands : undisturbed'[d] => d = c
      BY <2>1, <2>2, OwnStep DEF QuietInv
    <2> QED
      BY <2>2, <2>3, NoneQuiet DEF IdleInv
  <1> QED
    BY <1>1, <1>2, <1>3 DEF CopyLive, WriteMeta, MakeLiveDir, CopyKept, InstallLive, Goto

LEMMA QuietNext ==
  ASSUME CacheInv, IdleInv, QuietInv, [Next]_vars
  PROVE  QuietInv'
  <1>1. IdleInv'
    BY IdleNext
  <1>2. ASSUME UNCHANGED <<active, kept, hidden, pc, on, files, todo, total, undisturbed>>
        PROVE  QuietInv'
    <2>1. Complete' = Complete /\ \A c \in Commands : Visited(c)' = Visited(c)
      BY <1>2 DEF Complete, Visited
    <2>2. AloneInv' /\ EntriesInv'
      BY <1>2 DEF QuietInv, AloneInv, EntriesInv
    <2>3. VisitInv'
      BY <1>2, <2>1 DEF QuietInv, VisitInv
    <2>4. UnlinkInv'
      BY <1>2, <2>1 DEF QuietInv, UnlinkInv
    <2> QED
      BY <2>2, <2>3, <2>4 DEF QuietInv
  <1>3. ASSUME \A c \in Commands : ~undisturbed'[c] PROVE QuietInv'
    BY <1>3, NoneQuiet DEF AloneInv
  <1>4. ASSUME NEW c \in Commands, pc[c] # "idle", Exit(c) PROVE QuietInv'
    BY <1>4, ExitQuiet
  <1>5. ASSUME NEW c \in Commands, Command(c) PROVE QuietInv'
    <2>1. CASE InstallCheckpoint(c) \/ Touch(c) \/ EndPrune(c)
      BY <1>4, <2>1 DEF InstallCheckpoint, Touch, EndPrune
    <2> QED
      BY <1>1, <1>5, <2>1, OtherQuiet, PruneQuiet, SkipActiveQuiet, ChooseQuiet,
         UnlinkQuiet, RemoveDirQuiet
         DEF Command
  <1>6. ASSUME NEW s \in Sessions, NEW i \in Identities, Register(s, i) PROVE QuietInv'
    BY <1>2, <1>6 DEF Register, memory
  <1>7. ASSUME NEW s \in Sessions, End(s) \/ \E content \in Contents : Serve(s, content)
        PROVE  QuietInv'
    BY <1>3, <1>7 DEF End, Serve, Disturbed
  <1> QED
    BY <1>2, <1>4, <1>5, <1>6, <1>7 DEF Next, Kill, vars, disk, memory

QuietInvariant == CacheInv /\ IdleInv /\ QuietInv

LEMMA PruneInvariant == Spec => []QuietInvariant
  <1>1. Init => QuietInvariant
    BY CacheInvInit, QuietInit DEF QuietInvariant, IdleInv, Init
  <1>2. QuietInvariant /\ [Next]_vars => QuietInvariant'
    BY CacheInvNext, IdleNext, QuietNext DEF QuietInvariant
  <1> QED
    BY <1>1, <1>2, PTL DEF Spec

\* A command in a prune takes the steps of a prune.
LEMMA PruneSteps ==
  ASSUME CacheInv, Next, NEW c \in Commands, pc[c] \in {"visit", "unlink"}, pc'[c] # pc[c]
  PROVE  \/ \E e \in Entry : Choose(c, e)
         \/ RemoveDir(c) \/ EndPrune(c) \/ Kill(c)
         \/ \E f \in File : Unlink(c, f) /\ Exit(c)
  <1>1. ASSUME NEW d \in Commands, Command(d) \/ Kill(d) PROVE d = c
    <2>1. \A b \in Commands \ {d} : Exit(d) => pc'[b] = pc[b]
      BY DEF Exit, CacheInv, TypeOK
    <2>2. \A b \in Commands \ {d} : pc'[b] = pc[b]
      BY <1>1, <2>1 DEF Command, Kill, Checkpoint, Restore, Begin, Goto, CopyLive, WriteMeta,
                 InstallCheckpoint, MakeLiveDir, CopyKept, InstallLive, Touch, Prune,
                 SkipActive, Choose, Unlink, RemoveDir, EndPrune, CacheInv, TypeOK
    <2> QED
      BY <2>2
  <1>2. ASSUME Command(c)
        PROVE  \/ \E e \in Entry : Choose(c, e)
               \/ RemoveDir(c) \/ EndPrune(c)
               \/ \E f \in File : Unlink(c, f) /\ Exit(c)
    BY <1>2 DEF Command, Checkpoint, Restore, Begin, Goto, CopyLive, WriteMeta,
                InstallCheckpoint, MakeLiveDir, CopyKept, InstallLive, Touch, Prune,
                SkipActive, Unlink
  <1>3. ASSUME NEW s \in Sessions,
               \/ End(s) \/ \E content \in Contents : Serve(s, content)
               \/ \E i \in Identities : Register(s, i)
        PROVE  FALSE
    BY <1>3 DEF End, Serve, Register
  <1> QED
    BY <1>1, <1>2, <1>3 DEF Next

\* From a visit to an unlink leads the choice of an entry.
LEMMA VisitSteps ==
  ASSUME CacheInv, Next, NEW c \in Commands, pc[c] = "visit", pc'[c] = "unlink"
  PROVE  \E e \in Entry : Choose(c, e) /\ ~Exit(c)
  <1>1. ~Exit(c)
    BY ExitCache
  <1> QED
    BY <1>1, PruneSteps DEF RemoveDir, EndPrune, Kill

\* An undisturbed prune that is not killed leaves by its last step: no directory
\* has gone, no file has gone, nothing has come into the directory it empties.
LEMMA LastStep ==
  ASSUME QuietInvariant, Next, NEW c \in Commands, pc[c] \in {"visit", "unlink"},
         pc'[c] = "idle", undisturbed[c], upsets' = upsets, hidden = {}
  PROVE  EndPrune(c)
  <1> USE Records DEF QuietInvariant
  <1>1. ASSUME NEW e \in Entry, Choose(c, e) PROVE FALSE
    <2>1. pc[c] = "visit" /\ e \in todo[c] /\ kept[e.session].there
      BY <1>1 DEF Choose, QuietInv, EntriesInv
    <2> QED
      BY <1>1, <2>1 DEF Choose, CacheInv, TypeOK
  <1>2. ASSUME NEW f \in File, Unlink(c, f), Exit(c) PROVE FALSE
    <2>1. kept[on[c]][f] # None
      BY <1>2 DEF Unlink, QuietInv, UnlinkInv
    <2>2. pc' = pc
      BY <1>2, <2>1 DEF Unlink
    <2> QED
      BY <1>2, <2>2 DEF Unlink
  <1>3. ASSUME RemoveDir(c) PROVE FALSE
    <2>1. /\ pc[c] = "unlink" /\ on[c] \in Sessions
          /\ kept[on[c]].there = TRUE /\ {f \in File : kept[on[c]][f] # None} = {}
      BY <1>3 DEF RemoveDir, QuietInv, UnlinkInv, CacheInv, TypeOK, Working, Directory
    <2>2. kept[on[c]].payload = None /\ kept[on[c]].meta = None
      BY <2>1 DEF File
    <2>3. kept[on[c]] = Blank
      BY <2>1, <2>2 DEF Blank, CacheInv, TypeOK, Directory
    <2> QED
      BY <1>3, <2>1, <2>3 DEF RemoveDir, CacheInv, TypeOK
  <1>4. ~Kill(c)
    <2>1. upsets \in Nat
      BY CacheAssumption DEF CacheInv, TypeOK
    <2> QED
      BY <2>1 DEF Kill
  <1> QED
    BY <1>1, <1>2, <1>3, <1>4, PruneSteps

-----------------------------------------------------------------------------
(***************************************************************************)
(* Theorems.                                                               *)
(***************************************************************************)
\* The invariant holds in every reachable state.
THEOREM CacheInvariant == Spec => []CacheInv
  <1>1. Init => CacheInv
    BY CacheInvInit
  <1>2. CacheInv /\ [Next]_vars => CacheInv'
    BY CacheInvNext
  <1> QED
    BY <1>1, <1>2, PTL DEF Spec

\* Every variable of the cache keeps its type (pds4/cache.py).
THEOREM CacheTypes == Spec => []TypeOK
  <1>1. CacheInv => TypeOK
    BY DEF CacheInv
  <1> QED
    BY <1>1, CacheInvariant, PTL

\* A checkpoint that has both its files verifies against itself, unless a prune
\* has removed it under a restore.
THEOREM CheckpointsAreSound == Spec => []CheckpointSound
  <1>1. CacheInv => CheckpointSound
    BY DEF CacheInv
  <1> QED
    BY <1>1, CacheInvariant, PTL

\* A session whose identity changes only while it has no live payload, and no
\* checkpoint or restore under way, never has a live payload that was made under
\* another identity, whatever checkpoints, prunes and kills overlap the restore.
\* register itself asks for neither (pds4/cache.py:49-52): a session it renames
\* otherwise is excepted from then on.
THEOREM LivePayloadIsOwn == Spec => []LiveIsOfIdentity
  <1>1. CacheInv => LiveIsOfIdentity
    BY DEF CacheInv, LiveInv, LiveIsOfIdentity
  <1> QED
    BY <1>1, CacheInvariant, PTL

\* A checkpoint in place is never overwritten.
THEOREM PayloadsStay == Spec => PayloadStays
  <1>1. CacheInv /\ [Next]_vars =>
          [\A s \in Sessions :
             kept[s].payload # None => kept'[s].payload \in {kept[s].payload, None}]_vars
    BY PayloadNext
  <1> QED
    BY <1>1, CacheInvariant, PTL DEF Spec, PayloadStays

\* The size an undisturbed prune counts is that of the complete checkpoints: it
\* starts on none once the quota is met, and on no active session.
THEOREM PruneIsSparing == Spec => PruneSpares
  <1> DEFINE Spares == \A c \in Commands :
               (pc[c] = "visit" /\ pc'[c] = "unlink" /\ undisturbed[c])
                  => on'[c] \notin active /\ (hidden = {} => Cardinality(Complete) > Quota)
  <1>1. ASSUME QuietInvariant, Next PROVE Spares
    <2> SUFFICES ASSUME NEW c \in Commands, pc[c] = "visit", pc'[c] = "unlink", undisturbed[c]
                 PROVE  on'[c] \notin active /\ (hidden = {} => Cardinality(Complete) > Quota)
      OBVIOUS
    <2>1. PICK e \in Entry : Choose(c, e) /\ ~Exit(c)
      BY <1>1, VisitSteps DEF QuietInvariant
    <2>2. on'[c] = e.session /\ e.session \notin active /\ total[c] > Quota
      BY <1>1, <2>1 DEF Choose, QuietInvariant, CacheInv, TypeOK
    <2>3. hidden = {} => total[c] = Cardinality(Complete)
      BY <1>1 DEF QuietInvariant, QuietInv, VisitInv
    <2> QED
      BY <2>2, <2>3
  <1>2. ASSUME UNCHANGED vars PROVE [Spares]_vars
    BY <1>2
  <1>3. QuietInvariant /\ [Next]_vars => [Spares]_vars
    BY <1>1, <1>2
  <1> QED
    BY <1>3, PruneInvariant, PTL DEF Spec, PruneSpares

\* An undisturbed prune delivers: every directory it has listed is where it looks
\* for it, so it ends only at the quota or when active sessions are all that is left.
THEOREM PruneIsDelivered == Spec => PruneDelivers
  <1> DEFINE Delivers == \A c \in Commands :
               (pc[c] \in {"visit", "unlink"} /\ pc'[c] = "idle" /\ undisturbed[c]
                   /\ upsets' = upsets /\ hidden = {})
                  => Cardinality(Complete') <= Quota \/ Complete' \subseteq active
  <1>1. ASSUME QuietInvariant, Next PROVE Delivers
    <2> SUFFICES ASSUME NEW c \in Commands, pc[c] \in {"visit", "unlink"}, pc'[c] = "idle",
                        undisturbed[c], upsets' = upsets, hidden = {}
                 PROVE  Cardinality(Complete') <= Quota \/ Complete' \subseteq active
      OBVIOUS
    <2>1. EndPrune(c)
      BY <1>1, LastStep
    <2>2. /\ pc[c] = "visit" /\ kept' = kept
          /\ total[c] <= Quota \/ todo[c] = {}
      BY <2>1 DEF EndPrune, disk
    <2>3. total[c] = Cardinality(Complete) /\ Complete \ active \subseteq Visited(c)
      BY <1>1, <2>2 DEF QuietInvariant, QuietInv, VisitInv
    <2>4. Complete' = Complete
      BY <2>2 DEF Complete
    <2>5. todo[c] = {} => Visited(c) = {}
      BY DEF Visited
    <2> QED
      BY <2>2, <2>3, <2>4, <2>5
  <1>2. ASSUME UNCHANGED vars PROVE [Delivers]_vars
    BY <1>2
  <1>3. QuietInvariant /\ [Next]_vars => [Delivers]_vars
    BY <1>1, <1>2
  <1> QED
    BY <1>3, PruneInvariant, PTL DEF Spec, PruneDelivers
===============================================================================
