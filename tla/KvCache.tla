-------------------------------- MODULE KvCache --------------------------------
(***************************************************************************)
(* The KV checkpoints of pds4/cache.py.  A checkpoint copies the live      *)
(* payload of a session into a hidden directory beside its target, adds    *)
(* metadata (the identity of the session, the digest of the copy) and      *)
(* renames the directory.  A restore verifies identity and digest, copies  *)
(* the payload back and rewrites the metadata with a new time of access.   *)
(* A timer prunes the cache to a quota.  Each command is a process; no     *)
(* lock is taken; any of them may be killed between two steps.             *)
(*                                                                         *)
(* The payloads are of one size, metadata takes no room, and all sessions  *)
(* are of one lane.  prune visits in any order.  The runtime that serves a *)
(* session is the environment; it writes payloads of the identity that is  *)
(* registered.  Nothing keeps a session from being registered under        *)
(* another identity at any time.                                           *)
(***************************************************************************)
EXTENDS Naturals, FiniteSets

CONSTANTS
    Sessions, Commands,
    Identities,         \* what a session may be registered as
    Ephemeral,          \* the identities of Cyber models
    Contents,           \* what a runtime may have written
    None,
    Quota,              \* --max-size, in payloads
    MaxUpsets,          \* bound: commands killed and identities replaced
    MaxServes           \* bound: payloads the runtime writes

ASSUME NoneAssumption == None \notin Sessions \cup Identities \cup Contents
ASSUME CacheAssumption ==
    /\ IsFiniteSet(Sessions)
    /\ Ephemeral \subseteq Identities
    /\ Quota \in Nat
    /\ MaxUpsets \in Nat
    /\ MaxServes \in Nat

VARIABLES
    registered, \* registered[s]: the identity under /var/lib/pds4/sessions
    active,     \* the sessions that have a directory under /run/pds4/sessions
    live,       \* live[s]: the payload in it, or None
    kept,       \* kept[s]: the checkpoint directory of s
    hidden,     \* sessions of hidden directories with metadata, left by kills
    pc,         \* pc[c]: where command c is
    on,         \* on[c]: the session c works on
    draft,      \* draft[c]: the directory a checkpoint prepares
    current,    \* current[c]: the identity c has read of its session, or None
    known,      \* known[c]: the metadata a restore has verified
    copy,       \* copy[c]: the payload a restore has copied
    files,      \* files[c]: the files a prune has still to unlink
    todo,       \* todo[c]: the listed entries a prune has still to visit
    total,      \* total[c]: the size it still counts
    undisturbed,\* observed: nothing else has happened since c began
    removed,    \* observed: sessions whose checkpoint was removed under a restore
    renamed,    \* observed: sessions registered anew while they had a payload in
                \* front of the runtime, or a checkpoint or a restore under way
    upsets,     \* observed: commands killed and identities replaced
    serves      \* observed: payloads a runtime has written

disk == <<registered, active, live, kept, hidden>>
memory == <<on, draft, current, known, copy, files, todo, total, undisturbed>>
observed == <<removed, renamed, upsets, serves>>
vars == <<disk, pc, memory, observed>>

-----------------------------------------------------------------------------
Payload == [identity : Identities, content : Contents]
Metadata == [identity : Identities, digest : Payload]
Directory == [there : BOOLEAN, payload : Payload \cup {None}, meta : Metadata \cup {None}]
ASSUME RecordAssumption == \A r \in Payload \cup Metadata : r # None

Absent == [there |-> FALSE, payload |-> None, meta |-> None]
Blank == [there |-> TRUE, payload |-> None, meta |-> None]

\* What list_checkpoints finds: checkpoints, and hidden directories, which its
\* glob takes for the checkpoints of their sessions.
Entry == [hidden : BOOLEAN, session : Sessions, size : 0..1]
File == {"payload", "meta"}

Restoring == {"makeDir", "copyKept", "installLive", "touch"}
Steps == {"idle", "copyLive", "writeMeta", "install", "visit", "unlink"}
         \cup Restoring

Init ==
    /\ registered \in [Sessions -> Identities]
    /\ active = {}
    /\ live = [s \in Sessions |-> None]
    /\ kept = [s \in Sessions |-> Absent]
    /\ hidden = {}
    /\ pc = [c \in Commands |-> "idle"]
    /\ on = [c \in Commands |-> None]
    /\ draft = [c \in Commands |-> Absent]
    /\ current = [c \in Commands |-> None]
    /\ known = [c \in Commands |-> None]
    /\ copy = [c \in Commands |-> None]
    /\ files = [c \in Commands |-> {}]
    /\ todo = [c \in Commands |-> {}]
    /\ total = [c \in Commands |-> 0]
    /\ undisturbed = [c \in Commands |-> FALSE]
    /\ removed = {}
    /\ renamed = {}
    /\ upsets = 0
    /\ serves = 0

Busy == {c \in Commands : pc[c] # "idle"}

Begin(c, step) ==
    /\ pc[c] = "idle"
    /\ pc' = [pc EXCEPT ![c] = step]
    /\ undisturbed' = [d \in Commands |-> d = c /\ Busy = {}]
    /\ UNCHANGED observed

Goto(c, from, to) ==
    /\ pc[c] = from
    /\ pc' = [pc EXCEPT ![c] = to]

\* The command returns, raises or is killed.
Exit(c) ==
    /\ pc' = [pc EXCEPT ![c] = "idle"]
    /\ on' = [on EXCEPT ![c] = None]
    /\ draft' = [draft EXCEPT ![c] = Absent]
    /\ current' = [current EXCEPT ![c] = None]
    /\ known' = [known EXCEPT ![c] = None]
    /\ copy' = [copy EXCEPT ![c] = None]
    /\ files' = [files EXCEPT ![c] = {}]
    /\ todo' = [todo EXCEPT ![c] = {}]
    /\ total' = [total EXCEPT ![c] = 0]
    /\ undisturbed' = [undisturbed EXCEPT ![c] = FALSE]

-----------------------------------------------------------------------------
(***************************************************************************)
(* checkpoint.  Its finally clause removes the draft.                      *)
(***************************************************************************)
Checkpoint(c, s) ==
    /\ Begin(c, "copyLive")
    /\ registered[s] \notin Ephemeral
    /\ live[s] # None
    /\ ~kept[s].there
    /\ on' = [on EXCEPT ![c] = s]
    /\ draft' = [draft EXCEPT ![c] = Blank]
    /\ current' = [current EXCEPT ![c] = registered[s]]
    /\ UNCHANGED <<disk, known, copy, files, todo, total>>

CopyLive(c) ==
    /\ pc[c] = "copyLive"
    /\ IF live[on[c]] = None
       THEN Exit(c)
       ELSE /\ pc' = [pc EXCEPT ![c] = "writeMeta"]
            /\ draft' = [draft EXCEPT ![c].payload = live[on[c]]]
            /\ UNCHANGED <<on, current, known, copy, files, todo, total, undisturbed>>
    /\ UNCHANGED <<disk, observed>>

\* Mutant: the digest is that of the live payload.
WriteMeta_Live(c) ==
    /\ Goto(c, "writeMeta", "install")
    /\ live[on[c]] # None
    /\ draft' = [draft EXCEPT ![c].meta = [identity |-> current[c],
                                           digest |-> live[on[c]]]]
    /\ UNCHANGED <<disk, on, current, known, copy, files, todo, total, undisturbed, observed>>

\* The digest is that of the copy, the identity that read at the start.
WriteMeta(c) ==
    /\ Goto(c, "writeMeta", "install")
    /\ draft' = [draft EXCEPT ![c].meta = [identity |-> current[c],
                                           digest |-> draft[c].payload]]
    /\ UNCHANGED <<disk, on, current, known, copy, files, todo, total, undisturbed, observed>>

\* Mutant: the draft takes the place of any directory.
InstallCheckpoint_Any(c) ==
    /\ pc[c] = "install"
    /\ kept' = [kept EXCEPT ![on[c]] = draft[c]]
    /\ Exit(c)
    /\ UNCHANGED <<registered, active, live, hidden, observed>>

\* os.replace takes the place of an absent or an empty directory only.
InstallCheckpoint(c) ==
    /\ pc[c] = "install"
    /\ kept' = IF kept[on[c]] \in {Absent, Blank}
               THEN [kept EXCEPT ![on[c]] = draft[c]] ELSE kept
    /\ Exit(c)
    /\ UNCHANGED <<registered, active, live, hidden, observed>>

-----------------------------------------------------------------------------
(***************************************************************************)
(* restore.                                                                *)
(***************************************************************************)
\* Mutant: the identity is not compared.
VerifiesCheckpoint_Any(s) == kept[s].meta # None /\ kept[s].payload = kept[s].meta.digest

\* verify_checkpoint: metadata of the identity the session has now, and a
\* payload of the digest it names.
VerifiesCheckpoint(s) ==
    /\ kept[s].meta # None
    /\ kept[s].meta.identity = registered[s]
    /\ kept[s].payload = kept[s].meta.digest

Restore(c, s) ==
    /\ Begin(c, "makeDir")
    /\ VerifiesCheckpoint(s)
    /\ on' = [on EXCEPT ![c] = s]
    /\ current' = [current EXCEPT ![c] = registered[s]]
    /\ known' = [known EXCEPT ![c] = kept[s].meta]
    /\ UNCHANGED <<disk, draft, copy, files, todo, total>>

MakeLiveDir(c) ==
    /\ Goto(c, "makeDir", "copyKept")
    /\ active' = active \cup {on[c]}
    /\ UNCHANGED <<registered, live, kept, hidden, memory, observed>>

CopyKept(c) ==
    /\ pc[c] = "copyKept"
    /\ IF kept[on[c]].payload = None \/ on[c] \notin active
       THEN Exit(c)
       ELSE /\ pc' = [pc EXCEPT ![c] = "installLive"]
            /\ copy' = [copy EXCEPT ![c] = kept[on[c]].payload]
            /\ UNCHANGED <<on, draft, current, known, files, todo, total, undisturbed>>
    /\ UNCHANGED <<disk, observed>>

InstallLive(c) ==
    /\ pc[c] = "installLive"
    /\ IF on[c] \in active
       THEN /\ live' = [live EXCEPT ![on[c]] = copy[c]]
            /\ pc' = [pc EXCEPT ![c] = "touch"]
            /\ UNCHANGED memory
       ELSE Exit(c) /\ UNCHANGED live
    /\ UNCHANGED <<registered, active, kept, hidden, observed>>

\* atomic_write makes the directory if it has to.
Touch(c) ==
    /\ pc[c] = "touch"
    /\ kept' = [kept EXCEPT ![on[c]].there = TRUE, ![on[c]].meta = known[c]]
    /\ Exit(c)
    /\ UNCHANGED <<registered, active, live, hidden, observed>>

-----------------------------------------------------------------------------
(***************************************************************************)
(* prune.                                                                  *)
(***************************************************************************)
\* list_checkpoints: a draft with metadata is hidden, and found.
Listed ==
    {e \in Entry :
        /\ IF e.hidden
           THEN \/ e.session \in hidden
                \/ \E c \in Commands : pc[c] = "install" /\ on[c] = e.session
           ELSE kept[e.session].meta # None
        /\ e.size = IF kept[e.session].payload = None THEN 0 ELSE 1}

\* An entry is measured by the checkpoint directory of its session; when there
\* is none, prune raises.
Prune(c) ==
    /\ \A e \in Listed : kept[e.session].there
    /\ Begin(c, "visit")
    /\ todo' = [todo EXCEPT ![c] = Listed]
    /\ total' = [total EXCEPT ![c] = Cardinality({e \in Listed : e.size = 1})]
    /\ UNCHANGED <<disk, on, draft, current, known, copy, files>>

SkipActive(c, e) ==
    /\ pc[c] = "visit"
    /\ total[c] > Quota
    /\ e \in todo[c]
    /\ e.session \in active
    /\ todo' = [todo EXCEPT ![c] = @ \ {e}]
    /\ UNCHANGED <<disk, pc, on, draft, current, known, copy, files, total, undisturbed, observed>>

\* Mutant: active sessions are not spared.
Choose_Active(c, e) ==
    LET k == kept[e.session] IN
    /\ pc[c] = "visit"
    /\ total[c] > Quota
    /\ e \in todo[c]
    /\ k.there
    /\ pc' = [pc EXCEPT ![c] = "unlink"]
    /\ on' = [on EXCEPT ![c] = e.session]
    /\ files' = [files EXCEPT ![c] = {f \in File : k[f] # None}]
    /\ todo' = [todo EXCEPT ![c] = @ \ {e}]
    /\ total' = [total EXCEPT ![c] = @ - e.size]
    /\ UNCHANGED <<disk, draft, current, known, copy, undisturbed, observed>>

\* Past the test for an active session rmtree lists the directory, unlinks what
\* it has listed in the order of the directory, and removes it.  What has gone or
\* come meanwhile makes it raise.
Choose(c, e) ==
    LET k == kept[e.session] IN
    /\ pc[c] = "visit"
    /\ total[c] > Quota
    /\ e \in todo[c]
    /\ e.session \notin active
    /\ IF k.there
       THEN /\ pc' = [pc EXCEPT ![c] = "unlink"]
            /\ on' = [on EXCEPT ![c] = e.session]
            /\ files' = [files EXCEPT ![c] = {f \in File : k[f] # None}]
            /\ todo' = [todo EXCEPT ![c] = @ \ {e}]
            /\ total' = [total EXCEPT ![c] = @ - e.size]
            /\ UNCHANGED <<draft, current, known, copy, undisturbed>>
       ELSE Exit(c)
    /\ UNCHANGED <<disk, observed>>

Unlink(c, f) ==
    LET s == on[c] IN
    /\ pc[c] = "unlink"
    /\ f \in files[c]
    /\ IF kept[s][f] # None
       THEN /\ kept' = [kept EXCEPT ![s][f] = None]
            /\ removed' = IF \E d \in Commands : on[d] = s /\ pc[d] \in Restoring
                          THEN removed \cup {s} ELSE removed
            /\ files' = [files EXCEPT ![c] = @ \ {f}]
            /\ UNCHANGED <<pc, on, draft, current, known, copy, todo, total, undisturbed>>
       ELSE Exit(c) /\ UNCHANGED <<kept, removed>>
    /\ UNCHANGED <<registered, active, live, hidden, renamed, upsets, serves>>

RemoveDir(c) ==
    /\ pc[c] = "unlink"
    /\ files[c] = {}
    /\ IF kept[on[c]] = Blank
       THEN /\ kept' = [kept EXCEPT ![on[c]] = Absent]
            /\ pc' = [pc EXCEPT ![c] = "visit"]
            /\ on' = [on EXCEPT ![c] = None]
            /\ UNCHANGED <<draft, current, known, copy, files, todo, total, undisturbed>>
       ELSE Exit(c) /\ UNCHANGED kept
    /\ UNCHANGED <<registered, active, live, hidden, observed>>

\* Mutant: one payload too many is left.
EndPrune_Early(c) ==
    /\ pc[c] = "visit"
    /\ total[c] <= Quota + 1 \/ todo[c] = {}
    /\ Exit(c)
    /\ UNCHANGED <<disk, observed>>

\* Either way out: the list of removed sessions, or the error of the quota.
EndPrune(c) ==
    /\ pc[c] = "visit"
    /\ total[c] <= Quota \/ todo[c] = {}
    /\ Exit(c)
    /\ UNCHANGED <<disk, observed>>

-----------------------------------------------------------------------------
\* A command is killed; a draft that has metadata stays where list finds it.
Kill(c) ==
    /\ pc[c] # "idle"
    /\ upsets < MaxUpsets
    /\ upsets' = upsets + 1
    /\ hidden' = IF pc[c] = "install" THEN hidden \cup {on[c]} ELSE hidden
    /\ Exit(c)
    /\ UNCHANGED <<registered, active, live, kept, removed, renamed, serves>>

\* A command that has read the identity of a session.
Works(c, s) == on[c] = s /\ current[c] # None

\* register replaces the identity, whatever there is of the session.
Register(s, i) ==
    /\ \/ i = registered[s] /\ UNCHANGED <<registered, renamed, upsets>>
       \/ /\ i # registered[s]
          /\ upsets < MaxUpsets
          /\ upsets' = upsets + 1
          /\ registered' = [registered EXCEPT ![s] = i]
          /\ renamed' = IF live[s] # None \/ \E c \in Commands : Works(c, s)
                        THEN renamed \cup {s} ELSE renamed
    /\ UNCHANGED <<active, live, kept, hidden, pc, memory, removed, serves>>

\* The runtime serves a session, and ends it.
Disturbed == undisturbed' = [c \in Commands |-> FALSE]

Serve(s, content) ==
    /\ serves < MaxServes
    /\ serves' = serves + 1
    /\ active' = active \cup {s}
    /\ live' = [live EXCEPT ![s] = [identity |-> registered[s], content |-> content]]
    /\ Disturbed
    /\ UNCHANGED <<registered, kept, hidden, pc, on, draft, current, known, copy, files,
                   todo, total, removed, renamed, upsets>>

End(s) ==
    /\ s \in active
    /\ active' = active \ {s}
    /\ live' = [live EXCEPT ![s] = None]
    /\ Disturbed
    /\ UNCHANGED <<registered, kept, hidden, pc, on, draft, current, known, copy, files,
                   todo, total, observed>>

Command(c) ==
    \/ \E s \in Sessions : Checkpoint(c, s) \/ Restore(c, s)
    \/ CopyLive(c) \/ WriteMeta(c) \/ InstallCheckpoint(c)
    \/ MakeLiveDir(c) \/ CopyKept(c) \/ InstallLive(c) \/ Touch(c)
    \/ Prune(c)
    \/ \E e \in Entry : SkipActive(c, e) \/ Choose(c, e)
    \/ RemoveDir(c) \/ EndPrune(c)
    \/ \E f \in File : Unlink(c, f)

Next ==
    \/ \E c \in Commands : Command(c)
    \/ \E c \in Commands : Kill(c)
    \/ \E s \in Sessions, i \in Identities : Register(s, i)
    \/ \E s \in Sessions, content \in Contents : Serve(s, content)
    \/ \E s \in Sessions : End(s)

Spec == Init /\ [][Next]_vars

-----------------------------------------------------------------------------
TypeOK ==
    /\ registered \in [Sessions -> Identities]
    /\ active \subseteq Sessions
    /\ live \in [Sessions -> Payload \cup {None}]
    /\ kept \in [Sessions -> Directory]
    /\ hidden \subseteq Sessions
    /\ pc \in [Commands -> Steps]
    /\ on \in [Commands -> Sessions \cup {None}]
    /\ draft \in [Commands -> Directory]
    /\ current \in [Commands -> Identities \cup {None}]
    /\ known \in [Commands -> Metadata \cup {None}]
    /\ copy \in [Commands -> Payload \cup {None}]
    /\ files \in [Commands -> SUBSET File]
    /\ todo \in [Commands -> SUBSET Entry]
    /\ total \in [Commands -> Nat]
    /\ undisturbed \in [Commands -> BOOLEAN]
    /\ removed \subseteq Sessions
    /\ renamed \subseteq Sessions
    /\ upsets \in 0..MaxUpsets
    /\ serves \in 0..MaxServes

Complete == {s \in Sessions : kept[s].payload # None /\ kept[s].meta # None}

\* A checkpoint that has both its files verifies against itself: metadata and
\* payload are of one checkpoint.  The exception is a session whose checkpoint
\* a prune has removed under a restore: the restore's last step can put old
\* metadata back, beside nothing or beside a newer payload.
CheckpointSound ==
    \A s \in Sessions \ removed :
        (kept[s].payload # None /\ kept[s].meta # None)
            => kept[s].payload = kept[s].meta.digest

\* A session whose identity changes only while it has no payload in front of the
\* runtime, and no checkpoint or restore under way, never has one there that was
\* made under another identity than the one it is registered with: a restore
\* tells the checkpoints of the identities it had before from its own, whatever
\* prunes, checkpoints and kills overlap it.
LiveIsOfIdentity ==
    \A s \in Sessions \ renamed :
        live[s] # None => live[s].identity = registered[s]

\* A checkpoint in place is never overwritten, only removed.
PayloadStays ==
    [][\A s \in Sessions :
          kept[s].payload # None => kept'[s].payload \in {kept[s].payload, None}]_vars

\* A prune that nothing has disturbed never removes the checkpoint of an active
\* session, and starts on none once the quota is met, unless a killed checkpoint
\* has left a hidden directory.
PruneSpares ==
    [][\A c \in Commands :
          (pc[c] = "visit" /\ pc'[c] = "unlink" /\ undisturbed[c])
              => on'[c] \notin active /\ (hidden = {} => Cardinality(Complete) > Quota)]_vars

\* A prune that nothing has disturbed ends with the quota met or with active
\* sessions only, unless a killed checkpoint has left a hidden directory.
PruneDelivers ==
    [][\A c \in Commands :
          (pc[c] \in {"visit", "unlink"} /\ pc'[c] = "idle" /\ undisturbed[c]
              /\ upsets' = upsets /\ hidden = {})
              => Cardinality(Complete') <= Quota \/ Complete' \subseteq active]_vars
===============================================================================
