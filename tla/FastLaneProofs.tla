---------------------------- MODULE FastLaneProofs ----------------------------
(***************************************************************************)
(* Proofs about the switches of the Fast lane, for any number of switchers,*)
(* Flash commands and models.  Whatever fails, a switch publishes what it  *)
(* means to; as long as nothing of what the four constants MayInterrupt,   *)
(* StopMayFail, DiskMayFail and RollbackMayFail allow happens, there is    *)
(* one primary at a time, a ready lane is served by its model and a model  *)
(* is promoted after its own trials.                                       *)
(***************************************************************************)
EXTENDS FastLane, TLAPS

\* No command is killed; no stop of a rollback fails, which the code would swallow
\* (pds4/lane.py:166-169); no write before the try block fails; and no step that
\* restores the previous model fails.  What fails inside the try block, and servers
\* and units that end by themselves, remain.
NoFaults == ~MayInterrupt /\ ~StopMayFail /\ ~DiskMayFail /\ ~RollbackMayFail

\* No command is killed, and none fails before its try block or in its rollback;
\* a stop of the rollback may fail, which the code swallows.
NoEarlyEnd == ~MayInterrupt /\ ~DiskMayFail /\ ~RollbackMayFail

-----------------------------------------------------------------------------
(***************************************************************************)
(* The invariant.                                                          *)
(***************************************************************************)
\* A switcher is at work as long as it holds the lock.
LockInv == \A s \in Switchers : lock = s <=> pc[s] # "idle"

\* What a rollback publishes.
RolledBack(s) == IF previous[s] = None THEN [status |-> "failed", model |-> None]
                 ELSE Ready(previous[s])

\* What a switch is about to publish, and what it has published at its end.
PublishInv ==
    \A s \in Switchers : lock = s =>
        /\ target[s] \in Models
        /\ pc[s] \in Writing =>
              \/ next[s] = "begin" /\ pending[s] = [status |-> "warming", model |-> target[s]]
              \/ next[s] = "commit" /\ pending[s] = Ready(target[s])
              \/ next[s] = "report" /\ pending[s] = RolledBack(s)
        /\ pc[s] \in {"stopPrevious"} \cup Restoring => previous[s] # None
        /\ pc[s] \in {"other", "routes"} => lane["fast"] = pending[s]
        /\ pc[s] = "commit" => lane["fast"] = Ready(target[s])
        /\ pc[s] = "report" => lane["fast"] = RolledBack(s)

\* A server belongs to an active unit and runs what its environment names.
ServerInv ==
    \A k \in Kinds : server[k] # NoServer =>
        server[k].unit \in units[k] /\ server[k].weights = env[k]

\* Where no canary is active, and where no primary is.
NoCanary(s) == pc[s] \notin {"probeCanary", "stopCanary", "undoCanary"}
NoPrimary == {"canaryEnv", "startCanary", "probeCanary", "stopCanary", "primaryEnv",
              "startPrimary"}

At(s, steps, from) == pc[s] \in steps \/ (pc[s] \in Writing /\ next[s] = from)

\* The units that may be active at each step of a switch, and what their
\* environment names.
UnitInv ==
    \A s \in Switchers : lock = s =>
        /\ units["canary"] \subseteq {target[s]}
        /\ NoCanary(s) => units["canary"] = {}
        /\ pc[s] \in NoPrimary => units["primary"] = {}
        /\ pc[s] \in {"startCanary", "probeCanary"} => env["canary"] = target[s]
        /\ At(s, {"begin", "stopPrevious"}, "begin") =>
              /\ units["primary"] \subseteq {previous[s]}
              /\ previous[s] # None => env["primary"] = previous[s]
        /\ At(s, {"startPrimary", "probePrimary", "promote", "commit"}, "commit") =>
              units["primary"] \subseteq {target[s]} /\ env["primary"] = target[s]
        /\ pc[s] \in {"undoCanary", "undoPrimary"} =>
              \/ units["primary"] \subseteq {target[s]}
              \/ units["primary"] \subseteq {previous[s]} /\ env["primary"] = previous[s]
        /\ pc[s] = "restoreEnv" =>
              /\ units["primary"] \subseteq {previous[s]}
              /\ units["primary"] # {} => env["primary"] = previous[s]
        /\ At(s, {"restartPrevious", "probePrevious", "report"}, "report") =>
              /\ units["primary"] \subseteq {previous[s]}
              /\ previous[s] # None => env["primary"] = previous[s]

\* The same between switches.
RestInv ==
    lock = None =>
        /\ units["canary"] = {}
        /\ lane["fast"].status = "ready" =>
              /\ units["primary"] \subseteq {lane["fast"].model}
              /\ env["primary"] = lane["fast"].model
        /\ lane["fast"].status # "ready" => units["primary"] = {}

\* The trials the target of a switch has passed.
TrialInv ==
    \A s \in Switchers : lock = s =>
        /\ pc[s] \in {"stopCanary", "primaryEnv", "startPrimary", "probePrimary"} =>
              "canary" \in probed[s]
        /\ pc[s] = "promote" => probed[s] = Kinds

\* Every variable keeps its type, and only models are ready in the Fast lane.
TypeInv ==
    /\ TypeOK
    /\ \A g \in FlashOps : pc[g] \in {"idle", "systemctl"} \cup Writing /\ next[g] = "idle"
    /\ \A s \in Switchers : pc[s] # "systemctl"
    /\ lane["fast"].status = "ready" => lane["fast"].model \in Models

\* What holds whatever fails, and without faults.
SwitchInv == TypeInv /\ LockInv /\ PublishInv

LaneInv ==
    /\ TypeInv /\ LockInv /\ PublishInv
    /\ ServerInv /\ UnitInv /\ RestInv /\ TrialInv

-----------------------------------------------------------------------------
LEMMA Names ==
  /\ Other("canary", Kinds) = "primary" /\ Other("primary", Kinds) = "canary"
  /\ Other("fast", Lanes) = "flash" /\ Other("flash", Lanes) = "fast"
  /\ \A s \in Switchers : LaneOf(s) = "fast" /\ s \in Commands /\ s # None
  /\ \A g \in FlashOps : LaneOf(g) = "flash" /\ g \in Commands /\ g \notin Switchers
  BY CommandAssumption DEF Other, Kinds, Lanes, LaneOf, Commands

LEMMA LaneInvInit == Init => LaneInv
  <1> SUFFICES ASSUME Init PROVE LaneInv
    OBVIOUS
  <1> USE DEF Init
  <1>1. TypeInv
    BY Names DEF TypeInv, TypeOK, Step, LaneState, Stopped, Server, NoServer, Kinds, Lanes
  <1>2. LockInv /\ PublishInv /\ UnitInv /\ TrialInv
    BY Names DEF LockInv, PublishInv, UnitInv, TrialInv
  <1>3. ServerInv /\ RestInv
    BY DEF ServerInv, RestInv, Stopped, Kinds, Lanes
  <1> QED
    BY <1>1, <1>2, <1>3 DEF LaneInv

-----------------------------------------------------------------------------
(***************************************************************************)
(* What holds whatever fails: the types, one switch at a time, and what it *)
(* publishes.                                                              *)
(***************************************************************************)
\* systemctl, as far as the types go.
LEMMA UnitTypes ==
  ASSUME TypeInv, NEW k \in Kinds, NEW m,
         StopUnit(k, m) \/ (StartUnit(k, m) /\ m \in Models) \/ UNCHANGED <<units, server>>
  PROVE  units' \in [Kinds -> SUBSET Models] /\ server' \in [Kinds -> Server]
  <1>1. NoServer \in Server
    BY DEF NoServer, Server
  <1>2. units \in [Kinds -> SUBSET Models] /\ server \in [Kinds -> Server]
    BY DEF TypeInv, TypeOK
  <1>3. \A j \in Kinds : Without(j, m).server \in Server /\ Without(j, m).unit \subseteq Models
    BY <1>1, <1>2 DEF Without
  <1>4. CASE StopUnit(k, m)
    BY <1>2, <1>3, <1>4 DEF StopUnit
  <1>5. CASE StartUnit(k, m) /\ m \in Models
    <2>1. Other(k, Kinds) \in Kinds
      BY Names DEF Kinds
    <2> QED
      BY <1>2, <1>3, <1>5, <2>1 DEF StartUnit
  <1> QED
    BY <1>2, <1>4, <1>5

LEMMA LockSwitch ==
  ASSUME SwitchInv, NEW s \in Switchers, NEW m \in Models, Lock(s, m)
  PROVE  SwitchInv'
  <1> USE Names DEF Lock, Publish, Goto
  <1>1. /\ lock = None /\ lock' = s
        /\ pc'[s] = "file" /\ next'[s] = "begin" /\ target'[s] = m
        /\ pending'[s] = [status |-> "warming", model |-> m]
        /\ \A d \in Commands \ {s} : pc'[d] = pc[d] /\ next'[d] = next[d]
        /\ UNCHANGED <<lane, routes, env, units, server>>
    BY DEF SwitchInv, TypeInv, TypeOK, files, system
  <1>2. TypeInv'
    BY <1>1 DEF SwitchInv, TypeInv, TypeOK, files, system, Step, Writing, LaneState
  <1>3. LockInv'
    BY <1>1 DEF SwitchInv, LockInv
  <1>4. PublishInv'
    BY <1>1 DEF PublishInv, Writing, Restoring
  <1> QED
    BY <1>2, <1>3, <1>4 DEF SwitchInv

\* A step that publishes nothing.
LEMMA QuietStep ==
  ASSUME SwitchInv, NEW s \in Switchers, pc[s] # "idle",
         NEW to \in Step \ ({"idle", "systemctl", "commit", "report"} \cup Writing),
         pc' = [pc EXCEPT ![s] = to],
         to \in {"stopPrevious"} \cup Restoring => previous[s] # None,
         UNCHANGED <<lock, next, pending, seen, target, previous, files>>,
         env' \in [Kinds -> Models \cup {None}], units' \in [Kinds -> SUBSET Models],
         server' \in [Kinds -> Server], promoted' \subseteq Models,
         probed' \in [Commands -> SUBSET Kinds]
  PROVE  SwitchInv'
  <1> USE Names
  <1>1. /\ lock = s /\ pc'[s] = to /\ UNCHANGED <<lane, routes>>
        /\ \A d \in Commands \ {s} : pc'[d] = pc[d]
    BY DEF SwitchInv, LockInv, TypeInv, TypeOK, files
  <1>2. TypeInv'
    BY <1>1 DEF SwitchInv, TypeInv, TypeOK
  <1>3. LockInv'
    BY <1>1 DEF SwitchInv, LockInv
  <1>4. PublishInv'
    BY <1>1 DEF SwitchInv, PublishInv, RolledBack, Writing
  <1> QED
    BY <1>2, <1>3, <1>4 DEF SwitchInv

LEMMA QuietSwitch ==
  ASSUME SwitchInv, NEW s \in Switchers,
         \/ Begin(s) \/ StopPrevious(s)
         \/ CanaryEnv(s) \/ StartCanary(s) \/ ProbeCanary(s) \/ StopCanary(s)
         \/ PrimaryEnv(s) \/ StartPrimary(s) \/ ProbePrimary(s)
         \/ TryFails(s) \/ UndoCanary(s) \/ RestoreEnv(s) \/ RestartPrevious(s)
  PROVE  SwitchInv'
  <1> USE Names
  <1>1. /\ target[s] \in Models \cup {None} /\ previous[s] \in Models \cup {None}
        /\ pc[s] # "idle" => target[s] \in Models
        /\ pc[s] \in {"stopPrevious"} \cup Restoring => previous[s] # None
        /\ env \in [Kinds -> Models \cup {None}] /\ units \in [Kinds -> SUBSET Models]
        /\ server \in [Kinds -> Server] /\ promoted \subseteq Models
        /\ probed \in [Commands -> SUBSET Kinds] /\ TypeInv
        /\ "canary" \in Kinds /\ "primary" \in Kinds
    <2>1. /\ pc[s] # "idle" => target[s] \in Models
          /\ pc[s] \in {"stopPrevious"} \cup Restoring => previous[s] # None
      BY DEF SwitchInv, LockInv, PublishInv, Restoring
    <2> QED
      BY <2>1 DEF SwitchInv, TypeInv, TypeOK, Kinds
  <1>2. CASE Begin(s)
    <2>1. PICK to \in {"canaryEnv", "stopPrevious"} :
            pc' = [pc EXCEPT ![s] = to] /\ (to = "stopPrevious" => previous[s] # None)
      BY <1>2 DEF Begin, Goto
    <2> QED
      BY <1>1, <1>2, <2>1, QuietStep
         DEF Begin, Goto, system, history, Step, Writing, Trying, Restoring
  <1>3. ASSUME NEW from \in Step \ {"idle"},
               NEW to \in Step \ ({"idle", "systemctl", "commit", "report"} \cup Writing),
               NEW k \in Kinds, NEW m, Unit(s, from, to),
               to \in {"stopPrevious"} \cup Restoring => previous[s] # None,
               StopUnit(k, m) \/ (StartUnit(k, m) /\ m \in Models) \/ UNCHANGED <<units, server>>
        PROVE  SwitchInv'
    <2>1. units' \in [Kinds -> SUBSET Models] /\ server' \in [Kinds -> Server]
      BY <1>1, <1>3, UnitTypes
    <2> QED
      BY <1>1, <1>3, <2>1, QuietStep DEF Unit, Goto, history
  <1>4. ASSUME NEW from \in Step \ {"idle"},
               NEW to \in Step \ ({"idle", "systemctl", "commit", "report"} \cup Writing),
               NEW k \in Kinds, NEW m \in Models, WriteEnv(s, k, m, from, to),
               to \in {"stopPrevious"} \cup Restoring => previous[s] # None
        PROVE  SwitchInv'
    BY <1>1, <1>4, QuietStep DEF WriteEnv, Goto, history
  <1>5. ASSUME NEW from \in Step \ {"idle"},
               NEW to \in Step \ ({"idle", "systemctl", "commit", "report"} \cup Writing \cup
                                   {"stopPrevious"} \cup Restoring),
               NEW k \in Kinds, Probe(s, k, from, to)
        PROVE  SwitchInv'
    <2>1. probed' \in [Commands -> SUBSET Kinds]
      BY <1>1, <1>5 DEF Probe
    <2> QED
      BY <1>1, <1>5, <2>1, QuietStep DEF Probe, Goto, system
  <1>6. CASE TryFails(s)
    BY <1>1, <1>6, QuietStep DEF TryFails, Trying, Writing, Restoring, Step, system, history
  <1>7. /\ {"stopPrevious", "canaryEnv", "startCanary", "probeCanary", "stopCanary",
            "primaryEnv", "startPrimary", "probePrimary", "promote", "undoCanary",
            "undoPrimary", "restartPrevious", "probePrevious"}
              \subseteq Step \ ({"idle", "systemctl", "commit", "report"} \cup Writing)
        /\ Restoring = {"restoreEnv", "restartPrevious", "probePrevious"}
        /\ "restoreEnv" \in Step
    BY DEF Step, Writing, Trying, Restoring
  <1>8. CASE StopPrevious(s) \/ StartCanary(s) \/ StopCanary(s) \/ StartPrimary(s) \/ UndoCanary(s)
    <2>1. pc[s] # "idle"
      BY <1>8 DEF StopPrevious, StartCanary, StopCanary, StartPrimary, UndoCanary, Unit, Goto
    <2> QED
      BY <1>1, <1>3, <1>7, <1>8, <2>1
         DEF StopPrevious, StartCanary, StopCanary, StartPrimary, UndoCanary
  <1>9. CASE RestartPrevious(s) \/ RestoreEnv(s)
    <2>1. pc[s] \in Restoring /\ previous[s] # None
      BY <1>1, <1>7, <1>9 DEF RestartPrevious, RestoreEnv, Unit, WriteEnv, Goto
    <2> QED
      BY <1>1, <1>3, <1>4, <1>7, <1>9, <2>1 DEF RestartPrevious, RestoreEnv
  <1>10. CASE CanaryEnv(s) \/ PrimaryEnv(s)
    <2>1. pc[s] # "idle"
      BY <1>10 DEF CanaryEnv, PrimaryEnv, WriteEnv, Goto
    <2> QED
      BY <1>1, <1>4, <1>7, <1>10, <2>1 DEF CanaryEnv, PrimaryEnv
  <1>11. CASE ProbeCanary(s) \/ ProbePrimary(s)
    BY <1>1, <1>5, <1>7, <1>11 DEF ProbeCanary, ProbePrimary
  <1> QED
    BY <1>2, <1>6, <1>8, <1>9, <1>10, <1>11

\* A step that begins to publish.
LEMMA PublishStep ==
  ASSUME SwitchInv, NEW s \in Switchers, pc[s] # "idle", NEW value \in LaneState,
         NEW then \in {"commit", "report"},
         \/ then = "commit" /\ value = Ready(target[s])
         \/ then = "report" /\ value = RolledBack(s),
         Publish(s, pc[s], value, then),
         UNCHANGED <<lock, seen, target, previous, files, env, probed>>,
         units' \in [Kinds -> SUBSET Models], server' \in [Kinds -> Server],
         promoted' \subseteq Models
  PROVE  SwitchInv'
  <1> USE Names
  <1>1. /\ lock = s /\ UNCHANGED <<lane, routes>>
        /\ pc' = [pc EXCEPT ![s] = "file"] /\ pc'[s] = "file"
        /\ pending' = [pending EXCEPT ![s] = value] /\ pending'[s] = value
        /\ next' = [next EXCEPT ![s] = then] /\ next'[s] = then
        /\ \A d \in Commands \ {s} : pc'[d] = pc[d]
    BY DEF SwitchInv, LockInv, TypeInv, TypeOK, files, Publish, Goto
  <1>2. TypeInv'
    BY <1>1 DEF SwitchInv, TypeInv, TypeOK, Step, Writing
  <1>3. LockInv'
    BY <1>1 DEF SwitchInv, LockInv
  <1>4. PublishInv'
    BY <1>1 DEF SwitchInv, PublishInv, RolledBack, Writing, Restoring
  <1> QED
    BY <1>2, <1>3, <1>4 DEF SwitchInv

LEMMA PublishSwitch ==
  ASSUME SwitchInv, NEW s \in Switchers, Promote(s) \/ ProbePrevious(s) \/ UndoPrimary(s)
  PROVE  SwitchInv'
  <1> USE Names
  <1>1. /\ pc[s] # "idle" /\ target[s] \in Models /\ previous[s] \in Models \cup {None}
        /\ pc[s] \in Restoring => previous[s] # None
        /\ TypeInv /\ "primary" \in Kinds
        /\ units \in [Kinds -> SUBSET Models] /\ server \in [Kinds -> Server]
        /\ env \in [Kinds -> Models \cup {None}]
        /\ promoted \subseteq Models /\ probed \in [Commands -> SUBSET Kinds]
    BY DEF Promote, ProbePrevious, UndoPrimary, Publish, Goto, SwitchInv, TypeInv, TypeOK,
           LockInv, PublishInv, Kinds
  <1>2. Ready(target[s]) \in LaneState /\ RolledBack(s) \in LaneState
    BY <1>1 DEF LaneState, Ready, RolledBack
  <1>3. CASE Promote(s)
    <2>1. Publish(s, pc[s], Ready(target[s]), "commit")
      BY <1>3 DEF Promote, Publish, Goto
    <2> QED
      BY <1>1, <1>2, <1>3, <2>1, PublishStep DEF Promote, system
  <1>4. CASE ProbePrevious(s)
    <2>1. Publish(s, pc[s], RolledBack(s), "report")
      BY <1>1, <1>4 DEF ProbePrevious, Publish, Goto, RolledBack, Restoring
    <2> QED
      BY <1>1, <1>2, <1>4, <2>1, PublishStep DEF ProbePrevious, system, history
  <1>5. CASE UndoPrimary(s)
    <2>1. units' \in [Kinds -> SUBSET Models] /\ server' \in [Kinds -> Server]
      BY <1>1, <1>5, UnitTypes DEF UndoPrimary
    <2>2. CASE previous[s] # None
      <3>1. pc' = [pc EXCEPT ![s] = "restoreEnv"] /\ UNCHANGED <<next, pending>>
        BY <1>5, <2>2 DEF UndoPrimary, Goto
      <3> QED
        BY <1>1, <1>5, <2>1, <2>2, <3>1, QuietStep
           DEF UndoPrimary, history, Step, Writing, Restoring
    <2>3. CASE previous[s] = None
      <3>1. Publish(s, pc[s], RolledBack(s), "report")
        BY <1>5, <2>3 DEF UndoPrimary, Publish, Goto, RolledBack
      <3> QED
        BY <1>1, <1>2, <1>5, <2>1, <3>1, PublishStep DEF UndoPrimary, history
    <2> QED
      BY <2>2, <2>3
  <1> QED
    BY <1>3, <1>4, <1>5

LEMMA WriteSwitch ==
  ASSUME SwitchInv, NEW s \in Switchers, Write(s)
  PROVE  /\ SwitchInv' /\ lock = s /\ pc[s] \in Writing
         /\ next[s] \in {"begin", "commit", "report"}
         /\ pc'[s] \in Writing \/ pc'[s] = next[s]
         /\ \A d \in Commands \ {s} : pc'[d] = pc[d]
         /\ UNCHANGED <<lock, env, units, server, target, previous, probed, next>>
  <1> USE Names
  <1>1. pc[s] \in Writing /\ lock = s
    BY DEF Write, WriteFile, ReadOther, WriteRoutes, Goto, Writing, SwitchInv, LockInv
  <1>2. /\ next[s] \in {"begin", "commit", "report"}
        /\ pending[s].status = "ready" => pending[s].model \in Models
    <2>1. target[s] \in Models /\ previous[s] \in Models \cup {None}
      BY <1>1 DEF SwitchInv, TypeInv, TypeOK, PublishInv
    <2>2. \/ next[s] = "begin" /\ pending[s] = [status |-> "warming", model |-> target[s]]
          \/ next[s] = "commit" /\ pending[s] = Ready(target[s])
          \/ next[s] = "report" /\ pending[s] = RolledBack(s)
      BY <1>1 DEF SwitchInv, PublishInv
    <2> QED
      BY <2>1, <2>2 DEF RolledBack, Ready
  <1>3. /\ lock' = s /\ UNCHANGED <<env, units, server, target, previous, probed>>
        /\ UNCHANGED <<pending, next, promoted>>
        /\ pc' \in [Commands -> Step] /\ pc'[s] # "idle"
        /\ \A d \in Commands \ {s} : pc'[d] = pc[d]
    <2>1. \/ pc' = [pc EXCEPT ![s] = "other"]
          \/ pc' = [pc EXCEPT ![s] = "routes"]
          \/ pc' = [pc EXCEPT ![s] = next[s]]
      BY <1>2 DEF Write, WriteFile, ReadOther, WriteRoutes, Goto
    <2>2. pc \in [Commands -> Step]
      BY DEF SwitchInv, TypeInv, TypeOK
    <2>3. {"other", "routes", next[s]} \subseteq Step \ {"idle"}
      BY <1>2 DEF Step, Writing, Trying
    <2>4. /\ lock' = lock /\ UNCHANGED <<env, units, server, target, previous, probed>>
          /\ UNCHANGED <<pending, next, promoted>>
      BY <1>2 DEF Write, WriteFile, ReadOther, WriteRoutes, system, history
    <2> QED
      BY <1>1, <2>1, <2>2, <2>3, <2>4
  <1>4. \/ pc'[s] = "other" /\ lane' = [lane EXCEPT !["fast"] = pending[s]]
        \/ pc'[s] \in {"routes", next[s]} /\ pc[s] \in {"other", "routes"} /\ lane' = lane
    BY <1>1, <1>2 DEF Write, WriteFile, ReadOther, WriteRoutes, Goto, system, files, history,
                      SwitchInv, TypeInv, TypeOK
  <1>5. pc'[s] \in Writing \/ pc'[s] = next[s]
    BY <1>4 DEF Writing
  <1>6. lane'["fast"] = pending[s]
    BY <1>1, <1>4 DEF SwitchInv, TypeInv, TypeOK, PublishInv, Lanes
  <1>7. TypeInv'
    <2>1. /\ seen' \in [Commands -> LaneState]
          /\ lane' \in [Lanes -> LaneState] /\ routes' \in [Lanes -> LaneState]
      <3>1. /\ seen \in [Commands -> LaneState] /\ pending \in [Commands -> LaneState]
            /\ lane \in [Lanes -> LaneState] /\ routes \in [Lanes -> LaneState]
            /\ "flash" \in Lanes
        BY DEF SwitchInv, TypeInv, TypeOK, Lanes
      <3>2. /\ \/ lane' = lane
               \/ lane' = [lane EXCEPT !["fast"] = pending[s]]
            /\ seen' = seen \/ seen' = [seen EXCEPT ![s] = lane["flash"]]
            /\ \/ routes' = routes
               \/ routes' = [l \in Lanes |-> IF l = LaneOf(s) THEN pending[s] ELSE seen[s]]
        BY <1>2 DEF Write, WriteFile, ReadOther, WriteRoutes, files
      <3> QED
        BY <3>1, <3>2
    <2>2. \A t \in Switchers : pc'[t] # "systemctl"
      BY <1>2, <1>3, <1>5 DEF SwitchInv, TypeInv, Writing
    <2> QED
      BY <1>2, <1>3, <1>6, <2>1, <2>2 DEF SwitchInv, TypeInv, TypeOK
  <1>8. LockInv'
    BY <1>1, <1>3 DEF SwitchInv, LockInv
  <1>9. PublishInv'
    BY <1>1, <1>2, <1>3, <1>5, <1>6 DEF SwitchInv, PublishInv, RolledBack, Writing, Restoring
  <1> QED
    BY <1>1, <1>2, <1>3, <1>5, <1>7, <1>8, <1>9 DEF SwitchInv

LEMMA ExitSwitch ==
  ASSUME SwitchInv, NEW s \in Switchers, pc[s] # "idle", Exit(s),
         UNCHANGED <<files, system, promoted>>
  PROVE  SwitchInv'
  <1> USE Names
  <1>1. /\ lock = s /\ lock' = None /\ UNCHANGED <<lane, routes, env, units, server, promoted>>
        /\ \A d \in Switchers : pc'[d] = "idle"
    BY DEF Exit, SwitchInv, LockInv, TypeInv, TypeOK, files, system
  <1>2. TypeInv'
    BY <1>1 DEF Exit, SwitchInv, TypeInv, TypeOK, Step, LaneState, Stopped
  <1>3. LockInv' /\ PublishInv'
    BY <1>1 DEF LockInv, PublishInv
  <1> QED
    BY <1>2, <1>3 DEF SwitchInv

LEMMA SwitchSwitch ==
  ASSUME SwitchInv, NEW s \in Switchers, Switch(s)
  PROVE  SwitchInv'
  <1>1. ASSUME Commit(s) \/ Report(s) \/ EndsEarly(s) PROVE SwitchInv'
    <2>1. pc[s] # "idle" /\ Exit(s) /\ UNCHANGED <<files, system, promoted>>
      BY <1>1 DEF Commit, Report, EndsEarly, Restoring, Writing
    <2> QED
      BY <2>1, ExitSwitch
  <1> QED
    BY <1>1, QuietSwitch, PublishSwitch DEF Switch

\* The steps of the Flash commands and of systemd.
LEMMA FlashStep ==
  ASSUME TypeInv, NEW g \in FlashOps,
         \/ FlashBegin(g) \/ FlashSystemctl(g) \/ Write(g)
         \/ Exit(g) /\ UNCHANGED <<files, system, promoted>>
  PROVE  /\ TypeInv' /\ UNCHANGED <<lock, env, units, server, promoted>>
         /\ lane'["fast"] = lane["fast"]
         /\ \A s \in Switchers : /\ pc'[s] = pc[s] /\ next'[s] = next[s]
                                  /\ pending'[s] = pending[s] /\ probed'[s] = probed[s]
                                  /\ target'[s] = target[s] /\ previous'[s] = previous[s]
  <1> USE Names
  <1>1. /\ pc \in [Commands -> Step]
        /\ next \in [Commands -> {"idle", "begin", "commit", "report"}]
        /\ pending \in [Commands -> LaneState] /\ seen \in [Commands -> LaneState]
        /\ target \in [Commands -> Models \cup {None}]
        /\ previous \in [Commands -> Models \cup {None}]
        /\ probed \in [Commands -> SUBSET Kinds]
        /\ lane \in [Lanes -> LaneState] /\ routes \in [Lanes -> LaneState]
        /\ lock # g /\ next[g] = "idle"
        /\ Stopped \in LaneState /\ Ready(Flash) \in LaneState
        /\ "fast" \in Lanes /\ "fast" # "flash"
    BY CommandAssumption DEF TypeInv, TypeOK, LaneState, Stopped, Ready, Lanes
  <1>2. /\ UNCHANGED <<lock, env, units, server, promoted>>
        /\ lane'["fast"] = lane["fast"]
        /\ \A d \in Commands \ {g} : /\ pc'[d] = pc[d] /\ next'[d] = next[d]
                                     /\ pending'[d] = pending[d] /\ probed'[d] = probed[d]
                                     /\ target'[d] = target[d] /\ previous'[d] = previous[d]
        /\ pc' \in [Commands -> Step] /\ pc'[g] \in {"idle", "systemctl"} \cup Writing
        /\ next' \in [Commands -> {"idle", "begin", "commit", "report"}] /\ next'[g] = "idle"
        /\ pending' \in [Commands -> LaneState] /\ seen' \in [Commands -> LaneState]
        /\ target' \in [Commands -> Models \cup {None}]
        /\ previous' \in [Commands -> Models \cup {None}]
        /\ probed' \in [Commands -> SUBSET Kinds]
        /\ lane' \in [Lanes -> LaneState] /\ routes' \in [Lanes -> LaneState]
    <2>1. CASE FlashBegin(g)
      BY <1>1, <2>1 DEF FlashBegin, Goto, files, system, history, Step, Writing
    <2>2. CASE FlashSystemctl(g)
      BY <1>1, <2>2 DEF FlashSystemctl, Publish, Goto, files, system, history, Step, Writing
    <2>3. CASE WriteFile(g) \/ ReadOther(g)
      BY <1>1, <2>3 DEF WriteFile, ReadOther, Goto, files, system, history, Step, Writing
    <2>4. CASE WriteRoutes(g)
      BY <1>1, <2>4 DEF WriteRoutes, Exit, files, system, history, Step, Writing
    <2>5. CASE Exit(g) /\ UNCHANGED <<files, system, promoted>>
      BY <1>1, <2>5 DEF Exit, files, system, Step, Writing
    <2> QED
      BY <2>1, <2>2, <2>3, <2>4, <2>5 DEF Write
  <1>3. \A s \in Switchers : s \in Commands \ {g}
    OBVIOUS
  <1>4. TypeInv'
    BY <1>2, <1>3 DEF TypeInv, TypeOK
  <1> QED
    BY <1>2, <1>3, <1>4

LEMMA SystemStep ==
  ASSUME TypeInv, NEW k \in Kinds,
         \/ Loaded(k) \/ ServerFails
         \/ \E m \in Models : Exec(k, m) \/ UnitEnds(k, m)
  PROVE  /\ TypeInv' /\ \A j \in Kinds : units'[j] \subseteq units[j]
         /\ UNCHANGED <<lock, env, lane, routes, pc, next, pending, seen>>
         /\ UNCHANGED <<target, previous, promoted, probed>>
  <1>1. /\ UNCHANGED <<lock, env, lane, routes, pc, next, pending, seen>>
        /\ UNCHANGED <<target, previous, promoted, probed>>
    BY DEF Loaded, Exec, UnitEnds, ServerFails, locals, files, history
  <1>2. /\ units \in [Kinds -> SUBSET Models] /\ server \in [Kinds -> Server]
        /\ env \in [Kinds -> Models \cup {None}] /\ NoServer \in Server
    BY DEF TypeInv, TypeOK, NoServer, Server
  <1> DEFINE Kept == /\ units' \in [Kinds -> SUBSET Models] /\ server' \in [Kinds -> Server]
                     /\ \A j \in Kinds : units'[j] \subseteq units[j]
  <1>3. Kept
    <2>1. ASSUME NEW m \in Models, UnitEnds(k, m) PROVE Kept
      BY <1>2, <2>1, UnitTypes DEF UnitEnds, StopUnit, Without
    <2>2. ASSUME NEW m \in Models, Exec(k, m) PROVE Kept
      <3>1. [unit |-> m, weights |-> env[k], ready |-> FALSE] \in Server
        BY <1>2 DEF Server
      <3> QED
        BY <1>2, <2>2, <3>1 DEF Exec
    <2>3. CASE Loaded(k)
      <3>1. [server[k] EXCEPT !.ready = TRUE] \in Server
        BY <1>2 DEF Server
      <3> QED
        BY <1>2, <2>3, <3>1 DEF Loaded
    <2>4. CASE ServerFails
      BY <1>2, <2>4 DEF ServerFails
    <2> QED
      BY <2>1, <2>2, <2>3, <2>4
  <1>4. TypeInv'
    BY <1>1, <1>3 DEF TypeInv, TypeOK
  <1> QED
    BY <1>1, <1>3, <1>4

LEMMA SwitchInvNext ==
  ASSUME SwitchInv, [Next]_vars
  PROVE  SwitchInv'
  <1>1. ASSUME TypeInv', UNCHANGED lock, lane'["fast"] = lane["fast"],
               \A s \in Switchers : /\ pc'[s] = pc[s] /\ next'[s] = next[s]
                                    /\ pending'[s] = pending[s]
                                    /\ target'[s] = target[s] /\ previous'[s] = previous[s]
        PROVE  SwitchInv'
    BY <1>1 DEF SwitchInv, LockInv, PublishInv, RolledBack
  <1>2. CASE UNCHANGED vars
    <2>1. /\ UNCHANGED <<lock, pc, next, pending, seen, target, previous, lane, routes>>
          /\ UNCHANGED <<env, units, server, promoted, probed>>
      BY <1>2 DEF vars, locals, files, system, history
    <2>2. TypeInv'
      BY <2>1 DEF SwitchInv, TypeInv, TypeOK
    <2> QED
      BY <1>1, <2>1, <2>2
  <1>3. ASSUME NEW s \in Switchers, Switch(s) \/ \E m \in Models : Lock(s, m)
        PROVE  SwitchInv'
    BY <1>3, SwitchSwitch, LockSwitch
  <1>4. ASSUME NEW g \in FlashOps,
               FlashBegin(g) \/ FlashSystemctl(g) \/ Write(g) \/ Interrupt(g)
        PROVE  SwitchInv'
    BY <1>1, <1>4, FlashStep DEF SwitchInv, Interrupt
  <1>5. ASSUME NEW s \in Switchers, Write(s) \/ Interrupt(s) PROVE SwitchInv'
    BY <1>5, WriteSwitch, ExitSwitch DEF Interrupt
  <1>6. ASSUME NEW k \in Kinds,
               \/ Loaded(k) \/ ServerFails
               \/ \E m \in Models : Exec(k, m) \/ UnitEnds(k, m)
        PROVE  SwitchInv'
    BY <1>1, <1>6, SystemStep DEF SwitchInv
  <1>7. "primary" \in Kinds /\ Commands = Switchers \cup FlashOps
    BY DEF Kinds, Commands
  <1> QED
    BY <1>2, <1>3, <1>4, <1>5, <1>6, <1>7 DEF Next

-----------------------------------------------------------------------------
(***************************************************************************)
(* Steps of a switch that stay within it.                                  *)
(***************************************************************************)
LEMMA LockLane ==
  ASSUME LaneInv, NEW s \in Switchers, NEW m \in Models, Lock(s, m)
  PROVE  LaneInv'
  <1> USE Names DEF Lock, Publish, Goto
  <1>1. /\ lock = None /\ lock' = s
        /\ pc'[s] = "file" /\ next'[s] = "begin" /\ target'[s] = m
        /\ pending'[s] = [status |-> "warming", model |-> m]
        /\ previous'[s] = IF lane["fast"].status = "ready" THEN lane["fast"].model ELSE None
        /\ \A d \in Commands \ {s} : pc'[d] = pc[d] /\ next'[d] = next[d]
        /\ UNCHANGED <<lane, routes, env, units, server>>
    BY DEF LaneInv, TypeInv, TypeOK, files, system
  <1>2. SwitchInv'
    BY LockSwitch DEF LaneInv, SwitchInv
  <1>3. UnitInv' /\ TrialInv'
    BY <1>1 DEF LaneInv, RestInv, UnitInv, TrialInv, At, NoCanary, NoPrimary, Writing, Restoring
  <1>4. ServerInv' /\ RestInv'
    BY <1>1 DEF LaneInv, ServerInv, RestInv
  <1> QED
    BY <1>2, <1>3, <1>4 DEF LaneInv, SwitchInv

\* systemctl stop and start.
LEMMA StopServers ==
  ASSUME TypeInv, ServerInv, NEW k \in Kinds, NEW m, StopUnit(k, m), UNCHANGED env
  PROVE  /\ units' = [units EXCEPT ![k] = @ \ {m}]
         /\ units' \in [Kinds -> SUBSET Models] /\ server' \in [Kinds -> Server]
         /\ ServerInv'
  <1>1. NoServer \in Server
    BY DEF NoServer, Server
  <1>2. /\ units' = [units EXCEPT ![k] = @ \ {m}]
        /\ server' = [server EXCEPT ![k] = IF server[k].unit = m THEN NoServer ELSE @]
        /\ units \in [Kinds -> SUBSET Models] /\ server \in [Kinds -> Server]
    BY DEF StopUnit, Without, TypeInv, TypeOK
  <1> QED
    BY <1>1, <1>2 DEF ServerInv

LEMMA StartServers ==
  ASSUME TypeInv, ServerInv, NEW k \in Kinds, NEW m \in Models, StartUnit(k, m),
         UNCHANGED env
  PROVE  /\ units' \in [Kinds -> SUBSET Models] /\ server' \in [Kinds -> Server]
         /\ k = "canary" => /\ units'["canary"] = units["canary"] \cup {m}
                            /\ units'["primary"] = units["primary"] \ {m}
         /\ k = "primary" => /\ units'["primary"] = units["primary"] \cup {m}
                             /\ units'["canary"] = units["canary"] \ {m}
         /\ ServerInv'
  <1>1. NoServer \in Server
    BY DEF NoServer, Server
  <1>2. /\ units \in [Kinds -> SUBSET Models] /\ server \in [Kinds -> Server]
        /\ Kinds = {"canary", "primary"}
    BY DEF TypeInv, TypeOK, Kinds
  <1>3. ASSUME NEW j \in Kinds, k # j, j = Other(k, Kinds)
        PROVE  /\ units' = [units EXCEPT ![k] = @ \cup {m}, ![j] = @ \ {m}]
               /\ server' = [server EXCEPT ![j] =
                                 IF server[j].unit = m THEN NoServer ELSE @]
    BY <1>3 DEF StartUnit, Without
  <1>4. \E j \in Kinds : k # j /\ j = Other(k, Kinds)
    BY <1>2, Names
  <1> QED
    BY <1>1, <1>2, <1>3, <1>4, Names DEF ServerInv

LEMMA BeginLane ==
  ASSUME LaneInv, NEW s \in Switchers, Begin(s)
  PROVE  LaneInv'
  <1> USE Names, ModelAssumption
  <1>1. /\ pc[s] = "begin"
        /\ pc'[s] = IF previous[s] = None THEN "canaryEnv" ELSE "stopPrevious"
        /\ UNCHANGED <<lane, env, units, server, probed, target, previous, pending, next>>
        /\ lock = s /\ lock' = s /\ \A d \in Commands \ {s} : pc'[d] = pc[d]
    BY DEF Begin, files, system, history, Goto, LaneInv, LockInv, TypeInv, TypeOK
  <1>2. SwitchInv'
    BY QuietSwitch DEF LaneInv, SwitchInv
  <1>3. RestInv'
    BY <1>1, Names DEF RestInv
  <1>4. UnitInv'
    BY <1>1
       DEF LaneInv, TypeInv, TypeOK, UnitInv, At, NoCanary, NoPrimary, Writing,
             Restoring, Kinds
  <1>5. ServerInv'
    BY <1>1 DEF LaneInv, TypeInv, TypeOK, ServerInv, UnitInv, NoPrimary, NoCanary, Kinds
  <1>6. TrialInv'
    BY <1>1 DEF LaneInv, TrialInv, Kinds, PublishInv
  <1> QED
    BY <1>2, <1>3, <1>4, <1>5, <1>6 DEF LaneInv, SwitchInv

LEMMA StopPreviousLane ==
  ASSUME LaneInv, NEW s \in Switchers, StopPrevious(s)
  PROVE  LaneInv'
  <1> USE Names, ModelAssumption
  <1>0. /\ units' = [units EXCEPT !["primary"] = @ \ {previous[s]}]
        /\ units' \in [Kinds -> SUBSET Models] /\ server' \in [Kinds -> Server]
        /\ ServerInv'
    <2>1. /\ StopUnit("primary", previous[s])
          /\ UNCHANGED env /\ TypeInv /\ ServerInv /\ {"canary", "primary"} \subseteq Kinds
      BY DEF StopPrevious, Unit, Goto, LaneInv, TypeInv, TypeOK, LockInv, UnitInv,
             PublishInv, system, Restoring, Kinds
    <2> QED
      BY <2>1, StopServers
  <1>1. /\ pc[s] = "stopPrevious" /\ pc'[s] = "canaryEnv"
        /\ UNCHANGED <<lane, env, probed, target, previous, pending, next>>
        /\ lock = s /\ lock' = s /\ \A d \in Commands \ {s} : pc'[d] = pc[d]
    BY DEF StopPrevious, Unit, files, system, history, Goto, LaneInv, LockInv,
             TypeInv, TypeOK
  <1>2. SwitchInv'
    BY QuietSwitch DEF LaneInv, SwitchInv
  <1>3. RestInv'
    BY <1>1, Names DEF RestInv
  <1>4. UnitInv'
    BY <1>1, <1>0
       DEF LaneInv, TypeInv, TypeOK, UnitInv, At, NoCanary, NoPrimary, Writing,
             Restoring, Kinds
  <1>5. ServerInv'
    BY <1>1, <1>0 DEF LaneInv, TypeInv, TypeOK, ServerInv, UnitInv, NoPrimary, NoCanary, Kinds
  <1>6. TrialInv'
    BY <1>1 DEF LaneInv, TrialInv, Kinds, PublishInv
  <1> QED
    BY <1>2, <1>3, <1>4, <1>5, <1>6 DEF LaneInv, SwitchInv

LEMMA CanaryEnvLane ==
  ASSUME LaneInv, NEW s \in Switchers, CanaryEnv(s)
  PROVE  LaneInv'
  <1> USE Names, ModelAssumption
  <1>1. /\ pc[s] = "canaryEnv" /\ pc'[s] = "startCanary"
        /\ env' = [env EXCEPT !["canary"] = target[s]] /\ target[s] \in Models
        /\ UNCHANGED <<lane, units, server, probed, target, previous, pending, next>>
        /\ UNCHANGED <<seen, routes, promoted>>
        /\ pc' = [pc EXCEPT ![s] = "startCanary"]
        /\ lock = s /\ lock' = s /\ \A d \in Commands \ {s} : pc'[d] = pc[d]
    BY DEF CanaryEnv, WriteEnv, PublishInv, files, system, history, Goto, LaneInv,
             LockInv, TypeInv, TypeOK
  <1>2. SwitchInv'
    BY QuietSwitch DEF LaneInv, SwitchInv
  <1>3. RestInv'
    BY <1>1, Names DEF RestInv
  <1>4. UnitInv'
    BY <1>1
       DEF LaneInv, TypeInv, TypeOK, UnitInv, At, NoCanary, NoPrimary, Writing,
             Restoring, Kinds
  <1>5. ServerInv'
    BY <1>1 DEF LaneInv, TypeInv, TypeOK, ServerInv, UnitInv, NoPrimary, NoCanary, Kinds
  <1>6. TrialInv'
    BY <1>1 DEF LaneInv, TrialInv, Kinds, PublishInv
  <1> QED
    BY <1>2, <1>3, <1>4, <1>5, <1>6 DEF LaneInv, SwitchInv

LEMMA PrimaryEnvLane ==
  ASSUME LaneInv, NEW s \in Switchers, PrimaryEnv(s)
  PROVE  LaneInv'
  <1> USE Names, ModelAssumption
  <1>1. /\ pc[s] = "primaryEnv" /\ pc'[s] = "startPrimary"
        /\ env' = [env EXCEPT !["primary"] = target[s]] /\ target[s] \in Models
        /\ UNCHANGED <<lane, units, server, probed, target, previous, pending, next>>
        /\ UNCHANGED <<seen, routes, promoted>>
        /\ pc' = [pc EXCEPT ![s] = "startPrimary"]
        /\ lock = s /\ lock' = s /\ \A d \in Commands \ {s} : pc'[d] = pc[d]
    BY DEF PrimaryEnv, WriteEnv, PublishInv, files, system, history, Goto,
             LaneInv, LockInv, TypeInv, TypeOK
  <1>2. SwitchInv'
    BY QuietSwitch DEF LaneInv, SwitchInv
  <1>3. RestInv'
    BY <1>1, Names DEF RestInv
  <1>4. UnitInv'
    BY <1>1
       DEF LaneInv, TypeInv, TypeOK, UnitInv, At, NoCanary, NoPrimary, Writing,
             Restoring, Kinds
  <1>5. ServerInv'
    BY <1>1 DEF LaneInv, TypeInv, TypeOK, ServerInv, UnitInv, NoPrimary, NoCanary, Kinds
  <1>6. TrialInv'
    BY <1>1 DEF LaneInv, TrialInv, Kinds, PublishInv
  <1> QED
    BY <1>2, <1>3, <1>4, <1>5, <1>6 DEF LaneInv, SwitchInv

LEMMA RestoreEnvLane ==
  ASSUME LaneInv, NEW s \in Switchers, RestoreEnv(s)
  PROVE  LaneInv'
  <1> USE Names, ModelAssumption
  <1>1. /\ pc[s] = "restoreEnv" /\ pc'[s] = "restartPrevious"
        /\ env' = [env EXCEPT !["primary"] = previous[s]] /\ previous[s] # None
        /\ UNCHANGED <<lane, units, server, probed, target, previous, pending, next>>
        /\ UNCHANGED <<seen, routes, promoted>>
        /\ pc' = [pc EXCEPT ![s] = "restartPrevious"]
        /\ lock = s /\ lock' = s /\ \A d \in Commands \ {s} : pc'[d] = pc[d]
    BY DEF RestoreEnv, WriteEnv, PublishInv, Restoring, files, system, history, Goto,
             LaneInv, LockInv, TypeInv, TypeOK
  <1>2. SwitchInv'
    BY QuietSwitch DEF LaneInv, SwitchInv
  <1>3. RestInv'
    BY <1>1, Names DEF RestInv
  <1>4. UnitInv'
    BY <1>1
       DEF LaneInv, TypeInv, TypeOK, UnitInv, At, NoCanary, NoPrimary, Writing,
             Restoring, Kinds
  <1>5. ServerInv'
    BY <1>1 DEF LaneInv, TypeInv, TypeOK, ServerInv, UnitInv, NoPrimary, NoCanary, Kinds
  <1>6. TrialInv'
    BY <1>1 DEF LaneInv, TrialInv, Kinds, PublishInv
  <1> QED
    BY <1>2, <1>3, <1>4, <1>5, <1>6 DEF LaneInv, SwitchInv

LEMMA StartCanaryLane ==
  ASSUME LaneInv, NEW s \in Switchers, StartCanary(s)
  PROVE  LaneInv'
  <1> USE Names, ModelAssumption
  <1>0. /\ units' \in [Kinds -> SUBSET Models] /\ server' \in [Kinds -> Server]
        /\ units'["canary"] = units["canary"] \cup {target[s]}
        /\ units'["primary"] = units["primary"] \ {target[s]}
        /\ ServerInv'
    <2>1. /\ StartUnit("canary", target[s]) /\ target[s] \in Models
          /\ UNCHANGED env /\ TypeInv /\ ServerInv /\ {"canary", "primary"} \subseteq Kinds
      BY DEF StartCanary, Unit, Goto, LaneInv, TypeInv, TypeOK, LockInv, UnitInv,
             PublishInv, system, Restoring, Kinds
    <2> QED
      BY <2>1, StartServers
  <1>1. /\ pc[s] = "startCanary" /\ pc'[s] = "probeCanary"
        /\ UNCHANGED <<lane, env, probed, target, previous, pending, next>>
        /\ lock = s /\ lock' = s /\ \A d \in Commands \ {s} : pc'[d] = pc[d]
    BY DEF StartCanary, Unit, files, system, history, Goto, LaneInv, LockInv,
             TypeInv, TypeOK
  <1>2. SwitchInv'
    BY QuietSwitch DEF LaneInv, SwitchInv
  <1>3. RestInv'
    BY <1>1, Names DEF RestInv
  <1>4. UnitInv'
    BY <1>1, <1>0
       DEF LaneInv, TypeInv, TypeOK, UnitInv, At, NoCanary, NoPrimary, Writing,
             Restoring, Kinds
  <1>5. ServerInv'
    BY <1>1, <1>0 DEF LaneInv, TypeInv, TypeOK, ServerInv, UnitInv, NoPrimary, NoCanary, Kinds
  <1>6. TrialInv'
    BY <1>1 DEF LaneInv, TrialInv, Kinds, PublishInv
  <1> QED
    BY <1>2, <1>3, <1>4, <1>5, <1>6 DEF LaneInv, SwitchInv

LEMMA StopCanaryLane ==
  ASSUME LaneInv, NEW s \in Switchers, StopCanary(s)
  PROVE  LaneInv'
  <1> USE Names, ModelAssumption
  <1>0. /\ units' = [units EXCEPT !["canary"] = @ \ {target[s]}]
        /\ units' \in [Kinds -> SUBSET Models] /\ server' \in [Kinds -> Server]
        /\ ServerInv'
    <2>1. /\ StopUnit("canary", target[s])
          /\ UNCHANGED env /\ TypeInv /\ ServerInv /\ {"canary", "primary"} \subseteq Kinds
      BY DEF StopCanary, Unit, Goto, LaneInv, TypeInv, TypeOK, LockInv, UnitInv,
             PublishInv, system, Restoring, Kinds
    <2> QED
      BY <2>1, StopServers
  <1>1. /\ pc[s] = "stopCanary" /\ pc'[s] = "primaryEnv"
        /\ UNCHANGED <<lane, env, probed, target, previous, pending, next>>
        /\ lock = s /\ lock' = s /\ \A d \in Commands \ {s} : pc'[d] = pc[d]
    BY DEF StopCanary, Unit, files, system, history, Goto, LaneInv, LockInv,
             TypeInv, TypeOK
  <1>2. SwitchInv'
    BY QuietSwitch DEF LaneInv, SwitchInv
  <1>3. RestInv'
    BY <1>1, Names DEF RestInv
  <1>4. UnitInv'
    BY <1>1, <1>0
       DEF LaneInv, TypeInv, TypeOK, UnitInv, At, NoCanary, NoPrimary, Writing,
             Restoring, Kinds
  <1>5. ServerInv'
    BY <1>1, <1>0 DEF LaneInv, TypeInv, TypeOK, ServerInv, UnitInv, NoPrimary, NoCanary, Kinds
  <1>6. TrialInv'
    BY <1>1 DEF LaneInv, TrialInv, Kinds, PublishInv
  <1> QED
    BY <1>2, <1>3, <1>4, <1>5, <1>6 DEF LaneInv, SwitchInv

LEMMA StartPrimaryLane ==
  ASSUME LaneInv, NEW s \in Switchers, StartPrimary(s)
  PROVE  LaneInv'
  <1> USE Names, ModelAssumption
  <1>0. /\ units' \in [Kinds -> SUBSET Models] /\ server' \in [Kinds -> Server]
        /\ units'["primary"] = units["primary"] \cup {target[s]}
        /\ units'["canary"] = units["canary"] \ {target[s]}
        /\ ServerInv'
    <2>1. /\ StartUnit("primary", target[s]) /\ target[s] \in Models
          /\ UNCHANGED env /\ TypeInv /\ ServerInv /\ {"canary", "primary"} \subseteq Kinds
      BY DEF StartPrimary, Unit, Goto, LaneInv, TypeInv, TypeOK, LockInv, UnitInv,
             PublishInv, system, Restoring, Kinds
    <2> QED
      BY <2>1, StartServers
  <1>1. /\ pc[s] = "startPrimary" /\ pc'[s] = "probePrimary"
        /\ UNCHANGED <<lane, env, probed, target, previous, pending, next>>
        /\ lock = s /\ lock' = s /\ \A d \in Commands \ {s} : pc'[d] = pc[d]
    BY DEF StartPrimary, Unit, files, system, history, Goto, LaneInv, LockInv,
             TypeInv, TypeOK
  <1>2. SwitchInv'
    BY QuietSwitch DEF LaneInv, SwitchInv
  <1>3. RestInv'
    BY <1>1, Names DEF RestInv
  <1>4. UnitInv'
    BY <1>1, <1>0
       DEF LaneInv, TypeInv, TypeOK, UnitInv, At, NoCanary, NoPrimary, Writing,
             Restoring, Kinds
  <1>5. ServerInv'
    BY <1>1, <1>0 DEF LaneInv, TypeInv, TypeOK, ServerInv, UnitInv, NoPrimary, NoCanary, Kinds
  <1>6. TrialInv'
    BY <1>1 DEF LaneInv, TrialInv, Kinds, PublishInv
  <1> QED
    BY <1>2, <1>3, <1>4, <1>5, <1>6 DEF LaneInv, SwitchInv

LEMMA RestartPreviousLane ==
  ASSUME LaneInv, NEW s \in Switchers, RestartPrevious(s)
  PROVE  LaneInv'
  <1> USE Names, ModelAssumption
  <1>0. /\ units' \in [Kinds -> SUBSET Models] /\ server' \in [Kinds -> Server]
        /\ units'["primary"] = units["primary"] \cup {previous[s]}
        /\ units'["canary"] = units["canary"] \ {previous[s]}
        /\ ServerInv'
    <2>1. /\ StartUnit("primary", previous[s]) /\ UNCHANGED env
          /\ pc[s] = "restartPrevious"
      BY DEF RestartPrevious, Unit, Goto
    <2>2. lock = s
      BY <2>1 DEF LaneInv, LockInv
    <2>3. previous[s] # None
      BY <2>1, <2>2 DEF LaneInv, PublishInv, Restoring
    <2>4. /\ previous[s] \in Models /\ TypeInv /\ ServerInv
          /\ {"canary", "primary"} \subseteq Kinds
      BY <2>3 DEF LaneInv, TypeInv, TypeOK, Kinds
    <2> QED
      BY <2>1, <2>4, StartServers
  <1>1. /\ pc[s] = "restartPrevious" /\ pc'[s] = "probePrevious"
        /\ UNCHANGED <<lane, env, probed, target, previous, pending, next>>
        /\ lock = s /\ lock' = s /\ \A d \in Commands \ {s} : pc'[d] = pc[d]
    BY DEF RestartPrevious, Unit, files, system, history, Goto, LaneInv, LockInv,
             TypeInv, TypeOK
  <1>2. SwitchInv'
    BY QuietSwitch DEF LaneInv, SwitchInv
  <1>3. RestInv'
    BY <1>1, Names DEF RestInv
  <1>4. UnitInv'
    BY <1>1, <1>0
       DEF LaneInv, TypeInv, TypeOK, UnitInv, At, NoCanary, NoPrimary, Writing,
             Restoring, Kinds
  <1>5. ServerInv'
    BY <1>1, <1>0 DEF LaneInv, TypeInv, TypeOK, ServerInv, UnitInv, NoPrimary, NoCanary, Kinds
  <1>6. TrialInv'
    BY <1>1 DEF LaneInv, TrialInv, Kinds, PublishInv
  <1> QED
    BY <1>2, <1>3, <1>4, <1>5, <1>6 DEF LaneInv, SwitchInv

LEMMA ProbeCanaryLane ==
  ASSUME LaneInv, NEW s \in Switchers, ProbeCanary(s)
  PROVE  LaneInv'
  <1> USE Names, ModelAssumption
  <1>1. /\ pc[s] = "probeCanary" /\ pc' = [pc EXCEPT ![s] = "stopCanary"] /\ pc'[s] = "stopCanary"
        /\ server["canary"].ready
        /\ probed' = IF server["canary"].weights = target[s]
                     THEN [probed EXCEPT ![s] = @ \cup {"canary"}] ELSE probed
        /\ UNCHANGED <<lane, env, units, server, target, previous, pending, next>>
        /\ UNCHANGED <<seen, routes, promoted>>
        /\ lock = s /\ lock' = s /\ \A d \in Commands \ {s} : pc'[d] = pc[d]
    BY DEF ProbeCanary, Probe, files, system, history, Goto, LaneInv, LockInv, TypeInv, TypeOK
  <1>2. SwitchInv'
    BY QuietSwitch DEF LaneInv, SwitchInv
  <1>3. RestInv'
    BY <1>1, Names DEF RestInv
  <1>4. UnitInv'
    BY <1>1 DEF LaneInv, TypeInv, TypeOK, LockInv, UnitInv, At, NoCanary, NoPrimary, Writing,
                Restoring, Kinds
  <1>5. ServerInv'
    BY <1>1 DEF LaneInv, TypeInv, TypeOK, ServerInv, UnitInv
  <1>6. TrialInv'
    <2>1. server["canary"].weights = target[s]
      BY <1>1 DEF LaneInv, ServerInv, NoServer, UnitInv, At, Kinds
    <2>2. probed' = [probed EXCEPT ![s] = @ \cup {"canary"}]
      BY <1>1, <2>1
    <2>3. probed'[s] = probed[s] \cup {"canary"} /\ probed[s] \subseteq Kinds
      BY <2>2 DEF LaneInv, TypeInv, TypeOK
    <2> QED
      BY <1>1, <2>3 DEF LaneInv, TrialInv, Kinds
  <1> QED
    BY <1>2, <1>3, <1>4, <1>5, <1>6 DEF LaneInv, SwitchInv

LEMMA ProbePrimaryLane ==
  ASSUME LaneInv, NEW s \in Switchers, ProbePrimary(s)
  PROVE  LaneInv'
  <1> USE Names, ModelAssumption
  <1>1. /\ pc[s] = "probePrimary" /\ pc' = [pc EXCEPT ![s] = "promote"] /\ pc'[s] = "promote"
        /\ server["primary"].ready
        /\ probed' = IF server["primary"].weights = target[s]
                     THEN [probed EXCEPT ![s] = @ \cup {"primary"}] ELSE probed
        /\ UNCHANGED <<lane, env, units, server, target, previous, pending, next>>
        /\ UNCHANGED <<seen, routes, promoted>>
        /\ lock = s /\ lock' = s /\ \A d \in Commands \ {s} : pc'[d] = pc[d]
    BY DEF ProbePrimary, Probe, files, system, history, Goto, LaneInv, LockInv, TypeInv, TypeOK
  <1>2. SwitchInv'
    BY QuietSwitch DEF LaneInv, SwitchInv
  <1>3. RestInv'
    BY <1>1, Names DEF RestInv
  <1>4. UnitInv'
    BY <1>1 DEF LaneInv, TypeInv, TypeOK, LockInv, UnitInv, At, NoCanary, NoPrimary, Writing,
                Restoring, Kinds
  <1>5. ServerInv'
    BY <1>1 DEF LaneInv, TypeInv, TypeOK, ServerInv, UnitInv
  <1>6. TrialInv'
    <2>1. server["primary"].weights = target[s]
      BY <1>1 DEF LaneInv, ServerInv, NoServer, UnitInv, At, Kinds
    <2>2. probed' = [probed EXCEPT ![s] = @ \cup {"primary"}]
      BY <1>1, <2>1
    <2>3. probed'[s] = probed[s] \cup {"primary"} /\ probed[s] \subseteq Kinds
      BY <2>2 DEF LaneInv, TypeInv, TypeOK
    <2> QED
      BY <1>1, <2>3 DEF LaneInv, TrialInv, Kinds
  <1> QED
    BY <1>2, <1>3, <1>4, <1>5, <1>6 DEF LaneInv, SwitchInv

LEMMA PromoteLane ==
  ASSUME LaneInv, NEW s \in Switchers, Promote(s)
  PROVE  LaneInv'
  <1> USE Names, ModelAssumption
  <1>1. /\ pc[s] = "promote" /\ pc' = [pc EXCEPT ![s] = "file"] /\ pc'[s] = "file"
        /\ pending' = [pending EXCEPT ![s] = Ready(target[s])] /\ pending'[s] = Ready(target[s])
        /\ next' = [next EXCEPT ![s] = "commit"] /\ next'[s] = "commit"
        /\ promoted' = promoted \cup {target[s]} /\ target[s] \in Models
        /\ UNCHANGED <<lane, env, units, server, target, previous, probed>>
        /\ UNCHANGED <<seen, routes>>
        /\ lock = s /\ lock' = s /\ \A d \in Commands \ {s} : pc'[d] = pc[d]
    BY DEF Promote, Publish, PublishInv, files, system, history, Goto, LaneInv, LockInv,
           TypeInv, TypeOK
  <1>2. SwitchInv'
    BY PublishSwitch DEF LaneInv, SwitchInv
  <1>3. RestInv'
    BY <1>1, Names DEF RestInv
  <1>4. UnitInv'
    BY <1>1 DEF LaneInv, TypeInv, TypeOK, LockInv, UnitInv, At, NoCanary, NoPrimary, Writing,
                Restoring, Kinds
  <1>5. ServerInv'
    BY <1>1 DEF LaneInv, TypeInv, TypeOK, ServerInv, UnitInv
  <1>6. TrialInv'
    BY <1>1 DEF LaneInv, TrialInv
  <1> QED
    BY <1>2, <1>3, <1>4, <1>5, <1>6 DEF LaneInv, SwitchInv

LEMMA TryFailsLane ==
  ASSUME LaneInv, NEW s \in Switchers, TryFails(s)
  PROVE  LaneInv'
  <1> USE Names, ModelAssumption
  <1>1. /\ pc[s] \in Trying \/ (pc[s] \in Writing /\ next[s] = "commit")
        /\ pc' = [pc EXCEPT ![s] = "undoCanary"] /\ pc'[s] = "undoCanary"
        /\ UNCHANGED <<lane, env, units, server, probed, target, previous, pending, next>>
        /\ UNCHANGED <<seen, routes, promoted>>
        /\ lock = s /\ lock' = s /\ \A d \in Commands \ {s} : pc'[d] = pc[d]
    BY DEF TryFails, Trying, Writing, files, system, history, Goto, LaneInv, LockInv,
           TypeInv, TypeOK
  <1>2. SwitchInv'
    BY QuietSwitch DEF LaneInv, SwitchInv
  <1>3. RestInv'
    BY <1>1, Names DEF RestInv
  <1>4. UnitInv'
    BY <1>1 DEF LaneInv, TypeInv, TypeOK, LockInv, UnitInv, At, NoCanary, NoPrimary, Writing,
                Restoring, Kinds, Trying
  <1>5. ServerInv'
    BY <1>1 DEF LaneInv, TypeInv, TypeOK, ServerInv, UnitInv
  <1>6. TrialInv'
    BY <1>1 DEF LaneInv, TrialInv
  <1> QED
    BY <1>2, <1>3, <1>4, <1>5, <1>6 DEF LaneInv, SwitchInv

LEMMA ProbePreviousLane ==
  ASSUME LaneInv, NEW s \in Switchers, ProbePrevious(s)
  PROVE  LaneInv'
  <1> USE Names, ModelAssumption
  <1>1. /\ pc[s] = "probePrevious" /\ pc' = [pc EXCEPT ![s] = "file"] /\ pc'[s] = "file"
        /\ pending' = [pending EXCEPT ![s] = Ready(previous[s])]
        /\ pending'[s] = Ready(previous[s])
        /\ next' = [next EXCEPT ![s] = "report"] /\ next'[s] = "report"
        /\ previous[s] \in Models
        /\ UNCHANGED <<lane, env, units, server, target, previous, probed>>
        /\ UNCHANGED <<seen, routes, promoted>>
        /\ lock = s /\ lock' = s /\ \A d \in Commands \ {s} : pc'[d] = pc[d]
    BY DEF ProbePrevious, Publish, PublishInv, Restoring, files, system, history, Goto,
           LaneInv, LockInv, TypeInv, TypeOK
  <1>2. SwitchInv'
    BY PublishSwitch DEF LaneInv, SwitchInv
  <1>3. RestInv'
    BY <1>1, Names DEF RestInv
  <1>4. UnitInv'
    BY <1>1 DEF LaneInv, TypeInv, TypeOK, LockInv, UnitInv, At, NoCanary, NoPrimary, Writing,
                Restoring, Kinds
  <1>5. ServerInv'
    BY <1>1 DEF LaneInv, TypeInv, TypeOK, ServerInv, UnitInv
  <1>6. TrialInv'
    BY <1>1 DEF LaneInv, TrialInv
  <1> QED
    BY <1>2, <1>3, <1>4, <1>5, <1>6 DEF LaneInv, SwitchInv

\* The stops of the rollback.
LEMMA UndoCanaryLane ==
  ASSUME LaneInv, NoFaults, NEW s \in Switchers, UndoCanary(s)
  PROVE  LaneInv'
  <1> USE Names, ModelAssumption
  <1>0. /\ units' = [units EXCEPT !["canary"] = @ \ {target[s]}]
        /\ units' \in [Kinds -> SUBSET Models] /\ server' \in [Kinds -> Server]
        /\ ServerInv'
    <2>1. /\ StopUnit("canary", target[s])
          /\ UNCHANGED env /\ TypeInv /\ ServerInv /\ "canary" \in Kinds
      BY DEF UndoCanary, Unit, NoFaults, LaneInv, Kinds
    <2> QED
      BY <2>1, StopServers
  <1>1. /\ pc[s] = "undoCanary" /\ pc' = [pc EXCEPT ![s] = "undoPrimary"]
        /\ pc'[s] = "undoPrimary"
        /\ UNCHANGED <<lane, env, probed, target, previous, pending, next>>
        /\ UNCHANGED <<seen, routes, promoted>>
        /\ lock = s /\ lock' = s /\ \A d \in Commands \ {s} : pc'[d] = pc[d]
    BY DEF UndoCanary, Unit, files, history, Goto, LaneInv, LockInv, TypeInv, TypeOK
  <1>2. SwitchInv'
    BY QuietSwitch DEF LaneInv, SwitchInv
  <1>3. RestInv'
    BY <1>1, Names DEF RestInv
  <1>4. UnitInv'
    BY <1>0, <1>1 DEF LaneInv, TypeInv, TypeOK, UnitInv, At, NoCanary, NoPrimary, Writing,
                      Restoring, Kinds
  <1>5. TrialInv'
    BY <1>1 DEF LaneInv, TrialInv
  <1> QED
    BY <1>0, <1>2, <1>3, <1>4, <1>5 DEF LaneInv, SwitchInv

LEMMA UndoPrimaryLane ==
  ASSUME LaneInv, NoFaults, NEW s \in Switchers, UndoPrimary(s)
  PROVE  LaneInv'
  <1> USE Names, ModelAssumption
  <1>0. /\ units' = [units EXCEPT !["primary"] = @ \ {target[s]}]
        /\ units' \in [Kinds -> SUBSET Models] /\ server' \in [Kinds -> Server]
        /\ ServerInv'
    <2>1. /\ StopUnit("primary", target[s])
          /\ UNCHANGED env /\ TypeInv /\ ServerInv /\ "primary" \in Kinds
      BY DEF UndoPrimary, NoFaults, LaneInv, Kinds
    <2> QED
      BY <2>1, StopServers
  <1>1. /\ pc[s] = "undoPrimary" /\ pc'[s] \in {"restoreEnv", "file"}
        /\ pc' \in [Commands -> Step]
        /\ UNCHANGED <<lane, env, probed, target, previous>>
        /\ UNCHANGED <<seen, routes, promoted>>
        /\ lock = s /\ lock' = s
        /\ \A d \in Commands \ {s} : pc'[d] = pc[d] /\ next'[d] = next[d]
    BY DEF UndoPrimary, Publish, files, history, Goto, LaneInv, LockInv, TypeInv, TypeOK,
           Step, Writing, Restoring
  <1>2. pc'[s] = "restoreEnv" => previous[s] # None
    BY DEF UndoPrimary, Publish, Goto, LaneInv, TypeInv, TypeOK
  <1>3. pc'[s] = "file" => /\ previous[s] = None /\ next'[s] = "report"
                          /\ pending'[s] = RolledBack(s)
    BY DEF UndoPrimary, Publish, Goto, LaneInv, TypeInv, TypeOK, RolledBack
  <1>4. /\ pending' \in [Commands -> LaneState]
        /\ next' \in [Commands -> {"idle", "begin", "commit", "report"}]
    <2>1. CASE previous[s] # None
      BY <2>1 DEF UndoPrimary, LaneInv, TypeInv, TypeOK
    <2>2. CASE previous[s] = None
      <3>1. /\ pending' = [pending EXCEPT ![s] = [status |-> "failed", model |-> None]]
            /\ next' = [next EXCEPT ![s] = "report"]
        BY <2>2 DEF UndoPrimary, Publish
      <3>2. [status |-> "failed", model |-> None] \in LaneState
        BY DEF LaneState
      <3> QED
        BY <3>1, <3>2 DEF LaneInv, TypeInv, TypeOK
    <2> QED
      BY <2>1, <2>2
  <1>5. SwitchInv'
    BY PublishSwitch DEF LaneInv, SwitchInv
  <1>6. RestInv'
    BY <1>1, Names DEF RestInv
  <1>7. UnitInv'
    <2>1. units'["primary"] \subseteq {previous[s]}
          /\ (units'["primary"] # {} => env["primary"] = previous[s])
      BY <1>0, <1>1 DEF LaneInv, TypeInv, TypeOK, UnitInv, Kinds
    <2>2. units'["canary"] = {}
      BY <1>0, <1>1 DEF LaneInv, TypeInv, TypeOK, UnitInv, NoCanary, Kinds
    <2> QED
      BY <1>1, <1>2, <1>3, <2>1, <2>2
         DEF UnitInv, At, NoCanary, NoPrimary, Writing, Restoring
  <1>8. TrialInv'
    BY <1>1 DEF LaneInv, TrialInv
  <1> QED
    BY <1>0, <1>5, <1>6, <1>7, <1>8 DEF LaneInv, SwitchInv

-----------------------------------------------------------------------------
(***************************************************************************)
(* The publication of a lane, and the end of a command.                    *)
(***************************************************************************)
LEMMA WriteLane ==
  ASSUME LaneInv, NEW s \in Switchers, Write(s)
  PROVE  LaneInv'
  <1> USE Names
  <1>1. /\ SwitchInv' /\ lock = s /\ pc[s] \in Writing
        /\ next[s] \in {"begin", "commit", "report"}
        /\ pc'[s] \in Writing \/ pc'[s] = next[s]
        /\ \A d \in Commands \ {s} : pc'[d] = pc[d]
        /\ UNCHANGED <<lock, env, units, server, target, previous, probed, next>>
    BY WriteSwitch DEF LaneInv, SwitchInv
  <1>2. RestInv' /\ ServerInv'
    BY <1>1 DEF LaneInv, RestInv, ServerInv
  <1>3. UnitInv'
    BY <1>1 DEF LaneInv, UnitInv, At, NoCanary, NoPrimary, Writing, Restoring
  <1>4. TrialInv'
    BY <1>1 DEF LaneInv, TrialInv, Writing
  <1> QED
    BY <1>1, <1>2, <1>3, <1>4 DEF LaneInv, SwitchInv

\* A switch ends where nothing is left to publish, start or stop.
LEMMA ExitLane ==
  ASSUME LaneInv, NEW s \in Switchers, pc[s] \in {"commit", "report"}, Exit(s),
         UNCHANGED <<files, system, promoted>>
  PROVE  LaneInv'
  <1> USE Names, ModelAssumption
  <1>1. /\ lock = s /\ lock' = None /\ UNCHANGED <<lane, routes, env, units, server, promoted>>
        /\ \A d \in Switchers : pc'[d] = "idle"
    BY DEF Exit, LaneInv, LockInv, TypeInv, TypeOK, files, system
  <1>2. SwitchInv'
    BY ExitSwitch DEF LaneInv, SwitchInv
  <1>3. UnitInv' /\ TrialInv' /\ ServerInv'
    BY <1>1 DEF LaneInv, UnitInv, TrialInv, ServerInv
  <1>4. RestInv'
    <2>1. units["canary"] = {}
      BY <1>1 DEF LaneInv, UnitInv, NoCanary
    <2>2. CASE pc[s] = "commit"
      <3>1. /\ lane["fast"] = Ready(target[s])
            /\ units["primary"] \subseteq {target[s]} /\ env["primary"] = target[s]
        BY <1>1, <2>2 DEF LaneInv, PublishInv, UnitInv, At
      <3> QED
        BY <1>1, <2>1, <3>1 DEF RestInv, Ready
    <2>3. CASE pc[s] = "report"
      <3>1. /\ lane["fast"] = RolledBack(s) /\ units["primary"] \subseteq {previous[s]}
            /\ previous[s] # None => env["primary"] = previous[s]
            /\ units["primary"] \subseteq Models
        BY <1>1, <2>3 DEF LaneInv, PublishInv, UnitInv, At, TypeInv, TypeOK, Kinds
      <3> QED
        BY <1>1, <2>1, <3>1 DEF RestInv, RolledBack, Ready
    <2> QED
      BY <2>2, <2>3
  <1> QED
    BY <1>2, <1>3, <1>4 DEF LaneInv, SwitchInv

LEMMA SwitchLane ==
  ASSUME LaneInv, NoFaults, NEW s \in Switchers, Switch(s)
  PROVE  LaneInv'
  <1>1. ~EndsEarly(s)
    BY DEF EndsEarly, NoFaults
  <1>2. ASSUME Commit(s) \/ Report(s) PROVE LaneInv'
    BY <1>2, ExitLane DEF Commit, Report
  <1> QED
    BY <1>1, <1>2, BeginLane, StopPreviousLane, CanaryEnvLane, StartCanaryLane,
       ProbeCanaryLane, StopCanaryLane, PrimaryEnvLane, StartPrimaryLane,
       ProbePrimaryLane, PromoteLane, TryFailsLane, UndoCanaryLane, UndoPrimaryLane,
       RestoreEnvLane, RestartPreviousLane, ProbePreviousLane
       DEF Switch

-----------------------------------------------------------------------------
(***************************************************************************)
(* Steps of the Flash commands and of systemd: the switches see at most    *)
(* that a unit has ended.                                                  *)
(***************************************************************************)
LEMMA Frame ==
  ASSUME LaneInv, TypeInv', ServerInv', UNCHANGED <<lock, env>>,
         lane'["fast"] = lane["fast"],
         \A s \in Switchers : /\ pc'[s] = pc[s] /\ next'[s] = next[s]
                              /\ pending'[s] = pending[s] /\ probed'[s] = probed[s]
                              /\ target'[s] = target[s] /\ previous'[s] = previous[s],
         \A k \in Kinds : units'[k] \subseteq units[k]
  PROVE  LaneInv'
  <1>1. LockInv' /\ PublishInv' /\ TrialInv'
    BY DEF LaneInv, LockInv, PublishInv, RolledBack, TrialInv
  <1>2. units'["canary"] \subseteq units["canary"] /\ units'["primary"] \subseteq units["primary"]
    BY DEF Kinds
  <1>3. UnitInv'
    BY <1>2 DEF LaneInv, UnitInv, At, NoCanary
  <1>4. RestInv'
    BY <1>2 DEF LaneInv, RestInv
  <1> QED
    BY <1>1, <1>3, <1>4 DEF LaneInv

LEMMA FlashLane ==
  ASSUME LaneInv, NEW g \in FlashOps, FlashBegin(g) \/ FlashSystemctl(g) \/ Write(g)
  PROVE  LaneInv'
  <1>1. /\ TypeInv' /\ UNCHANGED <<lock, env, units, server, promoted>>
        /\ lane'["fast"] = lane["fast"]
        /\ \A s \in Switchers : /\ pc'[s] = pc[s] /\ next'[s] = next[s]
                                 /\ pending'[s] = pending[s] /\ probed'[s] = probed[s]
                                 /\ target'[s] = target[s] /\ previous'[s] = previous[s]
    BY FlashStep DEF LaneInv
  <1>2. ServerInv'
    BY <1>1 DEF LaneInv, ServerInv
  <1> QED
    BY <1>1, <1>2, Frame

LEMMA SystemLane ==
  ASSUME LaneInv, NEW k \in Kinds,
         \/ Loaded(k) \/ ServerFails
         \/ \E m \in Models : Exec(k, m) \/ UnitEnds(k, m)
  PROVE  LaneInv'
  <1>1. /\ TypeInv' /\ \A j \in Kinds : units'[j] \subseteq units[j]
        /\ UNCHANGED <<lock, env, lane, routes, pc, next, pending, seen>>
        /\ UNCHANGED <<target, previous, promoted, probed>>
    BY SystemStep DEF LaneInv
  <1>2. /\ units \in [Kinds -> SUBSET Models] /\ server \in [Kinds -> Server]
        /\ TypeInv /\ ServerInv
    BY DEF LaneInv, TypeInv, TypeOK
  <1>3. ServerInv'
    <2>1. ASSUME NEW m \in Models, UnitEnds(k, m) PROVE ServerInv'
      BY <1>1, <1>2, <2>1, StopServers DEF UnitEnds
    <2>2. CASE Loaded(k) \/ ServerFails \/ \E m \in Models : Exec(k, m)
      BY <1>1, <1>2, <2>2 DEF Loaded, ServerFails, Exec, ServerInv, Server
    <2> QED
      BY <2>1, <2>2
  <1> QED
    BY <1>1, <1>3, Frame

-----------------------------------------------------------------------------
(***************************************************************************)
(* The invariant is inductive.                                             *)
(***************************************************************************)
LEMMA LaneInvNext ==
  ASSUME LaneInv, NoFaults, [Next]_vars
  PROVE  LaneInv'
  <1>1. CASE UNCHANGED vars
    <2>1. /\ UNCHANGED <<lock, pc, next, pending, seen, target, previous, lane, routes>>
          /\ UNCHANGED <<env, units, server, promoted, probed>>
      BY <1>1 DEF vars, locals, files, system, history
    <2>2. TypeInv' /\ ServerInv'
      BY <2>1 DEF LaneInv, TypeInv, TypeOK, ServerInv
    <2> QED
      BY <2>1, <2>2, Frame
  <1>2. ASSUME NEW s \in Switchers, Switch(s) \/ \E m \in Models : Lock(s, m)
        PROVE  LaneInv'
    BY <1>2, SwitchLane, LockLane
  <1>3. ASSUME NEW g \in FlashOps, FlashBegin(g) \/ FlashSystemctl(g)
        PROVE  LaneInv'
    BY <1>3, FlashLane
  <1>4. ASSUME NEW o \in Commands, Write(o) \/ Interrupt(o)
        PROVE  LaneInv'
    <2>1. ~Interrupt(o)
      BY DEF Interrupt, NoFaults
    <2> QED
      BY <1>4, <2>1, WriteLane, FlashLane DEF Commands
  <1>5. ASSUME NEW k \in Kinds,
               Loaded(k) \/ \E m \in Models : Exec(k, m) \/ UnitEnds(k, m)
        PROVE  LaneInv'
    BY <1>5, SystemLane
  <1>6. CASE ServerFails
    BY <1>6, SystemLane DEF Kinds
  <1> QED
    BY <1>1, <1>2, <1>3, <1>4, <1>5, <1>6 DEF Next

\* The arguments of a command are chosen once: a step that releases the lock
\* has published what the switch was about to publish.
LEMMA SettlesNext ==
  ASSUME SwitchInv, NoEarlyEnd, [Next]_vars, NEW s \in Switchers, lock = s, lock' = None
  PROVE  lane'["fast"] \in
           {Ready(target[s])} \cup
           (IF previous[s] = None THEN {[status |-> "failed", model |-> None]}
                                  ELSE {Ready(previous[s])})
  <1>1. pc[s] # "idle" /\ s # None /\ s \in Commands /\ s \notin FlashOps
    BY Names DEF SwitchInv, LockInv
  <1>2. ASSUME NEW o \in Commands, Exit(o) PROVE o = s
    BY <1>1, <1>2 DEF Exit
  <1>3. /\ pc[s] \in {"commit", "report"} /\ lane' = lane
    <2>1. ~\E o \in Commands : WriteRoutes(o)
      <3>1. ~WriteRoutes(s)
        <4>1. ASSUME WriteRoutes(s) PROVE next[s] \in {"begin", "commit", "report"}
          BY <4>1 DEF WriteRoutes, SwitchInv, PublishInv, Writing
        <4> QED
          BY <1>1, <4>1 DEF WriteRoutes
      <3>2. ASSUME NEW o \in Commands, o # s PROVE ~WriteRoutes(o)
        BY <1>1, <1>2, <3>2 DEF WriteRoutes
      <3> QED
        BY <3>1, <3>2
    <2>2. \E o \in Switchers : Commit(o) \/ Report(o)
      BY <1>1, <2>1
         DEF Next, Switch, Lock, Begin, StopPrevious, CanaryEnv, PrimaryEnv, WriteEnv, Unit,
             StartCanary, ProbeCanary, Probe, StopCanary, StartPrimary, ProbePrimary, Promote,
             TryFails, EndsEarly, UndoCanary, UndoPrimary, RestoreEnv, RestartPrevious,
             ProbePrevious, FlashBegin, FlashSystemctl, Write, WriteFile, ReadOther, Interrupt,
             NoEarlyEnd, Loaded, Exec, UnitEnds, ServerFails, vars
    <2>3. Commit(s) \/ Report(s)
      BY <1>2, <2>2 DEF Commit, Report, Commands
    <2> QED
      BY <2>3 DEF Commit, Report, files
  <1> QED
    BY <1>3 DEF SwitchInv, PublishInv, RolledBack

-----------------------------------------------------------------------------
(***************************************************************************)
(* Theorems.                                                               *)
(***************************************************************************)
\* The invariant holds in every state of a run without faults.
THEOREM LaneInvariant == ASSUME NoFaults PROVE Spec => []LaneInv
  <1>1. Init => LaneInv
    BY LaneInvInit
  <1>2. LaneInv /\ [Next]_vars => LaneInv'
    BY LaneInvNext
  <1> QED
    BY <1>1, <1>2, PTL DEF Spec

\* What the switches publish, whatever fails.
LEMMA SwitchInvariant == Spec => []SwitchInv
  <1>1. Init => SwitchInv
    BY LaneInvInit DEF LaneInv, SwitchInv
  <1>2. SwitchInv /\ [Next]_vars => SwitchInv'
    BY SwitchInvNext
  <1> QED
    BY <1>1, <1>2, PTL DEF Spec

\* Every variable of the lanes keeps its type, whatever fails (pds4/lane.py).
THEOREM LaneTypes == Spec => []TypeOK
  <1>1. SwitchInv => TypeOK
    BY DEF SwitchInv, TypeInv
  <1> QED
    BY <1>1, SwitchInvariant, PTL

\* As long as no command is killed and neither a write before the try block, nor a
\* stop nor any other step of a rollback fails (NoFaults), switch_fast and its
\* rollback never leave two primaries active, whatever fails in the try block and
\* whenever servers end.  With any of those faults they may.
THEOREM OnePrimaryAtATime == ASSUME NoFaults PROVE Spec => []OnePrimary
  <1>1. LaneInv => OnePrimary
    <2> SUFFICES ASSUME LaneInv PROVE OnePrimary
      OBVIOUS
    <2>1. ASSUME lock = None PROVE OnePrimary
      BY <2>1 DEF LaneInv, RestInv, OnePrimary
    <2>2. ASSUME NEW s \in Switchers, lock = s PROVE OnePrimary
      <3>1. /\ pc[s] \in Step /\ pc[s] # "idle" /\ pc[s] # "systemctl"
            /\ pc[s] \in Writing => next[s] \in {"begin", "commit", "report"}
        BY <2>2, Names DEF LaneInv, TypeInv, TypeOK, LockInv, PublishInv
      <3>2. \E m : units["primary"] \subseteq {m}
        BY <2>2, <3>1 DEF LaneInv, UnitInv, At, NoPrimary, Step, Trying, Restoring, Writing
      <3> QED
        BY <3>2 DEF OnePrimary
    <2> QED
      BY <2>1, <2>2 DEF LaneInv, TypeInv, TypeOK
  <1> QED
    BY <1>1, LaneInvariant, PTL

\* As long as no command is killed and neither a write before the try block, nor a
\* stop nor any other step of a rollback fails (NoFaults), a lane that its state file
\* publishes as ready is served, between switches, by the model it names or by
\* nobody.  A killed switch, or a rollback whose stop failed and was swallowed, leaves
\* a primary that nothing records, and the promise does not hold.
THEOREM ReadyLaneAnswers == ASSUME NoFaults PROVE Spec => []ReadyAnswers
  <1>1. LaneInv => ReadyAnswers
    <2> SUFFICES ASSUME LaneInv, lock = None, lane["fast"].status = "ready"
                 PROVE  /\ units["primary"] \subseteq {lane["fast"].model}
                        /\ server["primary"].weights \in {lane["fast"].model, None}
      BY DEF ReadyAnswers
    <2> QED
      BY DEF LaneInv, RestInv, ServerInv, NoServer, Kinds
  <1> QED
    BY <1>1, LaneInvariant, PTL

\* As long as no command is killed and neither a write before the try block, nor a
\* stop nor any other step of a rollback fails (NoFaults), no manifest is marked
\* promoted before the model itself has answered as a canary and as the primary.
\* docs/PDS4_INVARIANTS.md:12 requires this of every promotion; it is not true of
\* every one: after such a fault a forgotten server may answer the probe.
THEOREM PromotedAfterTrials == ASSUME NoFaults PROVE Spec => []PromotionTested
  <1>1. LaneInv => PromotionTested
    BY DEF LaneInv, TrialInv, LockInv, PromotionTested
  <1> QED
    BY <1>1, LaneInvariant, PTL

\* As long as no command is killed and none fails before its try block or in its
\* rollback (NoEarlyEnd), a switch that releases the lock leaves the lane with the
\* requested model, with the previous one, or failed - never warming -, also when a
\* stop of its rollback failed.
THEOREM SwitchesSettle == ASSUME NoEarlyEnd PROVE Spec => SwitchSettles
  <1>1. SwitchInv /\ [Next]_vars =>
          [\A s \in Switchers :
             lock = s /\ lock' = None =>
               lane'["fast"] \in
                 {Ready(target[s])} \cup
                 (IF previous[s] = None THEN {[status |-> "failed", model |-> None]}
                                        ELSE {Ready(previous[s])})]_vars
    BY SettlesNext
  <1> QED
    BY <1>1, SwitchInvariant, PTL DEF Spec, SwitchSettles
===============================================================================
