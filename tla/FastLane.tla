------------------------------- MODULE FastLane -------------------------------
(***************************************************************************)
(* The PDS4 lanes of pds4/lane.py.  `pds4 lane use fast M` replaces the    *)
(* model of the Fast lane: stop the previous unit, try the candidate as a  *)
(* canary on a port of its own, start it as the primary, mark its manifest *)
(* promoted, publish the lane as ready; any failure rolls back.  Switches  *)
(* exclude each other with an advisory file lock.  `pds4 lane start|stop   *)
(* flash` takes no lock; both publish the two lanes in routes.json.        *)
(*                                                                         *)
(* Commands are operating-system processes.  systemd units, the servers    *)
(* they run and the operator who interrupts a command are the environment. *)
(***************************************************************************)
CONSTANTS
    Switchers,          \* invocations of `pds4 lane use fast`
    FlashOps,           \* invocations of `pds4 lane start|stop flash`
    Models,             \* the models of the Fast lane
    Flash,              \* the model of the Flash lane
    None,               \* Python's None
    MayInterrupt,       \* TRUE: a command may die between two steps
    StopMayFail,        \* TRUE: `systemctl stop` may fail during a rollback
    DiskMayFail,        \* TRUE: a write before the try block may fail
    RollbackMayFail     \* TRUE: restoring the previous model may fail

ASSUME ModelAssumption == None \notin Models /\ Flash \notin Models /\ None # Flash
ASSUME CommandAssumption ==
    /\ Switchers \cap FlashOps = {}
    /\ None \notin Switchers \cup FlashOps
ASSUME FaultAssumption ==
    {MayInterrupt, StopMayFail, DiskMayFail, RollbackMayFail} \subseteq BOOLEAN

VARIABLES
    lock,       \* the switcher that holds /run/pds4/fast.lock, or None
    pc,         \* pc[o]: where command o is
    next,       \* next[o]: where o goes after write_lane_state
    pending,    \* pending[o]: the lane state o is publishing
    seen,       \* seen[o]: the other lane's state as o has read it
    target,     \* target[s]: the requested model
    previous,   \* previous[s]: the model to restore, or None
    lane,       \* lane[l]: the state file of lane l
    routes,     \* routes.json, as written
    env,        \* env[k]: the model named by the environment file of kind k
    units,      \* units[k]: the instances systemd keeps active
    server,     \* server[k]: the process that holds the port of kind k
    promoted,   \* the models whose manifest says "promoted"
    probed      \* probed[s]: the kinds at which target[s] itself has answered

locals == <<pc, next, pending, seen, target, previous>>
files == <<lane, routes>>
system == <<env, units, server>>
history == <<promoted, probed>>
vars == <<lock, locals, files, system, history>>

-----------------------------------------------------------------------------
Lanes == {"fast", "flash"}
Kinds == {"canary", "primary"}
Commands == Switchers \cup FlashOps

LaneOf(o) == IF o \in Switchers THEN "fast" ELSE "flash"
Other(k, S) == CHOOSE x \in S : x # k

LaneState == [status : {"stopped", "warming", "ready", "failed"},
              model : Models \cup {Flash, None}]
Stopped == [status |-> "stopped", model |-> None]
Ready(m) == [status |-> "ready", model |-> m]

NoServer == [unit |-> None, weights |-> None, ready |-> FALSE]
Server == [unit : Models \cup {None}, weights : Models \cup {None},
           ready : BOOLEAN]

\* The steps of write_lane_state, those of the try block of switch_fast, and
\* those of its except block.
Writing == {"file", "other", "routes"}
Trying == {"stopPrevious", "canaryEnv", "startCanary", "probeCanary",
           "stopCanary", "primaryEnv", "startPrimary", "probePrimary",
           "promote", "commit"}
Restoring == {"restoreEnv", "restartPrevious", "probePrevious"}
Step == {"idle", "begin", "undoCanary", "undoPrimary", "report", "systemctl"}
        \cup Writing \cup Trying \cup Restoring

Init ==
    /\ lock = None
    /\ pc = [o \in Commands |-> "idle"]
    /\ next = [o \in Commands |-> "idle"]
    /\ pending = [o \in Commands |-> Stopped]
    /\ seen = [o \in Commands |-> Stopped]
    /\ target = [o \in Commands |-> None]
    /\ previous = [o \in Commands |-> None]
    /\ lane = [l \in Lanes |-> Stopped]
    /\ routes = [l \in Lanes |-> Stopped]
    /\ env = [k \in Kinds |-> None]
    /\ units = [k \in Kinds |-> {}]
    /\ server = [k \in Kinds |-> NoServer]
    /\ promoted = {}
    /\ probed = [o \in Commands |-> {}]

Goto(o, from, to) ==
    /\ pc[o] = from
    /\ pc' = [pc EXCEPT ![o] = to]

\* The command ends: its memory is gone and the file lock with its descriptor.
Exit(o) ==
    /\ pc' = [pc EXCEPT ![o] = "idle"]
    /\ next' = [next EXCEPT ![o] = "idle"]
    /\ pending' = [pending EXCEPT ![o] = Stopped]
    /\ seen' = [seen EXCEPT ![o] = Stopped]
    /\ target' = [target EXCEPT ![o] = None]
    /\ previous' = [previous EXCEPT ![o] = None]
    /\ probed' = [probed EXCEPT ![o] = {}]
    /\ lock' = IF lock = o THEN None ELSE lock

-----------------------------------------------------------------------------
(***************************************************************************)
(* write_lane_state: the lane's own file, then the other lane's file is    *)
(* read, then routes.json is replaced with the pair.  Nothing holds the    *)
(* two lanes together in between.                                          *)
(***************************************************************************)
Publish(o, from, value, then) ==
    /\ Goto(o, from, "file")
    /\ pending' = [pending EXCEPT ![o] = value]
    /\ next' = [next EXCEPT ![o] = then]

WriteFile(o) ==
    /\ Goto(o, "file", "other")
    /\ lane' = [lane EXCEPT ![LaneOf(o)] = pending[o]]
    /\ UNCHANGED <<lock, next, pending, seen, target, previous, routes, system,
                   history>>

ReadOther(o) ==
    /\ Goto(o, "other", "routes")
    /\ seen' = [seen EXCEPT ![o] = lane[Other(LaneOf(o), Lanes)]]
    /\ UNCHANGED <<lock, next, pending, target, previous, files, system, history>>

WriteRoutes(o) ==
    /\ pc[o] = "routes"
    /\ routes' = [l \in Lanes |-> IF l = LaneOf(o) THEN pending[o] ELSE seen[o]]
    /\ \/ next[o] = "idle" /\ Exit(o)
       \/ /\ next[o] # "idle"
          /\ pc' = [pc EXCEPT ![o] = next[o]]
          /\ UNCHANGED <<lock, next, pending, seen, target, previous, probed>>
    /\ UNCHANGED <<lane, system, promoted>>

Write(o) == WriteFile(o) \/ ReadOther(o) \/ WriteRoutes(o)

-----------------------------------------------------------------------------
(***************************************************************************)
(* systemctl.  The canary unit of a model Conflicts= with its primary, so  *)
(* starting one stops the other.                                           *)
(***************************************************************************)
Without(k, m) == [unit |-> units[k] \ {m},
                  server |-> IF server[k].unit = m THEN NoServer ELSE server[k]]

StartUnit(k, m) ==
    LET other == Other(k, Kinds) IN
    /\ units' = [units EXCEPT ![k] = @ \cup {m}, ![other] = Without(other, m).unit]
    /\ server' = [server EXCEPT ![other] = Without(other, m).server]

StopUnit(k, m) ==
    /\ units' = [units EXCEPT ![k] = Without(k, m).unit]
    /\ server' = [server EXCEPT ![k] = Without(k, m).server]

-----------------------------------------------------------------------------
\* Mutant: the file lock is taken without LOCK_NB's refusal.
Lock_Unchecked(s, m) ==
    /\ lock' = s
    /\ target' = [target EXCEPT ![s] = m]
    /\ previous' = [previous EXCEPT ![s] = IF lane["fast"].status = "ready"
                                           THEN lane["fast"].model ELSE None]
    /\ probed' = [probed EXCEPT ![s] = {}]
    /\ Publish(s, "idle", [status |-> "warming", model |-> m], "begin")
    /\ UNCHANGED <<seen, files, system, promoted>>

(***************************************************************************)
(* switch_fast.  The installed model is verified, the lock is taken or the *)
(* command is refused, the model to restore is the one recorded as ready.  *)
(***************************************************************************)
Lock(s, m) ==
    /\ lock = None
    /\ lock' = s
    /\ target' = [target EXCEPT ![s] = m]
    /\ previous' = [previous EXCEPT ![s] = IF lane["fast"].status = "ready"
                                           THEN lane["fast"].model ELSE None]
    /\ probed' = [probed EXCEPT ![s] = {}]
    /\ Publish(s, "idle", [status |-> "warming", model |-> m], "begin")
    /\ UNCHANGED <<seen, files, system, promoted>>

\* The audit record of the beginning; outside the try block.
Begin(s) ==
    /\ Goto(s, "begin", IF previous[s] = None THEN "canaryEnv" ELSE "stopPrevious")
    /\ UNCHANGED <<lock, next, pending, seen, target, previous, files, system,
                   history>>

Unit(s, from, to) ==
    /\ Goto(s, from, to)
    /\ UNCHANGED <<lock, next, pending, seen, target, previous, files, env, history>>

StopPrevious(s) ==
    Unit(s, "stopPrevious", "canaryEnv") /\ StopUnit("primary", previous[s])

WriteEnv(s, k, m, from, to) ==
    /\ Goto(s, from, to)
    /\ env' = [env EXCEPT ![k] = m]
    /\ UNCHANGED <<lock, next, pending, seen, target, previous, files, units,
                   server, history>>

CanaryEnv(s) == WriteEnv(s, "canary", target[s], "canaryEnv", "startCanary")
PrimaryEnv(s) == WriteEnv(s, "primary", target[s], "primaryEnv", "startPrimary")

StartCanary(s) ==
    Unit(s, "startCanary", "probeCanary") /\ StartUnit("canary", target[s])
StopCanary(s) ==
    Unit(s, "stopCanary", "primaryEnv") /\ StopUnit("canary", target[s])
StartPrimary(s) ==
    Unit(s, "startPrimary", "probePrimary") /\ StartUnit("primary", target[s])

\* wait_ready: whatever serves the port answers; it is not asked who it is.
Probe(s, k, from, to) ==
    /\ Goto(s, from, to)
    /\ server[k].ready
    /\ probed' = IF server[k].weights = target[s]
                 THEN [probed EXCEPT ![s] = @ \cup {k}] ELSE probed
    /\ UNCHANGED <<lock, next, pending, seen, target, previous, files, system,
                   promoted>>

\* Mutant: the canary is started but its answer is not awaited.
ProbeCanary_Skipped(s) ==
    /\ Goto(s, "probeCanary", "stopCanary")
    /\ UNCHANGED <<lock, next, pending, seen, target, previous, files, system,
                   history>>

ProbeCanary(s) == Probe(s, "canary", "probeCanary", "stopCanary")
ProbePrimary(s) == Probe(s, "primary", "probePrimary", "promote")

Promote(s) ==
    /\ promoted' = promoted \cup {target[s]}
    /\ Publish(s, "promote", Ready(target[s]), "commit")
    /\ UNCHANGED <<lock, seen, target, previous, files, system, probed>>

Commit(s) ==
    /\ pc[s] = "commit"
    /\ Exit(s)
    /\ UNCHANGED <<files, system, promoted>>

-----------------------------------------------------------------------------
\* Mutant: wait_ready has no deadline.
TryFails_Patient(s) ==
    /\ pc[s] \in Trying \ {"probeCanary", "probePrimary"}
       \/ (pc[s] \in Writing /\ next[s] = "commit")
    /\ pc' = [pc EXCEPT ![s] = "undoCanary"]
    /\ UNCHANGED <<lock, next, pending, seen, target, previous, files, system,
                   history>>

(***************************************************************************)
(* Failures.  Anything in the try block, the publication of "ready" and    *)
(* the audit record of the commit included, leads to the rollback.  What   *)
(* fails before the try block or in the rollback ends the command.         *)
(***************************************************************************)
TryFails(s) ==
    /\ pc[s] \in Trying \/ (pc[s] \in Writing /\ next[s] = "commit")
    /\ pc' = [pc EXCEPT ![s] = "undoCanary"]
    /\ UNCHANGED <<lock, next, pending, seen, target, previous, files, system,
                   history>>

EndsEarly(s) ==
    /\ \/ /\ DiskMayFail
          /\ pc[s] = "begin" \/ (pc[s] \in Writing /\ next[s] = "begin")
       \/ /\ RollbackMayFail
          /\ pc[s] \in Restoring \/ (pc[s] \in Writing /\ next[s] = "report")
    /\ Exit(s)
    /\ UNCHANGED <<files, system, promoted>>

\* Both units of the candidate are stopped; a failing stop is swallowed.
UndoCanary(s) ==
    /\ Unit(s, "undoCanary", "undoPrimary")
    /\ \/ StopUnit("canary", target[s])
       \/ StopMayFail /\ UNCHANGED <<units, server>>

\* Mutants: only the canary of the failed candidate is stopped; the failed
\* lane is published without a model.
UndoPrimary_Skipped(s) ==
    /\ UNCHANGED <<units, server>>
    /\ IF previous[s] # None
       THEN Goto(s, "undoPrimary", "restoreEnv") /\ UNCHANGED <<next, pending>>
       ELSE Publish(s, "undoPrimary", [status |-> "failed", model |-> None], "report")
    /\ UNCHANGED <<lock, seen, target, previous, files, env, history>>
UndoPrimary_NoModel(s) ==
    /\ StopUnit("primary", target[s])
    /\ IF previous[s] # None
       THEN Goto(s, "undoPrimary", "restoreEnv") /\ UNCHANGED <<next, pending>>
       ELSE Publish(s, "undoPrimary", [status |-> "failed"], "report")
    /\ UNCHANGED <<lock, seen, target, previous, files, env, history>>

UndoPrimary(s) ==
    /\ \/ StopUnit("primary", target[s])
       \/ StopMayFail /\ UNCHANGED <<units, server>>
    /\ IF previous[s] # None
       THEN Goto(s, "undoPrimary", "restoreEnv") /\ UNCHANGED <<next, pending>>
       ELSE Publish(s, "undoPrimary", [status |-> "failed", model |-> None], "report")
    /\ UNCHANGED <<lock, seen, target, previous, files, env, history>>

\* Mutant: the environment still names the candidate.
RestoreEnv_Target(s) ==
    WriteEnv(s, "primary", target[s], "restoreEnv", "restartPrevious")

RestoreEnv(s) ==
    WriteEnv(s, "primary", previous[s], "restoreEnv", "restartPrevious")
RestartPrevious(s) ==
    Unit(s, "restartPrevious", "probePrevious") /\ StartUnit("primary", previous[s])

ProbePrevious(s) ==
    /\ server["primary"].ready
    /\ Publish(s, "probePrevious", Ready(previous[s]), "report")
    /\ UNCHANGED <<lock, seen, target, previous, files, system, history>>

\* The audit record of the rollback, and the exception that reports it.
Report(s) ==
    /\ pc[s] = "report"
    /\ Exit(s)
    /\ UNCHANGED <<files, system, promoted>>

Switch(s) ==
    \/ Begin(s) \/ StopPrevious(s)
    \/ CanaryEnv(s) \/ StartCanary(s) \/ ProbeCanary(s) \/ StopCanary(s)
    \/ PrimaryEnv(s) \/ StartPrimary(s) \/ ProbePrimary(s)
    \/ Promote(s) \/ Commit(s)
    \/ TryFails(s) \/ EndsEarly(s)
    \/ UndoCanary(s) \/ UndoPrimary(s)
    \/ RestoreEnv(s) \/ RestartPrevious(s) \/ ProbePrevious(s) \/ Report(s)

-----------------------------------------------------------------------------
(***************************************************************************)
(* flash_action: verification and the environment file (which may fail,    *)
(* without effect on the lane), systemctl, publication.  The Flash unit    *)
(* itself is not modelled.                                                 *)
(***************************************************************************)
FlashBegin(g) ==
    /\ Goto(g, "idle", "systemctl")
    /\ UNCHANGED <<lock, next, pending, seen, target, previous, files, system,
                   history>>

FlashSystemctl(g) ==
    /\ \/ \E value \in {Ready(Flash), Stopped} : Publish(g, "systemctl", value, "idle")
       \/ Goto(g, "systemctl", "idle") /\ UNCHANGED <<next, pending>>
    /\ UNCHANGED <<lock, seen, target, previous, files, system, history>>

-----------------------------------------------------------------------------
(***************************************************************************)
(* The environment.  A unit executes its server with the environment file  *)
(* as it is then; a server needs the port; the primary is Restart=         *)
(* on-failure, the canary is not.                                          *)
(***************************************************************************)
Exec(k, m) ==
    /\ m \in units[k]
    /\ server[k] = NoServer
    /\ env[k] # None
    /\ server' = [server EXCEPT ![k] = [unit |-> m, weights |-> env[k],
                                        ready |-> FALSE]]
    /\ UNCHANGED <<lock, locals, files, env, units, history>>

Loaded(k) ==
    /\ server[k] # NoServer
    /\ server' = [server EXCEPT ![k].ready = TRUE]
    /\ UNCHANGED <<lock, locals, files, env, units, history>>

ServerFails ==
    /\ server["primary"] # NoServer
    /\ server' = [server EXCEPT !["primary"] = NoServer]
    /\ UNCHANGED <<lock, locals, files, env, units, history>>

UnitEnds(k, m) ==
    /\ m \in units[k]
    /\ StopUnit(k, m)
    /\ UNCHANGED <<lock, locals, files, env, history>>

\* Ctrl-C, SIGKILL, a lost terminal: KeyboardInterrupt is not an Exception.
Interrupt(o) ==
    /\ MayInterrupt
    /\ pc[o] # "idle"
    /\ Exit(o)
    /\ UNCHANGED <<files, system, promoted>>

Next ==
    \/ \E s \in Switchers : Switch(s) \/ \E m \in Models : Lock(s, m)
    \/ \E g \in FlashOps : FlashBegin(g) \/ FlashSystemctl(g)
    \/ \E o \in Commands : Write(o) \/ Interrupt(o)
    \/ \E k \in Kinds : Loaded(k) \/ \E m \in Models : Exec(k, m) \/ UnitEnds(k, m)
    \/ ServerFails

Spec == Init /\ [][Next]_vars

\* Commands run; wait_ready has a deadline, which TryFails and EndsEarly are.
FairSpec == Spec /\ \A s \in Switchers : WF_vars(Switch(s) \/ Write(s))

-----------------------------------------------------------------------------
\* Every variable keeps its type.
TypeOK ==
    /\ lock \in Switchers \cup {None}
    /\ pc \in [Commands -> Step]
    /\ next \in [Commands -> {"idle", "begin", "commit", "report"}]
    /\ pending \in [Commands -> LaneState]
    /\ seen \in [Commands -> LaneState]
    /\ target \in [Commands -> Models \cup {None}]
    /\ previous \in [Commands -> Models \cup {None}]
    /\ lane \in [Lanes -> LaneState]
    /\ routes \in [Lanes -> LaneState]
    /\ env \in [Kinds -> Models \cup {None}]
    /\ units \in [Kinds -> SUBSET Models]
    /\ server \in [Kinds -> Server]
    /\ promoted \subseteq Models
    /\ probed \in [Commands -> SUBSET Kinds]

\* Two primaries never compete for the port and the GPU: a switch stops the
\* previous unit before it starts another, and so does its rollback.  Promised, like
\* the next two, for commands that are not killed and rollbacks whose steps succeed:
\* not when MayInterrupt, StopMayFail, DiskMayFail or RollbackMayFail is TRUE.
OnePrimary == \A m, n \in units["primary"] : m = n

\* Between switches, a lane that is published as ready is served by the model
\* it names, or by nobody: a server that restarts by itself reads the same
\* environment again.  A killed command or a failed rollback breaks it.
ReadyAnswers ==
    lock = None /\ lane["fast"].status = "ready" =>
        /\ units["primary"] \subseteq {lane["fast"].model}
        /\ server["primary"].weights \in {lane["fast"].model, None}

\* docs/PDS4_INVARIANTS.md:12: every promotion requires tests and a trial on
\* the target.  At the moment a manifest is marked, the model itself has
\* answered as a canary and as the primary.  After a switch that was killed or
\* could not stop what it had started, an orphan can answer the probe instead.
PromotionTested ==
    \A s \in Switchers : pc[s] = "promote" => probed[s] = Kinds

\* tests/test_pds4_lane.py: a failed candidate restores the previous model.  A
\* switch that ends leaves the lane ready with the requested model, ready with
\* the previous one, or, if there was none, failed - never warming.  One that is
\* killed, or fails outside the steps of the try block, may leave it warming.
SwitchSettles ==
    [][ \A s \in Switchers :
          lock = s /\ lock' = None =>
            lane'["fast"] \in
              {Ready(target[s])} \cup
              (IF previous[s] = None THEN {[status |-> "failed", model |-> None]}
                                     ELSE {Ready(previous[s])}) ]_vars

\* A switch that has the lock ends, whatever the servers do.
SwitchEnds == \A s \in Switchers : lock = s ~> lock # s
===============================================================================
