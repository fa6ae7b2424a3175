------------------------------ MODULE LanGateway ------------------------------
(***************************************************************************)
(* The LAN gateway of scripts/lan-gateway.py: a threading HTTP server that *)
(* owns at most one inference backend (llama-server or ds4-server) and     *)
(* switches it on demand.  Each POST runs on a handler thread of its own;  *)
(* one reentrant lock, taken without blocking, serialises the whole        *)
(* transaction: upload, activation (verify, stop, launch, wait until       *)
(* ready), relay of the answer.                                            *)
(*                                                                         *)
(* One action is one step between two points at which another thread, the  *)
(* backend process or a crash of the service can be observed.  The backend *)
(* processes, the clients, the disk and systemd are the environment.       *)
(***************************************************************************)
EXTENDS Naturals

CONSTANTS
    Handlers,           \* identities of request-handler threads
    Procs,              \* identities of backend processes
    Models,             \* the keys of the catalog config/lan-models.json
    Admitted,           \* the catalog entries with "admitted": true
    Names,              \* the model names a client may send
    Runtimes,           \* the runtime settings a client may send
    Supported,          \* those that command() accepts
    NoRuntime,          \* the empty settings {}
    None,               \* Python's None
    MaxRequests,        \* bound on the request counter of one session
    Unkillable,         \* TRUE: a killed backend may outlive wait(timeout=30)
    StateDirMayFail     \* TRUE: writing the state file may raise OSError

ASSUME CatalogAssumption ==
    /\ Admitted \subseteq Models
    /\ Models \subseteq Names
    /\ None \notin Names
ASSUME RuntimeAssumption ==
    /\ NoRuntime \in Supported
    /\ Supported \subseteq Runtimes
ASSUME ThreadAssumption ==
    /\ None \notin Handlers
    /\ None \notin Procs
ASSUME BoundAssumption ==
    /\ MaxRequests \in Nat
    /\ Unkillable \in BOOLEAN
    /\ StateDirMayFail \in BOOLEAN

VARIABLES
    up,             \* is the gateway's own process running?
    lock,           \* the owner of Gateway.lock, or None
    pc,             \* pc[h]: where handler h is in do_POST
    job,            \* job[h]: the parsed request of handler h
    answer,         \* answer[h]: what the last client of h was sent
    process,        \* Gateway.process: the tracked Popen object, or None
    active,         \* Gateway.active
    runtime,        \* Gateway.active_runtime
    session,        \* session_started_at, session_requests, last_generation
    file,           \* the state file written by save_state
    backend,        \* backend[p]: the operating-system process p
    generating      \* generating[h]: the process working on h's generation

gateway == <<process, active, runtime, session>>
vars == <<up, lock, pc, job, answer, gateway, file, backend, generating>>

-----------------------------------------------------------------------------
NoJob == [model |-> None, runtime |-> NoRuntime, stream |-> FALSE]
Job == [model : Names \cup {None}, runtime : Runtimes, stream : BOOLEAN]

\* last holds the model whose timings last_generation describes.
NoSession == [started |-> FALSE, requests |-> 0, last |-> None]
NewSession == [NoSession EXCEPT !.started = TRUE]
Session == [started : BOOLEAN, requests : 0..MaxRequests,
            last : Models \cup {None}]

NoProcess == [state |-> "dead", model |-> None, runtime |-> NoRuntime,
              told |-> FALSE]
Process == [state : {"dead", "starting", "up"}, model : Models \cup {None},
            runtime : Runtimes, told : BOOLEAN]

File == [status : {"idle", "loading", "ready", "failed"},
         model : Models \cup {None}]

\* The two uses of stop(): before a switch, and after the readiness deadline.
Step == {"idle", "reading", "activating", "verifying",
         "stopping", "stopWait", "loading", "launching", "waiting",
         "abandoning", "abandonWait", "timedOut",
         "forwarding", "relaying", "releasing"}

\* "mixed": an error reply written behind the status line of a 2xx answer;
\* "dropped": the connection was closed without a complete answer.
Answer == {"none", "404", "401", "429", "400", "409", "503",
           "ok", "mixed", "dropped"}

Alive(p) == backend[p].state # "dead"

\* self.process and self.process.poll() is None
Tracked == process # None /\ Alive(process)

Init ==
    /\ up = TRUE
    /\ lock = None
    /\ pc = [h \in Handlers |-> "idle"]
    /\ job = [h \in Handlers |-> NoJob]
    /\ answer = [h \in Handlers |-> "none"]
    /\ process = None
    /\ active = None
    /\ runtime = NoRuntime
    /\ session = NoSession
    /\ file = [status |-> "idle", model |-> None]
    /\ backend = [p \in Procs |-> NoProcess]
    /\ generating = [h \in Handlers |-> None]

-----------------------------------------------------------------------------
Goto(h, from, to) ==
    /\ pc[h] = from
    /\ pc' = [pc EXCEPT ![h] = to]

\* The except clauses of do_POST: the reply is written, the lock still held.
Reply(h, code) ==
    /\ answer' = [answer EXCEPT ![h] = code]
    /\ pc' = [pc EXCEPT ![h] = "releasing"]

\* save_state: a temporary file and os.replace, so all or nothing.
Save(status, model) == file' = [status |-> status, model |-> model]
SaveFails == StateDirMayFail /\ UNCHANGED file

(***************************************************************************)
(* do_POST up to the lock.  An unknown path or a missing token is refused  *)
(* before the lock is tried; a taken lock is answered at once with 429.    *)
(***************************************************************************)
Refuse(h) ==
    /\ pc[h] = "idle"
    /\ \E code \in {"404", "401"} : answer' = [answer EXCEPT ![h] = code]
    /\ UNCHANGED <<up, lock, pc, job, gateway, file, backend, generating>>

Busy(h) ==
    /\ pc[h] = "idle"
    /\ lock # None
    /\ answer' = [answer EXCEPT ![h] = "429"]
    /\ UNCHANGED <<up, lock, pc, job, gateway, file, backend, generating>>

\* Mutant: the lock is entered without looking at its owner.
Acquire_Unlocked(h) ==
    /\ lock' = h
    /\ Goto(h, "idle", "reading")
    /\ answer' = [answer EXCEPT ![h] = "none"]
    /\ UNCHANGED <<up, job, gateway, file, backend, generating>>

Acquire(h) ==
    /\ lock = None
    /\ lock' = h
    /\ Goto(h, "idle", "reading")
    /\ answer' = [answer EXCEPT ![h] = "none"]
    /\ UNCHANGED <<up, job, gateway, file, backend, generating>>

\* A thread identity is reused once the generation it left behind has ended.
Receive(h) ==
    /\ up
    /\ generating[h] = None
    /\ Refuse(h) \/ Busy(h) \/ Acquire(h)

(***************************************************************************)
(* The body is read and parsed with the lock held.  Only /ui/chat carries  *)
(* runtime settings; an API request has none.  A size or JSON error is a   *)
(* 400; JSON that is not an object raises an exception nothing catches.    *)
(***************************************************************************)
ReadBody(h) ==
    /\ pc[h] = "reading"
    /\ \/ /\ \E code \in {"400", "dropped"} : Reply(h, code)
          /\ UNCHANGED job
       \/ /\ \E m \in Names, r \in Runtimes, s \in BOOLEAN :
                 job' = [job EXCEPT ![h] = [model |-> m, runtime |-> r,
                                            stream |-> s]]
          /\ pc' = [pc EXCEPT ![h] = "activating"]
          /\ UNCHANGED answer
    /\ UNCHANGED <<up, lock, gateway, file, backend, generating>>

\* Mutant: the fast path compares the model name only.
Reusable_AnySettings(h) == active = job[h].model /\ Tracked

(***************************************************************************)
(* activate(): catalog and admission checks, then the loaded backend is    *)
(* reused when it is alive and has the requested model and settings.       *)
(***************************************************************************)
Reusable(h) ==
    /\ active = job[h].model
    /\ Tracked
    /\ runtime = job[h].runtime

\* Mutant: the admission gate is forgotten.
Activate_NoAdmission(h) ==
    /\ pc[h] = "activating"
    /\ \/ job[h].model \notin Models /\ Reply(h, "400")
       \/ /\ job[h].model \in Models
          /\ Goto(h, "activating",
                  IF Reusable(h) THEN "forwarding" ELSE "verifying")
          /\ UNCHANGED answer
    /\ UNCHANGED <<up, lock, job, gateway, file, backend, generating>>

Activate(h) ==
    /\ pc[h] = "activating"
    /\ \/ job[h].model \notin Models /\ Reply(h, "400")
       \/ job[h].model \in Models \ Admitted /\ Reply(h, "409")
       \/ /\ job[h].model \in Admitted
          /\ Reusable(h)
          /\ Goto(h, "activating", "forwarding")
          /\ UNCHANGED answer
       \/ /\ job[h].model \in Admitted
          /\ ~Reusable(h)
          /\ Goto(h, "activating", "verifying")
          /\ UNCHANGED answer
    /\ UNCHANGED <<up, lock, job, gateway, file, backend, generating>>

\* verify_model(): the files on disk match the pinned digests, or 503.
Verify(h) ==
    /\ pc[h] = "verifying"
    /\ \/ Goto(h, "verifying", "stopping") /\ UNCHANGED answer
       \/ Reply(h, "503")
    /\ UNCHANGED <<up, lock, job, gateway, file, backend, generating>>

\* Mutants: None instead of {} for the settings; the session is not reset.
Forget_RuntimeNone ==
    process' = None /\ active' = None /\ runtime' = None /\ session' = NoSession
Forget_KeepsSession ==
    /\ process' = None /\ active' = None /\ runtime' = NoRuntime
    /\ UNCHANGED session

(***************************************************************************)
(* stop(): SIGINT, wait up to 300 s, SIGKILL, wait up to 30 s, and only    *)
(* then forget the process.  A second timeout leaves everything in place.  *)
(***************************************************************************)
Forget ==
    /\ process' = None
    /\ active' = None
    /\ runtime' = NoRuntime
    /\ session' = NoSession

StopSignal(h, from, wait, next) ==
    /\ \/ /\ Tracked
          /\ Goto(h, from, wait)
          /\ backend' = [backend EXCEPT ![process].told = TRUE]
          /\ UNCHANGED gateway
       \/ /\ ~Tracked
          /\ Goto(h, from, next)
          /\ Forget
          /\ UNCHANGED backend
    /\ UNCHANGED <<up, lock, job, answer, file, generating>>

\* Mutant: the process is forgotten without waiting for its exit.
StopWait_NoWait(h, wait, next) ==
    /\ Goto(h, wait, next)
    /\ Forget
    /\ UNCHANGED <<up, lock, job, answer, file, backend, generating>>

StopWait(h, wait, next) ==
    /\ Goto(h, wait, next)
    /\ ~Tracked
    /\ Forget
    /\ UNCHANGED <<up, lock, job, answer, file, backend, generating>>

\* A generation ends with the process that runs it.
Exits(p) ==
    /\ backend' = [backend EXCEPT ![p] = NoProcess]
    /\ generating' = [h \in Handlers |-> IF generating[h] = p
                                         THEN None ELSE generating[h]]

\* Mutants: the timeout forgets the process without SIGKILL; no timeout.
StopKill_NoKill(h, wait, next) ==
    /\ Goto(h, wait, next)
    /\ Tracked
    /\ Forget
    /\ UNCHANGED <<up, lock, job, answer, file, backend, generating>>
StopKill_Never(h, wait, next) == pc[h] = wait /\ FALSE

StopKill(h, wait, next) ==
    /\ pc[h] = wait
    /\ Tracked
    /\ \/ /\ Goto(h, wait, next)
          /\ Exits(process)
          /\ Forget
          /\ UNCHANGED answer
       \/ /\ Unkillable
          /\ Reply(h, "dropped")
          /\ UNCHANGED <<gateway, backend, generating>>
    /\ UNCHANGED <<up, lock, job, file>>

Stop(h) ==
    \/ StopSignal(h, "stopping", "stopWait", "loading")
    \/ StopWait(h, "stopWait", "loading")
    \/ StopKill(h, "stopWait", "loading")

Abandon(h) ==
    \/ StopSignal(h, "abandoning", "abandonWait", "timedOut")
    \/ StopWait(h, "abandonWait", "timedOut")
    \/ StopKill(h, "abandonWait", "timedOut")

-----------------------------------------------------------------------------
\* Mutant: the state file keeps its old contents while a backend is loaded.
SaveLoading_Skipped(h) ==
    /\ Goto(h, "loading", "launching")
    /\ UNCHANGED <<up, lock, job, answer, gateway, file, backend, generating>>

\* save_state("loading", name): active is None by now, so no model is named.
SaveLoading(h) ==
    /\ pc[h] = "loading"
    /\ \/ /\ Save("loading", None)
          /\ Goto(h, "loading", "launching")
          /\ UNCHANGED answer
       \/ SaveFails /\ Reply(h, "503")
    /\ UNCHANGED <<up, lock, job, gateway, backend, generating>>

(***************************************************************************)
(* command() validates the settings only now, then Popen.  ValueError is a *)
(* 400, a TypeError escapes, OSError (no log file, no binary) is a 503.    *)
(***************************************************************************)
Launch(h) ==
    /\ pc[h] = "launching"
    /\ \/ /\ job[h].runtime \notin Supported
          /\ \E code \in {"400", "dropped"} : Reply(h, code)
          /\ UNCHANGED <<gateway, backend>>
       \/ /\ Reply(h, "503")
          /\ UNCHANGED <<gateway, backend>>
       \/ /\ job[h].runtime \in Supported
          /\ \E p \in Procs :
                /\ ~Alive(p)
                /\ backend' = [backend EXCEPT ![p] =
                                 [state |-> "starting", model |-> job[h].model,
                                  runtime |-> job[h].runtime, told |-> FALSE]]
                /\ process' = p
          /\ active' = job[h].model
          /\ runtime' = job[h].runtime
          /\ session' = NewSession
          /\ Goto(h, "launching", "waiting")
          /\ UNCHANGED answer
    /\ UNCHANGED <<up, lock, job, file, generating>>

(***************************************************************************)
(* The readiness loop of activate().  The backend exited: the file says so *)
(* and active is reset, but process, runtime and the session stay.         *)
(***************************************************************************)
StartupExit(h) ==
    /\ pc[h] = "waiting"
    /\ ~Tracked
    /\ \/ Save("failed", active) /\ active' = None
       \/ SaveFails /\ UNCHANGED active
    /\ Reply(h, "503")
    /\ UNCHANGED <<up, lock, job, process, runtime, session, backend,
                   generating>>

BecomeReady(h) ==
    /\ pc[h] = "waiting"
    /\ Tracked
    /\ backend[process].state = "up"
    /\ \/ /\ Save("ready", active)
          /\ Goto(h, "waiting", "forwarding")
          /\ UNCHANGED answer
       \/ SaveFails /\ Reply(h, "503")
    /\ UNCHANGED <<up, lock, job, gateway, backend, generating>>

\* The backend dies while it answers the probe: ready() lets the
\* http.client exception through and nothing records the failure.
ProbeBroken(h) ==
    /\ pc[h] = "waiting"
    /\ Tracked
    /\ backend[process].state = "up"
    /\ Exits(process)
    /\ Reply(h, "dropped")
    /\ UNCHANGED <<up, lock, job, gateway, file>>

Deadline(h) ==
    /\ Goto(h, "waiting", "abandoning")
    /\ UNCHANGED <<up, lock, job, answer, gateway, file, backend, generating>>

GiveUp(h) ==
    /\ pc[h] = "timedOut"
    /\ Reply(h, "503")
    /\ Save("failed", active) \/ SaveFails
    /\ UNCHANGED <<up, lock, job, gateway, backend, generating>>

-----------------------------------------------------------------------------
\* Mutant: the transaction covers the activation but not the answer.
Forward_ReleasesLock(h) ==
    /\ Tracked
    /\ backend[process].state = "up"
    /\ generating' = [generating EXCEPT ![h] = process]
    /\ Goto(h, "forwarding", "relaying")
    /\ lock' = None
    /\ UNCHANGED <<up, job, answer, gateway, file, backend>>

\* proxy() up to the request line; a backend that does not listen is a 503.
Forward(h) ==
    /\ pc[h] = "forwarding"
    /\ \/ /\ Tracked
          /\ backend[process].state = "up"
          /\ generating' = [generating EXCEPT ![h] = process]
          /\ Goto(h, "forwarding", "relaying")
          /\ UNCHANGED answer
       \/ /\ ~Tracked \/ backend[process].state = "starting"
          /\ Reply(h, "503")
          /\ UNCHANGED generating
    /\ UNCHANGED <<up, lock, job, gateway, file, backend>>

(***************************************************************************)
(* The answer is relayed to its end, if it comes: a backend that sends a   *)
(* byte now and then, or a client that does not read, puts it off without  *)
(* limit.  A plain 2xx answer is recorded first (record_generation), so    *)
(* the record stands even if the client has gone; a failing save_state     *)
(* turns the reply into a 503 behind a 200 header.                         *)
(***************************************************************************)
RelayPlain(h) ==
    /\ pc[h] = "relaying"
    /\ ~job[h].stream
    /\ generating[h] # None
    /\ \/ /\ session.requests < MaxRequests
          /\ session' = [session EXCEPT !.requests = @ + 1, !.last = active]
          /\ \/ Save("ready", active)
                /\ \E code \in {"ok", "dropped"} : Reply(h, code)
             \/ SaveFails /\ Reply(h, "mixed")
       \/ \* an upstream status outside 2xx, or no usable timings
          /\ \E code \in {"ok", "dropped"} : Reply(h, code)
          /\ UNCHANGED <<session, file>>
    /\ generating' = [generating EXCEPT ![h] = None]
    /\ UNCHANGED <<up, lock, job, process, active, runtime, backend>>

RelayStream(h) ==
    /\ pc[h] = "relaying"
    /\ job[h].stream
    /\ generating[h] # None
    /\ generating' = [generating EXCEPT ![h] = None]
    /\ Reply(h, "ok")
    /\ UNCHANGED <<up, lock, job, gateway, file, backend>>

\* The backend dies under the relay, before or after the response headers.
RelayBroken(h) ==
    /\ pc[h] = "relaying"
    /\ generating[h] = None
    /\ \E code \in {"503", "mixed", "dropped"} : Reply(h, code)
    /\ UNCHANGED <<up, lock, job, gateway, file, backend, generating>>

\* 900 s without a byte, or a write to a client that has gone: the relay ends
\* and the backend is not told.
RelayAbandoned(h) ==
    /\ pc[h] = "relaying"
    /\ generating[h] # None
    /\ \/ \E code \in {"503", "mixed"} : Reply(h, code)
       \/ job[h].stream /\ Reply(h, "dropped")
    /\ UNCHANGED <<up, lock, job, gateway, file, backend, generating>>

\* finally: gateway.lock.release()
Release(h) ==
    /\ Goto(h, "releasing", "idle")
    /\ lock' = None
    /\ job' = [job EXCEPT ![h] = NoJob]
    /\ UNCHANGED <<up, answer, gateway, file, backend, generating>>

\* Everything a handler does by itself once its client has sent the body.
Handle(h) ==
    \/ Activate(h) \/ Verify(h) \/ Stop(h) \/ Abandon(h)
    \/ SaveLoading(h) \/ Launch(h)
    \/ StartupExit(h) \/ BecomeReady(h) \/ ProbeBroken(h) \/ Deadline(h)
    \/ GiveUp(h)
    \/ Forward(h) \/ RelayPlain(h) \/ RelayStream(h) \/ RelayBroken(h)
    \/ RelayAbandoned(h) \/ Release(h)

-----------------------------------------------------------------------------
(***************************************************************************)
(* The environment: backend processes, and systemd, which kills the whole  *)
(* control group with the gateway and starts it again.                     *)
(***************************************************************************)
BackendUp(p) ==
    /\ backend[p].state = "starting"
    /\ backend' = [backend EXCEPT ![p].state = "up"]
    /\ UNCHANGED <<up, lock, pc, job, answer, gateway, file, generating>>

BackendExit(p) ==
    /\ Alive(p)
    /\ Exits(p)
    /\ UNCHANGED <<up, lock, pc, job, answer, gateway, file>>

\* A backend notices that its peer closed the connection, or finishes anyway.
GenerationEnds(h) ==
    /\ generating[h] # None
    /\ pc[h] # "relaying"
    /\ generating' = [generating EXCEPT ![h] = None]
    /\ UNCHANGED <<up, lock, pc, job, answer, gateway, file, backend>>

Crash ==
    /\ up
    /\ up' = FALSE
    /\ lock' = None
    /\ pc' = [h \in Handlers |-> "idle"]
    /\ job' = [h \in Handlers |-> NoJob]
    /\ answer' = [h \in Handlers |->
                    IF pc[h] \in {"idle", "releasing"} THEN answer[h]
                                                        ELSE "dropped"]
    /\ Forget
    /\ backend' = [p \in Procs |-> NoProcess]
    /\ generating' = [h \in Handlers |-> None]
    /\ UNCHANGED file

\* Gateway.__init__ and the first save_state of serve().
Restart ==
    /\ ~up
    /\ up' = TRUE
    /\ Save("idle", None)
    /\ UNCHANGED <<lock, pc, job, answer, gateway, backend, generating>>

Next ==
    \/ \E h \in Handlers : Receive(h) \/ ReadBody(h) \/ Handle(h)
    \/ \E p \in Procs : BackendUp(p) \/ BackendExit(p)
    \/ \E h \in Handlers : GenerationEnds(h)
    \/ Crash
    \/ Restart

Spec == Init /\ [][Next]_vars

(***************************************************************************)
(* Fairness.  A handler thread keeps running, and its waits have timeouts, *)
(* but for three that last as long as a peer keeps them going: the upload  *)
(* of a client and the writes to it have no timeout, and the 900 s and 3 s *)
(* of the relay and of the readiness probe are those of one read.  Clients *)
(* need not come, backends need not become ready, answer or obey SIGINT,   *)
(* and systemd need not restart the service.                               *)
(***************************************************************************)
Transferring(h) ==
    \/ pc[h] \in {"reading", "relaying"}
    \/ pc[h] = "waiting" /\ Tracked /\ backend[process].state = "up"

Bounded(h) == ~Transferring(h) /\ Handle(h)

FairSpec == Spec /\ \A h \in Handlers : WF_vars(Bounded(h))

-----------------------------------------------------------------------------
\* Every variable keeps its type.
TypeOK ==
    /\ up \in BOOLEAN
    /\ lock \in Handlers \cup {None}
    /\ pc \in [Handlers -> Step]
    /\ job \in [Handlers -> Job]
    /\ answer \in [Handlers -> Answer]
    /\ process \in Procs \cup {None}
    /\ active \in Models \cup {None}
    /\ runtime \in Runtimes
    /\ session \in Session
    /\ file \in File
    /\ backend \in [Procs -> Process]
    /\ generating \in [Handlers -> Procs \cup {None}]

\* Every living backend is the one the gateway tracks, so there is at most one
\* and stop() can reach it: through switches, failed startups, timeouts,
\* processes that survive SIGKILL, and restarts of the gateway.
OneBackend == \A p \in Procs : Alive(p) => p = process

\* When no transaction is open and the status page reports no active model,
\* no backend holds memory.
IdleMeansUnloaded ==
    lock = None /\ active = None => \A p \in Procs : ~Alive(p)

\* A generation that is being relayed runs on the tracked backend, which was
\* launched with the requested model and settings, whatever the fast path of
\* activate() found loaded.
ServedByRequested ==
    \A h \in Handlers :
        pc[h] = "relaying" /\ generating[h] # None =>
            /\ generating[h] = process
            /\ backend[process].model = job[h].model
            /\ backend[process].runtime = job[h].runtime
            /\ active = job[h].model

\* While an answer is relayed no other transaction is open, and nobody has
\* signalled the backend that produces it (unless it outlived a SIGKILL).
RelayUndisturbed ==
    \A h \in Handlers :
        pc[h] = "relaying" /\ generating[h] # None =>
            /\ \A g \in Handlers : pc[g] # "idle" => g = h
            /\ Unkillable \/ ~backend[generating[h]].told

\* Between transactions a state file that says "ready" names the model the
\* gateway holds, as long as the state directory accepts writes.
FileNamesActive ==
    up /\ lock = None /\ file.status = "ready" /\ ~StateDirMayFail =>
        file.model = active

\* The telemetry shown with the active model was measured on that model in
\* its present session.
TelemetryOfActive ==
    /\ session.last # None => session.last = active
    /\ session.requests > 0 => active # None

\* The gateway signals a backend only inside a transaction that asks for an
\* admitted model, and only if the backend cannot serve it as it is: it is
\* another model, other settings, or it missed the readiness deadline.
StopsOnlyForSwitch ==
    [][ \A p \in Procs :
          backend'[p].told /\ ~backend[p].told =>
            \E h \in Handlers :
                /\ lock = h
                /\ job[h].model \in Admitted
                /\ \/ pc[h] = "abandoning"
                   \/ active # job[h].model
                   \/ runtime # job[h].runtime ]_vars

\* The lock is never held for ever but for a transfer that does not end: every
\* other wait of a transaction - digests, SIGINT and SIGKILL, a backend that does
\* not listen, the way out of every failure - comes to an end.
OnlyTransfersLast ==
    \A h \in Handlers : []<>(lock = h => Transferring(h))

\* The gateway implements the serial switch its documentation describes.
Abstract == INSTANCE SerialSwitch WITH
    holder <- lock,
    resident <- {<<p, backend[p].model>> : p \in {q \in Procs : Alive(q)}},
    serving <- [h \in Handlers |-> IF pc[h] = "relaying" THEN job[h].model
                                                         ELSE None]
ImplementsSerialSwitch == Abstract!Spec

-----------------------------------------------------------------------------
(***************************************************************************)
(* A statement of the documentation that the code does not keep.           *)
(***************************************************************************)

\* docs/LAN_GATEWAY.md:43-45: a second caller cannot stop or replace a backend
\* while an existing generation is running.
NoStopWhileGenerating ==
    [][ \A p \in Procs :
          backend'[p].told /\ ~backend[p].told =>
            \A h \in Handlers : generating[h] # p ]_vars
===============================================================================
