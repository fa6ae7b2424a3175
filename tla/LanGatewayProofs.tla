--------------------------- MODULE LanGatewayProofs ---------------------------
(***************************************************************************)
(* Proofs about LanGateway, for any number of handler threads, backend     *)
(* processes, models and settings, with or without unkillable backends and *)
(* a failing state directory.                                              *)
(***************************************************************************)
EXTENDS LanGateway, TLAPS

-----------------------------------------------------------------------------
(***************************************************************************)
(* The inductive invariant.                                                *)
(***************************************************************************)

\* Only the owner of the lock is inside do_POST's try block.
LockInv == \A h \in Handlers : pc[h] # "idle" => lock = h

\* What the gateway remembers describes the process it tracks.
TrackInv ==
    /\ \A p \in Procs : Alive(p) => backend[p].model \in Models
    /\ Tracked => /\ active = backend[process].model
                  /\ runtime = backend[process].runtime

\* What activate() has established at each of its steps.
StepInv ==
    \A h \in Handlers :
        /\ pc[h] \notin {"idle", "reading", "activating", "releasing"} =>
              job[h].model \in Admitted
        /\ pc[h] \in {"verifying", "stopping"} => ~Reusable(h)
        /\ pc[h] \in {"loading", "launching", "timedOut"} =>
              process = None /\ session = NoSession
        /\ pc[h] \in {"waiting", "forwarding", "relaying"} =>
              /\ process # None
              /\ active = job[h].model
              /\ runtime = job[h].runtime
        /\ pc[h] = "waiting" => session = NewSession

\* A generation runs on a living process; a relayed one on the tracked one.
GenerationInv ==
    \A h \in Handlers :
        generating[h] # None =>
            /\ Alive(generating[h])
            /\ pc[h] = "relaying" => generating[h] = process

\* A signalled backend that is still tracked is being waited for.
ToldInv ==
    Tracked /\ backend[process].told =>
        Unkillable \/ \E h \in Handlers : pc[h] \in {"stopWait", "abandonWait"}

IInv ==
    /\ TypeOK
    /\ LockInv
    /\ OneBackend
    /\ TrackInv
    /\ StepInv
    /\ GenerationInv
    /\ ToldInv
    /\ TelemetryOfActive

-----------------------------------------------------------------------------
(***************************************************************************)
(* Type correctness.                                                       *)
(***************************************************************************)
USE CatalogAssumption, RuntimeAssumption, ThreadAssumption, BoundAssumption
    DEF CatalogAssumption, RuntimeAssumption, ThreadAssumption, BoundAssumption

\* The records the actions assign are of their types.
LEMMA RecordTypes ==
    /\ NoJob \in Job
    /\ NoSession \in Session
    /\ NewSession \in Session
    /\ NoProcess \in Process
<1>1. NoJob \in Job
  BY DEF NoJob, Job
<1>2. NoSession \in Session
  BY DEF NoSession, Session
<1>3. NewSession \in Session
  BY <1>2 DEF NewSession, Session
<1>4. NoProcess \in Process
  BY DEF NoProcess, Process
<1> QED
  BY <1>1, <1>2, <1>3, <1>4

LEMMA TypeInit == Init => TypeOK
BY RecordTypes DEF Init, TypeOK, Step, Answer, File

\* The three steps of stop(), wherever they are used.
LEMMA StopTypes ==
    ASSUME TypeOK, NEW h \in Handlers,
           NEW from \in Step, NEW wait \in Step, NEW next \in Step,
           \/ StopSignal(h, from, wait, next)
           \/ StopWait(h, wait, next)
           \/ StopKill(h, wait, next)
    PROVE  TypeOK'
<1>1. CASE StopSignal(h, from, wait, next)
  <2>1. ASSUME NEW p \in Procs
        PROVE  [backend EXCEPT ![p].told = TRUE] \in [Procs -> Process]
    <3>1. backend \in [Procs -> Process] /\ backend[p] \in Process
      BY DEF TypeOK
    <3>2. [backend[p] EXCEPT !.told = TRUE] \in Process
      BY <3>1 DEF Process
    <3> QED
      BY <3>1, <3>2
  <2>2. CASE /\ Goto(h, from, wait)
             /\ process \in Procs /\ backend' = [backend EXCEPT ![process].told = TRUE]
             /\ UNCHANGED <<gateway, up, lock, job, answer, file, generating>>
    BY <2>1, <2>2 DEF Goto, TypeOK, gateway
  <2>3. CASE /\ Goto(h, from, next) /\ Forget
             /\ UNCHANGED <<backend, up, lock, job, answer, file, generating>>
    BY <2>3, RecordTypes DEF Goto, Forget, TypeOK
  <2>4. Tracked => process \in Procs
    BY DEF Tracked, TypeOK
  <2> QED
    BY <1>1, <2>2, <2>3, <2>4 DEF StopSignal
<1>2. CASE StopWait(h, wait, next)
  BY <1>2, RecordTypes DEF StopWait, Goto, Forget, TypeOK
<1>3. CASE StopKill(h, wait, next)
  <2>1. CASE Exits(process) /\ Forget /\ Goto(h, wait, next)
    <3>1. backend' \in [Procs -> Process]
      BY <2>1, RecordTypes DEF Exits, TypeOK
    <3>2. generating' \in [Handlers -> Procs \cup {None}]
      BY <2>1 DEF Exits, TypeOK
    <3>3. answer' \in [Handlers -> Answer]
      BY <1>3, <2>1 DEF StopKill, Reply, TypeOK, Answer
    <3> QED
      BY <1>3, <2>1, <3>1, <3>2, <3>3, RecordTypes
      DEF StopKill, Goto, Forget, TypeOK
  <2>2. CASE Reply(h, "dropped") /\ UNCHANGED <<gateway, backend, generating>>
    BY <1>3, <2>2 DEF StopKill, Reply, TypeOK, Step, Answer, gateway
  <2> QED
    BY <1>3, <2>1, <2>2 DEF StopKill
<1> QED
  BY <1>1, <1>2, <1>3

LEMMA TypeStep == TypeOK /\ StepInv /\ [Next]_vars => TypeOK'
<1> SUFFICES ASSUME TypeOK, StepInv, [Next]_vars PROVE TypeOK'
  OBVIOUS
<1> USE DEF TypeOK, Step, Answer
<1>1. ASSUME NEW h \in Handlers, Receive(h) PROVE TypeOK'
  BY <1>1, RecordTypes DEF Receive, Refuse, Busy, Acquire, Goto, gateway
<1>2. ASSUME NEW h \in Handlers, ReadBody(h) PROVE TypeOK'
  <2>1. job' \in [Handlers -> Job]
    BY <1>2 DEF ReadBody, Job
  <2> QED
    BY <1>2, <2>1 DEF ReadBody, Reply, gateway
<1>3. ASSUME NEW h \in Handlers, Activate(h) PROVE TypeOK'
  BY <1>3, RecordTypes DEF Activate, Reply, Goto, gateway
<1>4. ASSUME NEW h \in Handlers, Verify(h) PROVE TypeOK'
  BY <1>4, RecordTypes DEF Verify, Reply, Goto, gateway
<1>5. ASSUME NEW h \in Handlers, Stop(h) PROVE TypeOK'
  <2>1. {"stopping", "stopWait", "loading"} \subseteq Step
    OBVIOUS
  <2> HIDE DEF TypeOK, Step, Answer
  <2> QED
    BY <1>5, <2>1, StopTypes DEF Stop
<1>6. ASSUME NEW h \in Handlers, Abandon(h) PROVE TypeOK'
  <2>1. {"abandoning", "abandonWait", "timedOut"} \subseteq Step
    OBVIOUS
  <2> HIDE DEF TypeOK, Step, Answer
  <2> QED
    BY <1>6, <2>1, StopTypes DEF Abandon
<1>7. ASSUME NEW h \in Handlers, SaveLoading(h) PROVE TypeOK'
  BY <1>7, RecordTypes DEF SaveLoading, Save, SaveFails, Goto, Reply, File, gateway
<1>8. ASSUME NEW h \in Handlers, Launch(h) PROVE TypeOK'
  <2>0. job[h].model \in Models
    BY <1>8 DEF Launch, StepInv
  <2>1. CASE UNCHANGED <<gateway, backend>>
    BY <1>8, <2>1 DEF Launch, Reply, Goto, gateway
  <2>2. ASSUME NEW p \in Procs
        PROVE  [state |-> "starting", model |-> job[h].model,
                runtime |-> job[h].runtime, told |-> FALSE] \in Process
    BY <1>8, <2>0 DEF Job, Process
  <2>3. ASSUME NEW p \in Procs,
               backend' = [backend EXCEPT ![p] =
                             [state |-> "starting", model |-> job[h].model,
                              runtime |-> job[h].runtime, told |-> FALSE]],
               process' = p, active' = job[h].model,
               runtime' = job[h].runtime, session' = NewSession,
               Goto(h, "launching", "waiting"),
               UNCHANGED <<up, lock, job, answer, file, generating>>
        PROVE  TypeOK'
    <3>1. backend' \in [Procs -> Process]
      BY <2>2, <2>3
    <3>2. runtime' \in Runtimes
      BY <2>3 DEF Job
    <3> QED
      BY <2>0, <2>3, <3>1, <3>2, RecordTypes DEF Goto
  <2> QED
    BY <1>8, <2>1, <2>3 DEF Launch
<1>9. ASSUME NEW h \in Handlers, StartupExit(h) PROVE TypeOK'
  BY <1>9, RecordTypes DEF StartupExit, Save, SaveFails, Reply, File, gateway
<1>10. ASSUME NEW h \in Handlers, BecomeReady(h) PROVE TypeOK'
  BY <1>10, RecordTypes DEF BecomeReady, Save, SaveFails, Reply, Goto, File, gateway
<1>11. ASSUME NEW h \in Handlers, ProbeBroken(h) PROVE TypeOK'
  BY <1>11, RecordTypes DEF ProbeBroken, Exits, Reply, gateway
<1>12. ASSUME NEW h \in Handlers, Deadline(h) PROVE TypeOK'
  BY <1>12, RecordTypes DEF Deadline, Goto, gateway
<1>13. ASSUME NEW h \in Handlers, GiveUp(h) PROVE TypeOK'
  BY <1>13, RecordTypes DEF GiveUp, Save, SaveFails, Reply, File, gateway
<1>14. ASSUME NEW h \in Handlers, Forward(h) PROVE TypeOK'
  BY <1>14, RecordTypes DEF Forward, Goto, Reply, Tracked, gateway
<1>15. ASSUME NEW h \in Handlers, RelayPlain(h) PROVE TypeOK'
  <2>1. session' \in Session
    <3>1. ASSUME session.requests < MaxRequests
          PROVE  [session EXCEPT !.requests = @ + 1, !.last = active] \in Session
      <4>1. session.requests + 1 \in 0..MaxRequests
        BY <3>1 DEF Session
      <4> HIDE <3>1
      <4> QED
        BY <4>1 DEF Session
    <3> QED
      BY <1>15, <3>1 DEF RelayPlain
  <2>2. file' \in File
    BY <1>15 DEF RelayPlain, Save, SaveFails, File
  <2> QED
    BY <1>15, <2>1, <2>2 DEF RelayPlain, Reply
<1>16. ASSUME NEW h \in Handlers, RelayStream(h) PROVE TypeOK'
  BY <1>16, RecordTypes DEF RelayStream, Reply, gateway
<1>17. ASSUME NEW h \in Handlers, RelayBroken(h) PROVE TypeOK'
  BY <1>17, RecordTypes DEF RelayBroken, Reply, gateway
<1>18. ASSUME NEW h \in Handlers, RelayAbandoned(h) PROVE TypeOK'
  BY <1>18, RecordTypes DEF RelayAbandoned, Reply, gateway
<1>19. ASSUME NEW h \in Handlers, Release(h) PROVE TypeOK'
  BY <1>19, RecordTypes DEF Release, Goto, gateway
<1>20. ASSUME NEW p \in Procs, BackendUp(p) PROVE TypeOK'
  BY <1>20, RecordTypes DEF BackendUp, Process, gateway
<1>21. ASSUME NEW p \in Procs, BackendExit(p) PROVE TypeOK'
  BY <1>21, RecordTypes DEF BackendExit, Exits, gateway
<1>22. ASSUME NEW h \in Handlers, GenerationEnds(h) PROVE TypeOK'
  BY <1>22 DEF GenerationEnds, gateway
<1>23. CASE Crash
  BY <1>23, RecordTypes DEF Crash, Forget
<1>24. CASE Restart
  BY <1>24 DEF Restart, Save, File, gateway
<1>25. CASE UNCHANGED vars
  BY <1>25 DEF vars, gateway
<1> QED
  BY <1>1, <1>2, <1>3, <1>4, <1>5, <1>6, <1>7, <1>8, <1>9, <1>10, <1>11,
     <1>12, <1>13, <1>14, <1>15, <1>16, <1>17, <1>18, <1>19, <1>20, <1>21,
     <1>22, <1>23, <1>24, <1>25 DEF Next, Handle


-----------------------------------------------------------------------------
(***************************************************************************)
(* The invariant is inductive.                                             *)
(***************************************************************************)
LEMMA InvInit == Init => IInv
<1> SUFFICES ASSUME Init PROVE IInv
  OBVIOUS
<1>1. TypeOK
  BY TypeInit
<1> QED
  BY <1>1 DEF Init, IInv, LockInv, OneBackend, TrackInv, StepInv, GenerationInv,
              ToldInv, TelemetryOfActive, Tracked, Alive, NoProcess, NoSession

\* The invariant without the types, which TypeStep settles.
Others ==
    /\ LockInv
    /\ OneBackend
    /\ TrackInv
    /\ StepInv
    /\ GenerationInv
    /\ ToldInv
    /\ TelemetryOfActive

\* stop(), before a switch and after the readiness deadline.
LEMMA StopStep ==
    ASSUME TypeOK, Others, TypeOK', NEW h \in Handlers,
           NEW from \in Step, NEW wait \in Step, NEW next \in Step,
           \/ from = "stopping" /\ wait = "stopWait" /\ next = "loading"
           \/ from = "abandoning" /\ wait = "abandonWait" /\ next = "timedOut",
           \/ StopSignal(h, from, wait, next)
           \/ StopWait(h, wait, next)
           \/ StopKill(h, wait, next)
    PROVE  Others'
<1> USE DEF Others
<1>1. CASE StopSignal(h, from, wait, next)
  <2>1. LockInv'
    BY <1>1 DEF StopSignal, Forget, Goto, LockInv, TypeOK, gateway
  <2>2. (OneBackend /\ TrackInv)'
    BY <1>1 DEF StopSignal, Forget, Goto, OneBackend, TrackInv, Tracked,
        Alive, Process, NoProcess, TypeOK, gateway
  <2>3. StepInv'
    BY <1>1 DEF StopSignal, Forget, Goto, StepInv, LockInv, Reusable, Tracked,
        Alive, NoProcess, TypeOK, gateway
  <2>4. GenerationInv'
    <3>1. \A q \in Procs : Alive(q)' = Alive(q)
      BY <1>1 DEF StopSignal, Alive, TypeOK, Process, Tracked
    <3>2. \A g \in Handlers : pc'[g] # "relaying"
      BY <1>1 DEF StopSignal, Goto, LockInv, TypeOK
    <3>3. \A g \in Handlers : generating[g] \in Procs \cup {None}
      BY DEF TypeOK
    <3> QED
      BY <1>1, <3>1, <3>2, <3>3 DEF StopSignal, GenerationInv
  <2>5. ToldInv'
    BY <1>1 DEF StopSignal, Forget, Goto, ToldInv, LockInv, Tracked, Alive,
        Process, NoProcess, TypeOK, gateway
  <2>6. TelemetryOfActive'
    BY <1>1 DEF StopSignal, Forget, Goto, TelemetryOfActive, StepInv,
        NewSession, NoSession, TypeOK, gateway
  <2> QED
    BY <2>1, <2>2, <2>3, <2>4, <2>5, <2>6 DEF Others
<1>2. CASE StopWait(h, wait, next)
  <2>1. LockInv'
    BY <1>2 DEF StopWait, Forget, Goto, LockInv, TypeOK, gateway
  <2>2. (OneBackend /\ TrackInv)'
    BY <1>2 DEF StopWait, Forget, Goto, OneBackend, TrackInv, Tracked, Alive,
        Process, NoProcess, TypeOK, gateway
  <2>3. StepInv'
    BY <1>2 DEF StopWait, Forget, Goto, StepInv, LockInv, Reusable, Tracked,
        Alive, NoProcess, TypeOK, gateway
  <2>4. GenerationInv'
    BY <1>2 DEF StopWait, Forget, Goto, GenerationInv, LockInv, OneBackend,
        Alive, Tracked, NoProcess, TypeOK, gateway
  <2>5. ToldInv'
    BY <1>2 DEF StopWait, Forget, Goto, ToldInv, LockInv, Tracked, Alive,
        Process, NoProcess, TypeOK, gateway
  <2>6. TelemetryOfActive'
    BY <1>2 DEF StopWait, Forget, Goto, TelemetryOfActive, StepInv,
        NewSession, NoSession, TypeOK, gateway
  <2> QED
    BY <2>1, <2>2, <2>3, <2>4, <2>5, <2>6 DEF Others
<1>3. CASE StopKill(h, wait, next)
  <2>1. LockInv'
    BY <1>3 DEF StopKill, Forget, Goto, Exits, Reply, LockInv, TypeOK, gateway
  <2>2. (OneBackend /\ TrackInv)'
    BY <1>3 DEF StopKill, Forget, Goto, Exits, Reply, OneBackend, TrackInv,
        Tracked, Alive, Process, NoProcess, TypeOK, gateway
  <2>3. StepInv'
    BY <1>3 DEF StopKill, Forget, Goto, Exits, Reply, StepInv, LockInv,
        Reusable, Tracked, Alive, NoProcess, TypeOK, gateway
  <2>4. GenerationInv'
    BY <1>3 DEF StopKill, Forget, Goto, Exits, Reply, GenerationInv, LockInv,
        OneBackend, Alive, Tracked, NoProcess, TypeOK, gateway
  <2>5. ToldInv'
    BY <1>3 DEF StopKill, Forget, Goto, Exits, Reply, ToldInv, LockInv,
        Tracked, Alive, Process, NoProcess, TypeOK, gateway
  <2>6. TelemetryOfActive'
    BY <1>3 DEF StopKill, Forget, Goto, Exits, Reply, TelemetryOfActive,
        StepInv, NewSession, NoSession, TypeOK, gateway
  <2> QED
    BY <2>1, <2>2, <2>3, <2>4, <2>5, <2>6 DEF Others
<1> QED
  BY <1>1, <1>2, <1>3

LEMMA InvStep == IInv /\ [Next]_vars => IInv'
<1> SUFFICES ASSUME IInv, [Next]_vars PROVE IInv'
  OBVIOUS
<1>1. TypeOK /\ Others /\ TypeOK'
  BY TypeStep DEF IInv, Others
<1>2. ASSUME NEW h \in Handlers, Stop(h) \/ Abandon(h) PROVE Others'
  BY <1>1, <1>2, StopStep DEF Stop, Abandon, Step
<1>3. ASSUME NEW h \in Handlers, Receive(h) PROVE Others'
  <2> USE DEF Others
  <2>1. LockInv'
    <3>1. CASE Refuse(h) \/ Busy(h)
      BY <1>1, <3>1 DEF Refuse, Busy, LockInv
    <3>2. CASE Acquire(h)
      BY <1>1, <3>2 DEF Acquire, Goto, LockInv, TypeOK
    <3> QED
      BY <1>3, <3>1, <3>2 DEF Receive
  <2>2. (OneBackend /\ TrackInv)'
    <3>1. UNCHANGED <<backend, process, active, runtime>>
      BY <1>3 DEF Receive, Refuse, Busy, Acquire, gateway
    <3> QED
      BY <1>1, <3>1 DEF OneBackend, TrackInv, Tracked, Alive
  <2>3. StepInv'
    <3>1. /\ UNCHANGED <<backend, process, active, runtime, session, job>>
          /\ \A k \in Handlers : pc'[k] = pc[k] \/ pc'[k] = "reading"
      BY <1>1, <1>3 DEF Receive, Refuse, Busy, Acquire, Goto, TypeOK, gateway
    <3> QED
      BY <1>1, <3>1 DEF StepInv, Reusable, Tracked, Alive
  <2>4. GenerationInv'
    BY <1>1, <1>3 DEF Receive, Refuse, Busy, Acquire, Goto, GenerationInv,
        LockInv, OneBackend, Alive, Tracked, NoProcess, TypeOK, gateway
  <2>5. ToldInv'
    BY <1>1, <1>3 DEF Receive, Refuse, Busy, Acquire, Goto, ToldInv, LockInv,
        Tracked, Alive, Process, NoProcess, TypeOK, gateway
  <2>6. TelemetryOfActive'
    BY <1>1, <1>3 DEF Receive, Refuse, Busy, Acquire, Goto, TelemetryOfActive,
        StepInv, NewSession, NoSession, TypeOK, gateway
  <2> QED
    BY <2>1, <2>2, <2>3, <2>4, <2>5, <2>6 DEF Others
<1>4. ASSUME NEW h \in Handlers, Launch(h) PROVE Others'
  <2> USE DEF Others
  <2>1. LockInv'
    BY <1>1, <1>4 DEF Launch, Reply, Goto, LockInv, TypeOK, gateway
  <2>2. (OneBackend /\ TrackInv)'
    <3>1. CASE UNCHANGED <<gateway, backend>>
      BY <1>1, <3>1 DEF OneBackend, TrackInv, Tracked, Alive, gateway
    <3>2. CASE ~UNCHANGED <<gateway, backend>>
      <4>1. process = None /\ job[h].model \in Models
        BY <1>1, <1>4 DEF Launch, StepInv
      <4>2. PICK p \in Procs :
               /\ backend' = [backend EXCEPT ![p] =
                               [state |-> "starting", model |-> job[h].model,
                                runtime |-> job[h].runtime, told |-> FALSE]]
               /\ process' = p
               /\ active' = job[h].model
               /\ runtime' = job[h].runtime
        BY <1>4, <3>2 DEF Launch
      <4>3. \A q \in Procs : q # p => ~Alive(q)'
        BY <1>1, <4>1, <4>2 DEF OneBackend, Alive, TypeOK
      <4>4. /\ backend'[p].model = job[h].model
            /\ backend'[p].runtime = job[h].runtime
        BY <1>1, <4>2 DEF TypeOK
      <4> QED
        BY <4>1, <4>2, <4>3, <4>4 DEF OneBackend, TrackInv, Tracked
    <3> QED
      BY <3>1, <3>2
  <2>3. StepInv'
    BY <1>1, <1>4 DEF Launch, Reply, Goto, StepInv, LockInv, Reusable,
        Tracked, Alive, NoProcess, TypeOK, gateway
  <2>4. GenerationInv'
    BY <1>1, <1>4 DEF Launch, Reply, Goto, GenerationInv, LockInv, OneBackend,
        Alive, Tracked, NoProcess, TypeOK, gateway
  <2>5. ToldInv'
    BY <1>1, <1>4 DEF Launch, Reply, Goto, ToldInv, LockInv, Tracked, Alive,
        Process, NoProcess, TypeOK, gateway
  <2>6. TelemetryOfActive'
    BY <1>1, <1>4 DEF Launch, Reply, Goto, TelemetryOfActive, StepInv,
        NewSession, NoSession, TypeOK, gateway
  <2> QED
    BY <2>1, <2>2, <2>3, <2>4, <2>5, <2>6 DEF Others
<1>5. ASSUME NEW h \in Handlers, RelayPlain(h) PROVE Others'
  <2> USE DEF Others
  <2>1. LockInv'
    BY <1>1, <1>5 DEF RelayPlain, Save, SaveFails, Reply, LockInv, TypeOK,
        gateway
  <2>2. (OneBackend /\ TrackInv)'
    BY <1>1, <1>5 DEF RelayPlain, Save, SaveFails, Reply, OneBackend,
        TrackInv, Tracked, Alive, Process, NoProcess, TypeOK, gateway
  <2>3. StepInv'
    BY <1>1, <1>5 DEF RelayPlain, Save, SaveFails, Reply, StepInv, LockInv,
        Reusable, Tracked, Alive, NoProcess, TypeOK, gateway
  <2>4. GenerationInv'
    BY <1>1, <1>5 DEF RelayPlain, Save, SaveFails, Reply, GenerationInv,
        LockInv, OneBackend, Alive, Tracked, NoProcess, TypeOK, gateway
  <2>5. ToldInv'
    BY <1>1, <1>5 DEF RelayPlain, Save, SaveFails, Reply, ToldInv, LockInv,
        Tracked, Alive, Process, NoProcess, TypeOK, gateway
  <2>6. TelemetryOfActive'
    <3>1. active # None
      BY <1>1, <1>5 DEF RelayPlain, StepInv
    <3>2. UNCHANGED session \/ session'.last = active
      BY <1>1, <1>5 DEF RelayPlain, TypeOK, Session
    <3> QED
      BY <1>1, <1>5, <3>1, <3>2 DEF RelayPlain, TelemetryOfActive
  <2> QED
    BY <2>1, <2>2, <2>3, <2>4, <2>5, <2>6 DEF Others
<1> USE DEF Others, LockInv, OneBackend, TrackInv, StepInv, GenerationInv, ToldInv,
            TelemetryOfActive, TypeOK, Tracked, Alive, Reusable, Process,
            NoProcess, NewSession, NoSession, gateway
<1>6. ASSUME NEW h \in Handlers, ReadBody(h) PROVE Others'
  BY <1>1, <1>6 DEF ReadBody, Reply
<1>7. ASSUME NEW h \in Handlers, Activate(h) PROVE Others'
  BY <1>1, <1>7 DEF Activate, Reply, Goto
<1>8. ASSUME NEW h \in Handlers, Verify(h) PROVE Others'
  BY <1>1, <1>8 DEF Verify, Reply, Goto
<1>9. ASSUME NEW h \in Handlers, SaveLoading(h) PROVE Others'
  BY <1>1, <1>9 DEF SaveLoading, Save, SaveFails, Goto, Reply
<1>10. ASSUME NEW h \in Handlers, StartupExit(h) PROVE Others'
  BY <1>1, <1>10 DEF StartupExit, Save, SaveFails, Reply
<1>11. ASSUME NEW h \in Handlers, BecomeReady(h) PROVE Others'
  BY <1>1, <1>11 DEF BecomeReady, Save, SaveFails, Reply, Goto
<1>12. ASSUME NEW h \in Handlers, ProbeBroken(h) PROVE Others'
  BY <1>1, <1>12 DEF ProbeBroken, Exits, Reply
<1>13. ASSUME NEW h \in Handlers, Deadline(h) PROVE Others'
  BY <1>1, <1>13 DEF Deadline, Goto
<1>14. ASSUME NEW h \in Handlers, GiveUp(h) PROVE Others'
  BY <1>1, <1>14 DEF GiveUp, Save, SaveFails, Reply
<1>15. ASSUME NEW h \in Handlers, Forward(h) PROVE Others'
  BY <1>1, <1>15 DEF Forward, Goto, Reply
<1>16. ASSUME NEW h \in Handlers, RelayStream(h) PROVE Others'
  BY <1>1, <1>16 DEF RelayStream, Reply
<1>17. ASSUME NEW h \in Handlers, RelayBroken(h) PROVE Others'
  BY <1>1, <1>17 DEF RelayBroken, Reply
<1>18. ASSUME NEW h \in Handlers, RelayAbandoned(h) PROVE Others'
  BY <1>1, <1>18 DEF RelayAbandoned, Reply
<1>19. ASSUME NEW h \in Handlers, Release(h) PROVE Others'
  BY <1>1, <1>19 DEF Release, Goto
<1>20. ASSUME NEW p \in Procs, BackendUp(p) PROVE Others'
  BY <1>1, <1>20 DEF BackendUp
<1>21. ASSUME NEW p \in Procs, BackendExit(p) PROVE Others'
  BY <1>1, <1>21 DEF BackendExit, Exits
<1>22. ASSUME NEW h \in Handlers, GenerationEnds(h) PROVE Others'
  BY <1>1, <1>22 DEF GenerationEnds
<1>23. ASSUME Crash PROVE Others'
  BY <1>1, <1>23 DEF Crash, Forget
<1>24. ASSUME Restart PROVE Others'
  BY <1>1, <1>24 DEF Restart
<1>25. ASSUME UNCHANGED vars PROVE Others'
  BY <1>1, <1>25 DEF vars
<1> HIDE DEF Others, LockInv, OneBackend, TrackInv, StepInv, GenerationInv, ToldInv,
            TelemetryOfActive, TypeOK
<1> QED
  BY <1>1, <1>2, <1>3, <1>4, <1>5, <1>6, <1>7, <1>8, <1>9, <1>10, <1>11,
    <1>12, <1>13, <1>14, <1>15, <1>16, <1>17, <1>18, <1>19, <1>20, <1>21,
    <1>22, <1>23, <1>24, <1>25 DEF Next, Handle, IInv, Others

LEMMA Invariance == Spec => []IInv
<1> QED BY InvInit, InvStep, PTL DEF Spec

-----------------------------------------------------------------------------
\* Every variable keeps its type in every reachable state.
THEOREM TypeCorrect == Spec => []TypeOK
<1>1. IInv => TypeOK
  BY DEF IInv
<1> QED
  BY <1>1, Invariance, PTL

\* Every living backend is the tracked one: there are never two, and none
\* that stop() could not reach.
THEOREM SingleBackend == Spec => []OneBackend
<1>1. IInv => OneBackend
  BY DEF IInv
<1> QED
  BY <1>1, Invariance, PTL

\* An idle status between transactions means that no backend is loaded.
THEOREM IdleUnloaded == Spec => []IdleMeansUnloaded
<1>1. IInv => IdleMeansUnloaded
  BY DEF IInv, IdleMeansUnloaded, OneBackend, TrackInv, Tracked, TypeOK
<1> QED
  BY <1>1, Invariance, PTL

\* A relayed answer comes from the tracked backend, launched with the model
\* and the settings of the request.
THEOREM ServedAsRequested == Spec => []ServedByRequested
<1>1. IInv => ServedByRequested
  BY DEF IInv, ServedByRequested, StepInv, GenerationInv, TrackInv, Tracked,
         TypeOK
<1> QED
  BY <1>1, Invariance, PTL

\* No other transaction is open during a relay, and the backend has not been
\* signalled.
THEOREM RelayExclusive == Spec => []RelayUndisturbed
<1>1. IInv => RelayUndisturbed
  BY DEF IInv, RelayUndisturbed, LockInv, GenerationInv, ToldInv, Tracked,
         TypeOK
<1> QED
  BY <1>1, Invariance, PTL

\* The telemetry belongs to the active model.
THEOREM TelemetryCorrect == Spec => []TelemetryOfActive
<1>1. IInv => TelemetryOfActive
  BY DEF IInv
<1> QED
  BY <1>1, Invariance, PTL

-----------------------------------------------------------------------------
(***************************************************************************)
(* When the gateway may signal a backend.                                  *)
(***************************************************************************)
\* Only stop() signals a backend, and StepInv says what activate() knew then.
THEOREM StopsForSwitchOnly == Spec => StopsOnlyForSwitch
<1> DEFINE Switch == \A p \in Procs :
                       backend'[p].told /\ ~backend[p].told =>
                         \E h \in Handlers :
                            /\ lock = h
                            /\ job[h].model \in Admitted
                            /\ \/ pc[h] = "abandoning"
                               \/ active # job[h].model
                               \/ runtime # job[h].runtime
<1>1. IInv /\ [Next]_vars => [Switch]_vars
  <2> SUFFICES ASSUME IInv, Next, NEW p \in Procs,
                      backend'[p].told, ~backend[p].told
               PROVE  \E h \in Handlers :
                         /\ lock = h
                         /\ job[h].model \in Admitted
                         /\ \/ pc[h] = "abandoning"
                            \/ active # job[h].model
                            \/ runtime # job[h].runtime
    OBVIOUS
  <2>1. PICK h \in Handlers : \/ StopSignal(h, "stopping", "stopWait", "loading")
                              \/ StopSignal(h, "abandoning", "abandonWait", "timedOut")
    <3> USE DEF gateway, NoProcess
    <3>1. ASSUME NEW h \in Handlers, Launch(h) PROVE FALSE
      BY <3>1 DEF Launch, IInv, TypeOK
    <3>2. ASSUME NEW h \in Handlers, Receive(h) \/ ReadBody(h) PROVE FALSE
      BY <3>2 DEF Receive, Refuse, Busy, Acquire, ReadBody
    <3>3. ASSUME NEW h \in Handlers,
                 \/ StopWait(h, "stopWait", "loading")
                 \/ StopWait(h, "abandonWait", "timedOut")
                 \/ StopKill(h, "stopWait", "loading")
                 \/ StopKill(h, "abandonWait", "timedOut")
          PROVE  FALSE
      BY <3>3 DEF StopWait, StopKill, Exits, IInv, TypeOK
    <3>4. ASSUME NEW h \in Handlers, Activate(h) \/ Verify(h) \/ SaveLoading(h)
          PROVE FALSE
      BY <3>4 DEF Activate, Verify, SaveLoading
    <3>5. ASSUME NEW h \in Handlers, \/ StartupExit(h) \/ BecomeReady(h)
                                     \/ ProbeBroken(h) \/ Deadline(h) \/ GiveUp(h)
          PROVE FALSE
      BY <3>5 DEF StartupExit, BecomeReady, ProbeBroken, Deadline, GiveUp, Exits,
                  IInv, TypeOK
    <3>6. ASSUME NEW h \in Handlers,
                 \/ Forward(h) \/ RelayPlain(h) \/ RelayStream(h)
                 \/ RelayBroken(h) \/ RelayAbandoned(h) \/ Release(h)
          PROVE FALSE
      BY <3>6 DEF Forward, RelayPlain, RelayStream, RelayBroken, RelayAbandoned,
                  Release
    <3>7. ASSUME NEW q \in Procs, BackendUp(q) \/ BackendExit(q) PROVE FALSE
      <4>1. CASE BackendUp(q)
        <5>1. backend'[p].told = backend[p].told
          BY <4>1 DEF BackendUp, IInv, TypeOK, Process
        <5> QED
          BY <5>1
      <4>2. CASE BackendExit(q)
        BY <4>2 DEF BackendExit, Exits, IInv, TypeOK
      <4> QED
        BY <3>7, <4>1, <4>2
    <3>8. ASSUME \/ Crash \/ Restart \/ \E h \in Handlers : GenerationEnds(h)
          PROVE FALSE
      BY <3>8 DEF Crash, Restart, GenerationEnds
    <3> QED
      BY <3>1, <3>2, <3>3, <3>4, <3>5, <3>6, <3>7, <3>8
      DEF Next, Handle, Stop, Abandon
  <2>2. Tracked /\ pc[h] \in {"stopping", "abandoning"}
    BY <2>1 DEF StopSignal, Goto, IInv, TypeOK
  <2> QED
    BY <2>1, <2>2 DEF IInv, LockInv, StepInv, Reusable
<1> QED
  BY <1>1, Invariance, PTL DEF Spec, StopsOnlyForSwitch

-----------------------------------------------------------------------------
(***************************************************************************)
(* Refinement: LanGateway implements SerialSwitch.                         *)
(***************************************************************************)
Resident == {<<p, backend[p].model>> : p \in {q \in Procs : Alive(q)}}
Serving == [h \in Handlers |-> IF pc[h] = "relaying" THEN job[h].model ELSE None]

LEMMA RefineInit == Init => Abstract!Init
BY DEF Init, Abstract!Init, Alive, NoProcess

\* The abstract state depends only on which processes live, with which model,
\* and on the jobs of the relaying handlers.
LEMMA SameResident ==
    ASSUME \A p \in Procs : /\ Alive(p)' = Alive(p)
                            /\ backend'[p].model = backend[p].model
    PROVE  Resident' = Resident
BY DEF Resident

LEMMA SameServing ==
    ASSUME \A h \in Handlers : /\ pc[h] = "relaying" <=> pc'[h] = "relaying"
                               /\ pc[h] = "relaying" => job'[h] = job[h]
    PROVE  Serving' = Serving
BY DEF Serving

\* A process that ends was the only one alive.
LEMMA ExitsUnloads ==
    ASSUME TypeOK, OneBackend, NEW p \in Procs, Alive(p), Exits(p)
    PROVE  Resident' = {}
BY DEF TypeOK, OneBackend, Exits, Alive, NoProcess, Resident

LEMMA RefineStep == IInv /\ [Next]_vars => [Abstract!Next]_(Abstract!vars)
<1> SUFFICES ASSUME IInv, [Next]_vars
             PROVE  Abstract!Next \/ UNCHANGED <<lock, Resident, Serving>>
  BY DEF Abstract!vars, Resident, Serving
<1> USE DEF gateway
<1>0. TypeOK /\ LockInv /\ OneBackend /\ StepInv /\ TrackInv /\ GenerationInv
  BY DEF IInv
<1>1. ASSUME UNCHANGED backend PROVE Resident' = Resident
  BY <1>1, SameResident DEF Alive
<1>2. ASSUME NEW h \in Handlers, pc[h] # "relaying", UNCHANGED job,
             NEW s \in Step \ {"relaying"}, pc' = [pc EXCEPT ![h] = s]
      PROVE  Serving' = Serving
  BY <1>0, <1>2, SameServing DEF TypeOK
<1>3. ASSUME NEW h \in Handlers, Receive(h)
      PROVE  Abstract!Next \/ UNCHANGED <<lock, Resident, Serving>>
  <2>1. UNCHANGED Serving
    BY <1>0, <1>3, SameServing DEF Receive, Refuse, Busy, Acquire, Goto, TypeOK
  <2>2. UNCHANGED Resident
    BY <1>1, <1>3 DEF Receive, Refuse, Busy, Acquire
  <2>3. UNCHANGED lock \/ Abstract!Begin(h)
    BY <1>3, <2>1, <2>2
    DEF Receive, Refuse, Busy, Acquire, Abstract!Begin, Resident, Serving
  <2> QED
    BY <2>1, <2>2, <2>3 DEF Abstract!Next
<1>4. ASSUME NEW h \in Handlers, \/ ReadBody(h) \/ Activate(h) \/ Verify(h)
                                 \/ SaveLoading(h) \/ StartupExit(h)
                                 \/ BecomeReady(h) \/ Deadline(h) \/ GiveUp(h)
      PROVE  UNCHANGED <<lock, Resident, Serving>>
  <2>1. UNCHANGED <<lock, backend>>
    BY <1>4 DEF ReadBody, Activate, Verify, SaveLoading, StartupExit, BecomeReady,
                Deadline, GiveUp
  <2>2. UNCHANGED Serving
    BY <1>0, <1>4, SameServing
    DEF ReadBody, Activate, Verify, SaveLoading, StartupExit, BecomeReady,
        Deadline, GiveUp, Reply, Goto, TypeOK
  <2> QED
    BY <1>1, <2>1, <2>2
<1>5. ASSUME NEW h \in Handlers, Stop(h) \/ Abandon(h)
      PROVE  Abstract!Next \/ UNCHANGED <<lock, Resident, Serving>>
  <2>1. UNCHANGED <<lock, Serving>>
    BY <1>0, <1>5, SameServing
    DEF Stop, Abandon, StopSignal, StopWait, StopKill, Reply, Goto, TypeOK
  <2>2. Resident' = {} \/ UNCHANGED Resident
    <3>1. CASE \/ StopSignal(h, "stopping", "stopWait", "loading")
               \/ StopSignal(h, "abandoning", "abandonWait", "timedOut")
      BY <1>0, <1>1, <3>1, SameResident DEF StopSignal, Alive, TypeOK, Process
    <3>2. CASE \/ StopKill(h, "stopWait", "loading")
               \/ StopKill(h, "abandonWait", "timedOut")
      BY <1>0, <1>1, <3>2, ExitsUnloads DEF StopKill, Tracked, TypeOK
    <3>3. CASE \/ StopWait(h, "stopWait", "loading")
               \/ StopWait(h, "abandonWait", "timedOut")
      BY <1>1, <3>3 DEF StopWait
    <3> QED
      BY <1>5, <3>1, <3>2, <3>3 DEF Stop, Abandon
  <2> QED
    BY <2>1, <2>2 DEF Abstract!Next, Abstract!Unload, Resident, Serving
<1>6. ASSUME NEW h \in Handlers, Launch(h)
      PROVE  Abstract!Next \/ UNCHANGED <<lock, Resident, Serving>>
  <2>1. UNCHANGED <<lock, Serving>>
    BY <1>0, <1>6, SameServing DEF Launch, Reply, Goto, TypeOK
  <2>2. CASE UNCHANGED backend
    BY <1>1, <2>1, <2>2
  <2>3. CASE ~UNCHANGED backend
    <3>1. PICK p \in Procs :
             backend' = [backend EXCEPT ![p] =
                           [state |-> "starting", model |-> job[h].model,
                            runtime |-> job[h].runtime, told |-> FALSE]]
      BY <1>6, <2>3 DEF Launch
    <3>2. /\ lock = h
          /\ process = None
          /\ job[h].model \in Models
      BY <1>0, <1>6 DEF Launch, LockInv, StepInv
    <3>3. \A q \in Procs : ~Alive(q)
      BY <1>0, <3>2 DEF OneBackend
    <3>4. Resident = {}
      BY <3>3 DEF Resident
    <3>5. Resident' = {<<p, job[h].model>>}
      <4>1. \A q \in Procs : Alive(q)' <=> q = p
        BY <1>0, <3>1, <3>3 DEF Alive, TypeOK
      <4>2. backend'[p].model = job[h].model
        BY <1>0, <3>1 DEF TypeOK
      <4> QED
        BY <4>1, <4>2 DEF Resident
    <3> QED
      BY <2>1, <3>2, <3>4, <3>5
      DEF Abstract!Next, Abstract!Load, Resident, Serving
  <2> QED
    BY <2>2, <2>3
<1>7. ASSUME NEW h \in Handlers, ProbeBroken(h) PROVE Abstract!Next
  <2>1. UNCHANGED <<lock, Serving>>
    BY <1>0, <1>7, SameServing DEF ProbeBroken, Reply, TypeOK
  <2>2. Resident' = {}
    BY <1>0, <1>7, ExitsUnloads DEF ProbeBroken, Tracked, TypeOK
  <2> QED
    BY <2>1, <2>2 DEF Abstract!Next, Abstract!Unload, Resident, Serving
<1>8. ASSUME NEW h \in Handlers, Forward(h)
      PROVE  Abstract!Next \/ UNCHANGED <<lock, Resident, Serving>>
  <2>1. UNCHANGED <<lock, job, backend, Resident>>
    BY <1>1, <1>8 DEF Forward
  <2>2. CASE Reply(h, "503")
    BY <1>0, <1>8, <2>1, <2>2, SameServing DEF Forward, Goto, Reply, TypeOK
  <2>3. CASE Goto(h, "forwarding", "relaying") /\ Tracked
    <3>1. /\ lock = h
          /\ <<process, job[h].model>> \in Resident
          /\ process \in Procs
          /\ job[h].model \in Models
      BY <1>0, <2>3
      DEF Goto, LockInv, StepInv, TrackInv, Tracked, Resident, TypeOK
    <3>2. Serving' = [Serving EXCEPT ![h] = job[h].model]
      BY <1>0, <2>1, <2>3 DEF Goto, Serving, TypeOK
    <3> QED
      BY <2>1, <3>1, <3>2 DEF Abstract!Next, Abstract!Serve, Resident, Serving
  <2> QED
    BY <1>8, <2>2, <2>3 DEF Forward
<1>9. ASSUME NEW h \in Handlers, \/ RelayPlain(h) \/ RelayStream(h)
                                 \/ RelayBroken(h) \/ RelayAbandoned(h)
      PROVE  Abstract!Next
  <2>1. /\ UNCHANGED <<lock, job, backend>>
        /\ pc[h] = "relaying"
        /\ pc' = [pc EXCEPT ![h] = "releasing"]
    BY <1>9 DEF RelayPlain, RelayStream, RelayBroken, RelayAbandoned, Reply
  <2>2. lock = h
    BY <1>0, <2>1 DEF LockInv
  <2>3. Serving' = [Serving EXCEPT ![h] = None]
    BY <1>0, <2>1 DEF Serving, TypeOK
  <2> QED
    BY <1>1, <2>1, <2>2, <2>3
    DEF Abstract!Next, Abstract!Finish, Resident, Serving
<1>10. ASSUME NEW h \in Handlers, Release(h) PROVE Abstract!Next
  <2>1. lock = h /\ pc[h] = "releasing"
    BY <1>0, <1>10 DEF Release, Goto, LockInv
  <2>2. UNCHANGED Serving
    BY <1>0, <1>10, SameServing DEF Release, Goto, TypeOK
  <2> QED
    BY <1>1, <1>10, <2>1, <2>2
    DEF Abstract!Next, Abstract!End, Release, Resident, Serving
<1>11. ASSUME NEW p \in Procs, BackendUp(p)
       PROVE  UNCHANGED <<lock, Resident, Serving>>
  <2>1. UNCHANGED Resident
    BY <1>0, <1>11, SameResident DEF BackendUp, Alive, TypeOK, Process
  <2> QED
    BY <1>11, <2>1 DEF BackendUp, Serving
<1>12. ASSUME NEW p \in Procs, BackendExit(p) PROVE Abstract!Next
  <2>1. Resident' = {}
    BY <1>0, <1>12, ExitsUnloads DEF BackendExit
  <2> QED
    BY <1>12, <2>1
    DEF BackendExit, Abstract!Next, Abstract!Unload, Resident, Serving
<1>13. ASSUME Crash PROVE Abstract!Next
  <2>1. Resident' = {}
    BY <1>13 DEF Crash, Resident, Alive, NoProcess
  <2>2. Serving' = [h \in Handlers |-> None]
    BY <1>13 DEF Crash, Serving
  <2> QED
    BY <1>13, <2>1, <2>2
    DEF Crash, Abstract!Next, Abstract!Reset, Resident, Serving
<1>14. ASSUME \/ Restart \/ UNCHANGED vars
              \/ \E h \in Handlers : GenerationEnds(h)
       PROVE  UNCHANGED <<lock, Resident, Serving>>
  <2>1. UNCHANGED <<lock, pc, job, backend>>
    BY <1>14 DEF Restart, vars, GenerationEnds
  <2> QED
    BY <1>1, <2>1 DEF Serving
<1> QED
  BY <1>3, <1>4, <1>5, <1>6, <1>7, <1>8, <1>9, <1>10, <1>11, <1>12, <1>13,
     <1>14 DEF Next, Handle

\* The gateway implements the serial switch: whatever the threads, the timeouts,
\* the crashes and the dying backends do.
THEOREM ImplementsAbstract == Spec => ImplementsSerialSwitch
BY RefineInit, RefineStep, Invariance, PTL
DEF Spec, ImplementsSerialSwitch, Abstract!Spec
-----------------------------------------------------------------------------
(***************************************************************************)
(* The state file.                                                         *)
(***************************************************************************)

\* Nobody is in a transaction while the gateway is down.  Where the file may be
\* behind: between the forgetting of a backend and the next save_state; from then
\* to the end of the startup it says "loading".
UpInv == ~up => \A h \in Handlers : pc[h] = "idle"

FileInv ==
    up /\ ~StateDirMayFail =>
        /\ file.status = "ready" =>
              file.model = active \/ \E h \in Handlers : pc[h] = "loading"
        /\ \A h \in Handlers :
              pc[h] \in {"launching", "waiting", "abandoning", "abandonWait", "timedOut"} =>
                  file.status = "loading"

\* Only a restart brings the gateway up.
LEMMA UpStep == TypeOK /\ UpInv /\ [Next]_vars => UpInv' /\ (up' => up \/ Restart)
<1> SUFFICES ASSUME TypeOK, UpInv, [Next]_vars PROVE UpInv' /\ (up' => up \/ Restart)
  OBVIOUS
<1>1. ASSUME NEW h \in Handlers, Receive(h) \/ ReadBody(h) \/ Handle(h) PROVE up /\ up'
  BY <1>1 DEF UpInv, Receive, Refuse, Busy, Acquire, ReadBody, Handle, Activate, Verify,
     Stop, Abandon, StopSignal, StopWait, StopKill, SaveLoading, Launch, StartupExit,
     BecomeReady, ProbeBroken, Deadline, GiveUp, Forward, RelayPlain, RelayStream,
     RelayBroken, RelayAbandoned, Release, Goto
<1> QED
  BY <1>1 DEF UpInv, Next, vars, BackendUp, BackendExit, GenerationEnds, Crash, Restart

LEMMA FileStep ==
    ASSUME IInv, UpInv, FileInv, [Next]_vars
    PROVE  FileInv'
<1> SUFFICES ASSUME up', ~StateDirMayFail PROVE FileInv'
  BY DEF FileInv
<1> USE DEF IInv, TypeOK
<1>1. CASE Restart
  BY <1>1 DEF Restart, Save, FileInv, UpInv
<1>2. CASE up
  <2> USE DEF FileInv, LockInv, Goto, Reply, Save, SaveFails, Forget, gateway
  <2> HIDE DEF IInv
  <2>0. TypeOK /\ LockInv
    BY DEF IInv
  <2>1. ASSUME NEW h \in Handlers, Receive(h) \/ ReadBody(h) \/ Activate(h) \/ Verify(h)
        PROVE  FileInv'
    BY <1>2, <2>0, <2>1 DEF Receive, Refuse, Busy, Acquire, ReadBody, Activate, Verify
  <2>2. ASSUME NEW h \in Handlers, Stop(h) PROVE FileInv'
    BY <1>2, <2>0, <2>2 DEF Stop, StopSignal, StopWait, StopKill
  <2>3. ASSUME NEW h \in Handlers, Abandon(h) PROVE FileInv'
    BY <1>2, <2>0, <2>3 DEF Abandon, StopSignal, StopWait, StopKill
  <2>4. ASSUME NEW h \in Handlers, SaveLoading(h) PROVE FileInv'
    BY <1>2, <2>0, <2>4 DEF SaveLoading
  <2>5. ASSUME NEW h \in Handlers, Launch(h) PROVE FileInv'
    BY <1>2, <2>0, <2>5 DEF Launch
  <2>6. ASSUME NEW h \in Handlers, StartupExit(h) \/ BecomeReady(h) PROVE FileInv'
    BY <1>2, <2>0, <2>6 DEF StartupExit, BecomeReady
  <2>7. ASSUME NEW h \in Handlers, ProbeBroken(h) \/ Deadline(h) \/ GiveUp(h)
        PROVE  FileInv'
    BY <1>2, <2>0, <2>7 DEF ProbeBroken, Deadline, GiveUp
  <2>8. ASSUME NEW h \in Handlers, RelayPlain(h) PROVE FileInv'
    BY <1>2, <2>0, <2>8 DEF RelayPlain
  <2>9. ASSUME NEW h \in Handlers,
               \/ Forward(h) \/ RelayStream(h) \/ RelayBroken(h) \/ RelayAbandoned(h)
               \/ Release(h) \/ GenerationEnds(h)
        PROVE  FileInv'
    BY <1>2, <2>0, <2>9 DEF Forward, RelayStream, RelayBroken, RelayAbandoned, Release,
                            GenerationEnds
  <2>10. ASSUME NEW p \in Procs, BackendUp(p) \/ BackendExit(p) PROVE FileInv'
    BY <1>2, <2>10 DEF BackendUp, BackendExit
  <2>11. CASE UNCHANGED vars
    BY <1>2, <2>11 DEF vars
  <2>12. ~Crash
    BY DEF Crash
  <2> HIDE DEF FileInv
  <2> QED
    BY <1>1, <2>1, <2>2, <2>3, <2>4, <2>5, <2>6, <2>7, <2>8, <2>9, <2>10, <2>11, <2>12
       DEF Next, Handle
<1> QED
  BY <1>1, <1>2, UpStep DEF IInv

\* While the state directory accepts writes, a file that says "ready" names the
\* model the gateway holds, whenever no transaction is open: every way out of
\* activate() that changes the active model has written the file after it.
THEOREM FileIsActive == Spec => []FileNamesActive
<1>1. Init => UpInv /\ FileInv
  BY DEF Init, UpInv, FileInv
<1>2. IInv /\ UpInv /\ FileInv /\ [Next]_vars => UpInv' /\ FileInv'
  BY UpStep, FileStep DEF IInv
<1>3. IInv /\ FileInv => FileNamesActive
  BY DEF IInv, TypeOK, LockInv, FileInv, FileNamesActive
<1> QED
  BY <1>1, <1>2, <1>3, Invariance, PTL DEF Spec
===============================================================================
