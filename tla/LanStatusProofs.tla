---------------------------- MODULE LanStatusProofs ----------------------------
(***************************************************************************)
(* Proofs about LanStatus, for any number of handler threads, processes,   *)
(* models and settings: what the lock-free reader adds does not disturb    *)
(* the gateway, and an answer that no transaction overlapped is exact.     *)
(***************************************************************************)
EXTENDS LanStatus, LanGatewayProofs

USE CatalogAssumption, RuntimeAssumption, ThreadAssumption, BoundAssumption
    DEF CatalogAssumption, RuntimeAssumption, ThreadAssumption, BoundAssumption

\* The reader only reads: every behaviour of the gateway beside its reader is one
\* of the gateway, whose theorems hold here too.
THEOREM ReaderIsHarmless == StatusSpec => Spec
<1>1. StatusInit => Init
  BY DEF StatusInit
<1>2. [StatusNext]_allVars => [Next]_vars
  BY DEF StatusNext, GatewayStep, StatusArrives, Read, ReadLabel, ReadActive,
         ReadStarted, TestStarted, Subtract, ReadRequests, ReadRuntime, ReadLast,
         Quietly, allVars
<1> QED
  BY <1>1, <1>2, PTL DEF StatusSpec, Spec

-----------------------------------------------------------------------------
(***************************************************************************)
(* What the reader has in hand.                                            *)
(***************************************************************************)

\* Where the reader is once it has read a field, from the last one backwards.
AfterLast == {"sent"}
AfterRuntime == AfterLast \cup {"last"}
AfterRequests == AfterRuntime \cup {"runtime"}
AfterElapsed == AfterRequests \cup {"requests"}
AfterStarted == AfterElapsed \cup {"test", "subtract"}
AfterActive == AfterStarted \cup {"started"}
AfterLabel == AfterActive \cup {"active"}

Elapsed == IF session.started THEN "measured" ELSE "zero"

\* As long as nothing but the reader has moved between its reads, each field it has
\* read is the gateway's, and what it has not read is blank.
SnapInv ==
    /\ at \in Reading \cup {"none", "sent", "broken"}
    /\ snap \in Snap
    /\ quiet /\ at \in Reading \cup {"sent"} =>
        /\ lock = None /\ up
        /\ at \in AfterLabel => snap.label = IF active # None THEN "ready" ELSE "idle"
        /\ at \in AfterActive => snap.active = active
        /\ at \in AfterStarted => snap.started = session.started
        /\ at = "subtract" => session.started
        /\ at \in Reading \ AfterElapsed => snap.elapsed = "zero"
        /\ at \in AfterElapsed => snap.elapsed = Elapsed
        /\ at \in AfterRequests => snap.requests = session.requests
        /\ at \in AfterRuntime => snap.runtime = runtime
        /\ at \in AfterLast => snap.last = session.last

\* Without a transaction nothing of what status() reads changes.
LEMMA IdleIsStill ==
    ASSUME IInv, UpInv, Next, up, lock = None, up', lock' = None
    PROVE  UNCHANGED <<active, runtime, session>>
<1>1. \A h \in Handlers : pc[h] = "idle"
  BY DEF IInv, LockInv, TypeOK
<1>2. ASSUME NEW h \in Handlers, Receive(h) PROVE UNCHANGED gateway
  BY <1>2 DEF Receive, Refuse, Busy, Acquire, gateway
<1>3. ASSUME NEW h \in Handlers PROVE ~ReadBody(h) /\ ~Handle(h)
  BY <1>1 DEF ReadBody, Handle, Activate, Verify, Stop, Abandon, StopSignal, StopWait,
     StopKill, SaveLoading, Launch, StartupExit, BecomeReady, ProbeBroken, Deadline,
     GiveUp, Forward, RelayPlain, RelayStream, RelayBroken, RelayAbandoned, Release, Goto
<1>4. ~Crash /\ ~Restart
  BY DEF Crash, Restart
<1>5. UNCHANGED gateway
  BY <1>2, <1>3, <1>4 DEF Next, BackendUp, BackendExit, GenerationEnds
<1> QED
  BY <1>5 DEF gateway

LEMMA NoSnapTyped == NoSnap \in Snap
  BY DEF NoSnap, Snap

LEMMA SnapStep ==
    ASSUME IInv, UpInv, SnapInv, [StatusNext]_allVars, TypeOK'
    PROVE  SnapInv'
<1> USE DEF Reading, AfterLast, AfterRuntime, AfterRequests, AfterElapsed, AfterStarted,
           AfterActive, AfterLabel
<1>0. TypeOK /\ NoSnap \in Snap
  BY NoSnapTyped DEF IInv
<1>1. CASE GatewayStep
  <2>1. CASE up'
    <3>1. at' \in Reading \cup {"none", "sent", "broken"} /\ snap' \in Snap
      BY <1>1, <2>1 DEF GatewayStep, SnapInv
    <3>2. CASE quiet' /\ at' \in Reading \cup {"sent"}
      <4>1. quiet /\ at \in Reading \cup {"sent"} /\ lock' = None /\ UNCHANGED <<at, snap>>
        BY <1>1, <2>1, <3>2 DEF GatewayStep
      <4>2. UNCHANGED <<active, runtime, session>>
        BY <1>1, <2>1, <4>1, IdleIsStill DEF GatewayStep, SnapInv
      <4> QED
        BY <2>1, <3>1, <4>1, <4>2 DEF SnapInv, Elapsed
    <3> QED
      BY <3>1, <3>2 DEF SnapInv
  <2>2. CASE ~up'
    BY <1>0, <1>1, <2>2 DEF GatewayStep, SnapInv
  <2> QED
    BY <2>1, <2>2
<1>2. CASE StatusArrives
  BY <1>0, <1>2 DEF StatusArrives, SnapInv, vars, NoSnap, Snap
<1>3. CASE Read
  <2> USE DEF TypeOK, Session, Snap, SnapInv, Elapsed
  <2>1. UNCHANGED <<vars, quiet>>
    BY <1>3 DEF Read, ReadLabel, ReadActive, ReadStarted, TestStarted, Subtract,
                ReadRequests, ReadRuntime, ReadLast, Quietly
  <2>2. UNCHANGED <<up, lock, active, runtime, session, quiet>>
    BY <2>1 DEF vars, gateway
  <2>3. CASE ReadLabel
    BY <1>0, <2>2, <2>3 DEF ReadLabel
  <2>4. CASE ReadActive
    BY <1>0, <2>2, <2>4 DEF ReadActive
  <2>5. CASE ReadStarted
    BY <1>0, <2>2, <2>5 DEF ReadStarted
  <2>6. CASE TestStarted
    BY <1>0, <2>2, <2>6 DEF TestStarted
  <2>7. CASE Subtract
    BY <1>0, <2>2, <2>7 DEF Subtract
  <2>8. CASE ReadRequests
    BY <1>0, <2>2, <2>8 DEF ReadRequests
  <2>9. CASE ReadRuntime
    BY <1>0, <2>2, <2>9 DEF ReadRuntime
  <2>10. CASE ReadLast
    BY <1>0, <2>2, <2>10 DEF ReadLast
  <2> QED
    BY <1>3, <2>3, <2>4, <2>5, <2>6, <2>7, <2>8, <2>9, <2>10 DEF Read
<1>4. CASE UNCHANGED allVars
  BY <1>4 DEF allVars, vars, gateway, statusVars, SnapInv, Elapsed
<1> QED
  BY <1>1, <1>2, <1>3, <1>4 DEF StatusNext

\* A status that no transaction has overlapped is the state of the gateway, all of
\* it at the moment it is sent, although it was read in eight steps.
THEOREM QuietStatus == StatusSpec => []QuietStatusIsExact
<1>1. StatusInit => SnapInv
  BY NoSnapTyped DEF StatusInit, Init, SnapInv, NoSnap, Reading, AfterLabel, AfterActive,
     AfterStarted, AfterElapsed, AfterRequests, AfterRuntime, AfterLast
<1>2. Spec => [](IInv /\ UpInv)
  <2>1. Init => UpInv
    BY DEF Init, UpInv
  <2>2. IInv /\ UpInv /\ [Next]_vars => UpInv'
    BY UpStep DEF IInv
  <2> QED
    BY <2>1, <2>2, Invariance, PTL DEF Spec
<1>3. IInv /\ UpInv /\ IInv' /\ SnapInv /\ [StatusNext]_allVars => SnapInv'
  BY SnapStep DEF IInv
<1>4. SnapInv => QuietStatusIsExact
  BY DEF SnapInv, QuietStatusIsExact, Snap, Elapsed, Reading,
         AfterLast, AfterRuntime, AfterRequests, AfterElapsed, AfterStarted,
         AfterActive, AfterLabel
<1> QED
  BY <1>1, <1>2, <1>3, <1>4, ReaderIsHarmless, PTL DEF StatusSpec
================================================================================
