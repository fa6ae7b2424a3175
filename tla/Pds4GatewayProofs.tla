--------------------------- MODULE Pds4GatewayProofs ---------------------------
(***************************************************************************)
(* Proofs about Pds4Gateway, for any number of client threads, commands    *)
(* and models: the gateway does not disturb the lanes, whose theorems hold *)
(* beside it, and a request that no switch overlaps and that has read the  *)
(* lane as it is recorded is answered by the model it names.               *)
(***************************************************************************)
EXTENDS Pds4Gateway, FastLaneProofs

\* A client thread only reads the lane's files: every behaviour of the lanes
\* beside the gateway is one of the lanes alone.
THEOREM GatewayIsHarmless == GatewaySpec => Spec
<1>1. GatewayInit => Init
  BY DEF GatewayInit
<1>2. [GatewayNext]_allVars => [Next]_vars
  BY DEF GatewayNext, LaneStep, Route, Connect, Relay, allVars
<1> QED
  BY <1>1, <1>2, PTL DEF GatewaySpec, Spec

-----------------------------------------------------------------------------
(***************************************************************************)
(* What a request knows as long as no switch has overlapped it.            *)
(***************************************************************************)
Place == {"idle", "connecting", "relaying"}

GatewayTypes ==
    /\ at \in [Clients -> Place] /\ asked \in [Clients -> Models \cup {None}]
    /\ by \in [Clients -> Server] /\ reply \in [Clients -> Reply]
    /\ quiet \in [Clients -> BOOLEAN] /\ current \in [Clients -> BOOLEAN]

\* A request that is under way, has met no switch and was routed by the lane as it
\* is recorded.
Sure(c) == at[c] # "idle" /\ quiet[c] /\ current[c]

\* No switch is at work, the lane is still ready for the model that was asked for,
\* and the process that answers runs it.
SureInv ==
    \A c \in Clients :
        /\ at[c] # "idle" /\ quiet[c] => lock = None
        /\ Sure(c) => lane["fast"] = Ready(asked[c])
        /\ Sure(c) /\ at[c] = "relaying" => by[c].weights = asked[c]

GatewayInv == GatewayTypes /\ SureInv

\* Without a switcher the Fast lane's file stays as it is: a Flash command writes the
\* file of its own lane.
LEMMA RestingLane ==
    ASSUME LaneInv, NoFaults, Next, lock = None, lock' = None
    PROVE  lane'["fast"] = lane["fast"]
<1>1. \A s \in Switchers : pc[s] = "idle" /\ s # None
  BY CommandAssumption DEF LaneInv, LockInv
<1>2. ASSUME NEW s \in Switchers
      PROVE  ~Switch(s) /\ ~Write(s) /\ ~\E m \in Models : Lock(s, m)
  <2>1. pc[s] = "idle" /\ s # None
    BY <1>1
  <2> QED
    BY <2>1 DEF Switch, Lock, Begin, StopPrevious, CanaryEnv, PrimaryEnv, WriteEnv, Unit,
       StartCanary, ProbeCanary, Probe, StopCanary, StartPrimary, ProbePrimary, Promote,
       Commit, Report, Publish, Goto, Trying, Restoring, Writing,
       TryFails, EndsEarly, UndoCanary, UndoPrimary, RestoreEnv, RestartPrevious,
       ProbePrevious, Write, WriteFile, ReadOther, WriteRoutes
<1>3. ASSUME NEW g \in FlashOps, FlashBegin(g) \/ FlashSystemctl(g) \/ Write(g)
      PROVE  lane'["fast"] = lane["fast"]
  <2>1. LaneOf(g) = "flash" /\ lane \in [Lanes -> LaneState] /\ "fast" \in Lanes
    BY Names DEF LaneInv, TypeInv, TypeOK, Lanes
  <2> QED
    BY <1>3, <2>1 DEF FlashBegin, FlashSystemctl, Write, WriteFile, ReadOther, WriteRoutes,
       files
<1>4. \A o \in Commands : ~Interrupt(o)
  BY DEF Interrupt, NoFaults
<1> QED
  BY <1>2, <1>3, <1>4 DEF Next, Commands, Loaded, Exec, UnitEnds, ServerFails, files

LEMMA GatewayInvInit == GatewayInit => GatewayInv
BY DEF GatewayInit, GatewayInv, GatewayTypes, SureInv, Sure, Place, Reply, NoServer, Server

LEMMA SentStep ==
    ASSUME GatewayInv, NEW c \in Clients, NEW code \in Reply, Sent(c, code),
           UNCHANGED vars
    PROVE  GatewayInv'
<1>1. /\ at'[c] = "idle" /\ UNCHANGED <<lock, lane>>
      /\ \A d \in Clients \ {c} :
            /\ at'[d] = at[d] /\ asked'[d] = asked[d] /\ by'[d] = by[d]
            /\ quiet'[d] = quiet[d] /\ current'[d] = current[d]
  BY DEF GatewayInv, GatewayTypes, Sent, vars, files
<1>2. GatewayTypes'
  BY DEF GatewayInv, GatewayTypes, Sent, Place, NoServer, Server
<1>3. SureInv'
  BY <1>1 DEF GatewayInv, SureInv, Sure
<1> QED
  BY <1>2, <1>3 DEF GatewayInv

LEMMA GatewayInvStep ==
    ASSUME LaneInv, NoFaults, GatewayInv, [GatewayNext]_allVars
    PROVE  GatewayInv'
<1>1. CASE LaneStep
  <2>1. GatewayTypes'
    BY <1>1 DEF LaneStep, GatewayInv, GatewayTypes
  <2>2. ASSUME NEW c \in Clients, at'[c] # "idle", quiet'[c]
        PROVE  /\ lock' = None /\ at[c] # "idle" /\ quiet[c]
               /\ lane'["fast"] = lane["fast"]
    <3>1. at[c] # "idle" /\ quiet[c] /\ lock' = None
      BY <1>1, <2>2 DEF LaneStep
    <3>2. lock = None
      BY <3>1 DEF GatewayInv, SureInv
    <3> QED
      BY <1>1, <3>1, <3>2, RestingLane DEF LaneStep
  <2>3. SureInv'
    BY <1>1, <2>2 DEF LaneStep, GatewayInv, SureInv, Sure
  <2> QED
    BY <2>1, <2>3 DEF GatewayInv
<1>2. ASSUME NEW c \in Clients, NEW m \in Models, Route(c, m) PROVE GatewayInv'
  <2>1. CASE \E code \in Reply : Sent(c, code)
    BY <1>2, <2>1, SentStep DEF Route
  <2>2. CASE routes["fast"] = Ready(m) /\ Forward(c, m)
    <3>1. /\ at'[c] = "connecting" /\ asked'[c] = m /\ UNCHANGED <<lock, lane>>
          /\ quiet'[c] = (lock = None)
          /\ current'[c] = (routes["fast"] = lane["fast"])
          /\ \A d \in Clients \ {c} :
                /\ at'[d] = at[d] /\ asked'[d] = asked[d] /\ by'[d] = by[d]
                /\ quiet'[d] = quiet[d] /\ current'[d] = current[d]
      BY <1>2, <2>2 DEF GatewayInv, GatewayTypes, Route, Forward, vars, files
    <3>2. GatewayTypes'
      BY <2>2 DEF GatewayInv, GatewayTypes, Forward, Place, Reply
    <3>3. SureInv'
      BY <2>2, <3>1 DEF GatewayInv, SureInv, Sure
    <3> QED
      BY <3>2, <3>3 DEF GatewayInv
  <2> QED
    BY <1>2, <2>1, <2>2 DEF Route, Reply
<1>3. ASSUME NEW c \in Clients, Connect(c) PROVE GatewayInv'
  <2>1. CASE \E code \in Reply : Sent(c, code)
    BY <1>3, <2>1, SentStep DEF Connect
  <2>2. CASE /\ at[c] = "connecting" /\ server["primary"].ready
             /\ by' = [by EXCEPT ![c] = server["primary"]]
             /\ at' = [at EXCEPT ![c] = "relaying"]
             /\ UNCHANGED <<asked, reply, quiet, current>>
    <3>1. UNCHANGED <<lock, lane>>
      BY <1>3 DEF Connect, vars, files
    <3>2. GatewayTypes'
      <4>1. server["primary"] \in Server
        BY DEF LaneInv, TypeInv, TypeOK, Kinds
      <4> QED
        BY <2>2, <4>1 DEF GatewayInv, GatewayTypes, Place
    <3>3. server["primary"] # NoServer /\ "primary" \in Kinds
      BY <2>2 DEF NoServer, Kinds
    <3>4. Sure(c) => server["primary"].weights = asked[c]
      <4> SUFFICES ASSUME Sure(c) PROVE server["primary"].weights = asked[c]
        OBVIOUS
      <4>1. lock = None /\ lane["fast"] = Ready(asked[c])
        BY DEF GatewayInv, SureInv, Sure
      <4>2. env["primary"] = asked[c]
        BY <4>1 DEF LaneInv, RestInv, Ready
      <4> QED
        BY <3>3, <4>2 DEF LaneInv, ServerInv
    <3>5. SureInv'
      <4>1. /\ at[c] = "connecting" /\ at'[c] = "relaying" /\ by'[c] = server["primary"]
            /\ \A d \in Clients \ {c} : at'[d] = at[d] /\ by'[d] = by[d]
            /\ UNCHANGED <<asked, quiet, current>>
        BY <2>2 DEF GatewayInv, GatewayTypes
      <4> QED
        BY <3>1, <3>4, <4>1 DEF GatewayInv, SureInv, Sure
    <3> QED
      BY <3>2, <3>5 DEF GatewayInv
  <2> QED
    BY <1>3, <2>1, <2>2 DEF Connect, Reply
<1>4. ASSUME NEW c \in Clients, Relay(c) PROVE GatewayInv'
  <2>1. \E code \in Reply : Sent(c, code)
    BY <1>4 DEF Relay, Reply
  <2> QED
    BY <1>4, <2>1, SentStep DEF Relay
<1>5. CASE UNCHANGED allVars
  BY <1>5 DEF allVars, gatewayVars, vars, files, GatewayInv, GatewayTypes, SureInv, Sure
<1> QED
  BY <1>1, <1>2, <1>3, <1>4, <1>5 DEF GatewayNext

\* do_POST of pds4/gateway.py looks at routes.json once and connects later to whoever
\* serves the port.  As long as no lane command is killed, no write before its try
\* block and no step of its rollback fails (NoFaults), this is enough for a request that
\* no switch overlaps, whose routes were those of the lane's file: the answer comes
\* from the model it names, however often servers end and start in between.
THEOREM CurrentAnswers ==
    ASSUME NoFaults PROVE GatewaySpec => CurrentAnswerIsAsked
<1>1. GatewayInit => GatewayInv
  BY GatewayInvInit
<1>2. LaneInv /\ GatewayInv /\ [GatewayNext]_allVars => GatewayInv'
  BY GatewayInvStep
<1>3. GatewayInv =>
        [\A c \in Clients :
            Answers(c) /\ quiet[c] /\ current[c] => by[c].weights = asked[c]]_allVars
  BY DEF GatewayInv, SureInv, Sure, Answers
<1>4. GatewaySpec => []LaneInv
  BY GatewayIsHarmless, LaneInvariant
<1> QED
  BY <1>1, <1>2, <1>3, <1>4, PTL DEF GatewaySpec, CurrentAnswerIsAsked
================================================================================
