------------------------------ MODULE Pds4Gateway ------------------------------
(***************************************************************************)
(* The PDS4 gateway of pds4/gateway.py beside the lane commands.  A handler*)
(* thread reads routes.json once, decides, and then talks to port 8085     *)
(* whoever serves it by then; the backend does not look at the model name. *)
(***************************************************************************)
EXTENDS FastLane

CONSTANTS Clients   \* handler threads of the gateway

VARIABLES
    at,         \* at[c]: where thread c is in do_POST
    asked,      \* asked[c]: the model its client asked for
    by,         \* by[c]: the process that is answering, as server["primary"]
    reply,      \* reply[c]: what the client has been sent
    quiet,      \* quiet[c]: no switch held the lock during the request
    current     \* current[c]: the routes it read were those of the lane's file

gatewayVars == <<at, asked, by, reply, quiet, current>>
allVars == <<vars, gatewayVars>>

Reply == {"none", "400", "409", "502", "503", "ok", "mixed"}

GatewayInit ==
    /\ Init
    /\ at = [c \in Clients |-> "idle"]
    /\ asked = [c \in Clients |-> None]
    /\ by = [c \in Clients |-> NoServer]
    /\ reply = [c \in Clients |-> "none"]
    /\ quiet = [c \in Clients |-> TRUE]
    /\ current = [c \in Clients |-> TRUE]

\* A command or its environment moves.
LaneStep ==
    /\ Next
    /\ quiet' = [c \in Clients |-> quiet[c] /\ lock' = None]
    /\ UNCHANGED <<at, asked, by, reply, current>>

\* The thread answers and ends.
Sent(c, code) ==
    /\ at' = [at EXCEPT ![c] = "idle"]
    /\ reply' = [reply EXCEPT ![c] = code]
    /\ asked' = [asked EXCEPT ![c] = None]
    /\ by' = [by EXCEPT ![c] = NoServer]
    /\ quiet' = [quiet EXCEPT ![c] = TRUE]
    /\ current' = [current EXCEPT ![c] = TRUE]

Forward(c, m) ==
    /\ at' = [at EXCEPT ![c] = "connecting"]
    /\ reply' = [reply EXCEPT ![c] = "none"]
    /\ asked' = [asked EXCEPT ![c] = m]
    /\ by' = by
    /\ quiet' = [quiet EXCEPT ![c] = lock = None]
    /\ current' = [current EXCEPT ![c] = routes["fast"] = lane["fast"]]

\* Mutant: a lane that is not ready for the model is used all the same.
Route_AnyModel(c, m) ==
    LET fast == routes["fast"] IN
    /\ at[c] = "idle"
    /\ \/ Sent(c, "400")
       \/ fast.status # "ready" /\ Sent(c, "503")
       \/ fast.status = "ready" /\ Forward(c, m)
    /\ UNCHANGED vars

(***************************************************************************)
(* do_POST up to the backend: a malformed request or an untranslatable one *)
(* is a 400, a lane that warms the model a 503, any other lane a 409.      *)
(***************************************************************************)
Route(c, m) ==
    LET fast == routes["fast"] IN
    /\ at[c] = "idle"
    /\ \/ Sent(c, "400")
       \/ fast.status = "warming" /\ fast.model = m /\ Sent(c, "503")
       \/ ~(fast.status \in {"ready", "warming"} /\ fast.model = m) /\ Sent(c, "409")
       \/ fast = Ready(m) /\ Forward(c, m)
    /\ UNCHANGED vars

\* A backend that is still loading answers 503 by itself.
Connect(c) ==
    /\ at[c] = "connecting"
    /\ \/ /\ server["primary"].ready
          /\ by' = [by EXCEPT ![c] = server["primary"]]
          /\ at' = [at EXCEPT ![c] = "relaying"]
          /\ UNCHANGED <<asked, reply, quiet, current>>
       \/ server["primary"] # NoServer /\ ~server["primary"].ready /\ Sent(c, "503")
       \/ server["primary"] = NoServer /\ Sent(c, "502")
    /\ UNCHANGED vars

\* The answer is relayed; if the backend dies under it an error follows, in
\* front of the response headers or behind them.
Relay(c) ==
    /\ at[c] = "relaying"
    /\ \/ server["primary"] = by[c] /\ Sent(c, "ok")
       \/ \E code \in {"502", "mixed"} : Sent(c, code)
    /\ UNCHANGED vars

GatewayNext ==
    \/ LaneStep
    \/ \E c \in Clients : Connect(c) \/ Relay(c) \/ \E m \in Models : Route(c, m)

GatewaySpec == GatewayInit /\ [][GatewayNext]_allVars

-----------------------------------------------------------------------------
Answers(c) == at[c] = "relaying" /\ reply[c] = "none" /\ reply'[c] = "ok"

\* A request that no switch overlaps and that has read the routes of the lane as
\* it is recorded is answered, if it is answered, by the model it names.  Promised
\* under the conditions of ReadyAnswers.
CurrentAnswerIsAsked ==
    [][\A c \in Clients :
          Answers(c) /\ quiet[c] /\ current[c] => by[c].weights = asked[c]]_allVars

\* tests/test_pds4_gateway.py, test_non_active_fast_model_is_not_loaded: a
\* request for a model that is not the active one is refused.  A request that
\* no switch overlaps is answered, if it is answered, by the model it names.
QuietAnswerIsAsked ==
    [][\A c \in Clients : Answers(c) /\ quiet[c] => by[c].weights = asked[c]]_allVars
===============================================================================
