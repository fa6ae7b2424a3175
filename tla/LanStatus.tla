------------------------------- MODULE LanStatus -------------------------------
(***************************************************************************)
(* GET /ui/status and /v1/host/status of the LAN gateway.  do_GET takes no *)
(* lock: status() reads the attributes of the gateway one after the other  *)
(* while a handler thread may be switching the backend.  session_started_at*)
(* is read three times, the last time for a subtraction that None cannot   *)
(* take part in.                                                           *)
(***************************************************************************)
EXTENDS LanGateway

VARIABLES
    at,     \* where the reader is in status()
    snap,   \* the answer it is building
    quiet   \* no transaction was open, and no crash, since it started

statusVars == <<at, snap, quiet>>
allVars == <<vars, statusVars>>

Reading == {"label", "active", "started", "test", "subtract", "requests",
            "runtime", "last"}

NoSnap == [label |-> "idle", active |-> None, started |-> FALSE,
           elapsed |-> "zero", requests |-> 0, runtime |-> NoRuntime,
           last |-> None]
Snap == [label : {"ready", "idle"}, active : Models \cup {None},
         started : BOOLEAN, elapsed : {"zero", "measured"},
         requests : 0..MaxRequests, runtime : Runtimes,
         last : Models \cup {None}]

StatusInit ==
    /\ Init
    /\ at = "none"
    /\ snap = NoSnap
    /\ quiet = TRUE

-----------------------------------------------------------------------------
\* The gateway moves; a crash takes the reader with it.
GatewayStep ==
    /\ Next
    /\ IF up' THEN UNCHANGED <<at, snap>> ELSE at' = "none" /\ snap' = NoSnap
    /\ quiet' = (quiet /\ lock' = None /\ up')

Quietly == UNCHANGED <<vars, quiet>>

\* A request for the status arrives; the path and the token are checked.
StatusArrives ==
    /\ up
    /\ at \in {"none", "sent", "broken"}
    /\ at' = "label"
    /\ snap' = NoSnap
    /\ quiet' = (lock = None)
    /\ UNCHANGED vars

\* "ready" if gateway.active else "idle", evaluated by do_GET.
ReadLabel ==
    /\ at = "label"
    /\ at' = "active"
    /\ snap' = [snap EXCEPT !.label = IF active # None THEN "ready" ELSE "idle"]
    /\ Quietly

ReadActive ==
    /\ at = "active"
    /\ at' = "started"
    /\ snap' = [snap EXCEPT !.active = active]
    /\ Quietly

ReadStarted ==
    /\ at = "started"
    /\ at' = "test"
    /\ snap' = [snap EXCEPT !.started = session.started]
    /\ Quietly

\* ... if self.session_started_at else 0
TestStarted ==
    /\ at = "test"
    /\ at' = IF session.started THEN "subtract" ELSE "requests"
    /\ UNCHANGED snap
    /\ Quietly

\* round(now - self.session_started_at, 3): a TypeError if it is None by now.
Subtract ==
    /\ at = "subtract"
    /\ \/ /\ session.started
          /\ at' = "requests"
          /\ snap' = [snap EXCEPT !.elapsed = "measured"]
       \/ /\ ~session.started
          /\ at' = "broken"
          /\ UNCHANGED snap
    /\ Quietly

ReadRequests ==
    /\ at = "requests"
    /\ at' = "runtime"
    /\ snap' = [snap EXCEPT !.requests = session.requests]
    /\ Quietly

\* Mutant: the settings are taken from the request being served.
ReadRuntime_OfJob ==
    /\ at = "runtime"
    /\ at' = "last"
    /\ \E h \in Handlers : snap' = [snap EXCEPT !.runtime = job[h].runtime]
    /\ Quietly

ReadRuntime ==
    /\ at = "runtime"
    /\ at' = "last"
    /\ snap' = [snap EXCEPT !.runtime = runtime]
    /\ Quietly

ReadLast ==
    /\ at = "last"
    /\ at' = "sent"
    /\ snap' = [snap EXCEPT !.last = session.last]
    /\ Quietly

Read == ReadLabel \/ ReadActive \/ ReadStarted \/ TestStarted \/ Subtract
        \/ ReadRequests \/ ReadRuntime \/ ReadLast

StatusNext == GatewayStep \/ StatusArrives \/ Read

StatusSpec == StatusInit /\ [][StatusNext]_allVars

-----------------------------------------------------------------------------
\* An answer assembled while no transaction was open is the gateway's state,
\* all of it at one moment: nothing but a transaction writes what status()
\* reads, not even the exit of the backend.
QuietStatusIsExact ==
    at = "sent" /\ quiet =>
        snap = [label |-> IF active # None THEN "ready" ELSE "idle",
                active |-> active, started |-> session.started,
                elapsed |-> IF session.started THEN "measured" ELSE "zero",
                requests |-> session.requests, runtime |-> runtime,
                last |-> session.last]
================================================================================
