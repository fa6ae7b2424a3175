---------------------------- MODULE DomesticGateway ----------------------------
(***************************************************************************)
(* The authenticated gateway of scripts/domesticllm-gateway.py: handler    *)
(* threads that wait for one of the slots of a backend port, open one      *)
(* connection to it, relay, and give the slot back in a finally clause.    *)
(* Backends and clients are the environment: a backend refuses, drops or   *)
(* cuts a connection, a client leaves or stops reading.                    *)
(***************************************************************************)
EXTENDS Integers, FiniteSets

CONSTANTS
    Threads,        \* handler threads
    Ports,          \* backend ports
    Default,        \* --backend-port
    Fast,           \* --fast-backend-port, or None
    Concurrency,    \* Concurrency[p]: the slots of port p
    None            \* Python's None

ASSUME ThreadAssumption == IsFiniteSet(Threads)
ASSUME PortAssumption == None \notin Ports /\ Ports = {Default, Fast} \ {None}
                         /\ Default \in Ports
ASSUME ConcurrencyAssumption == Concurrency \in [Ports -> Nat \ {0}]

VARIABLES
    pc,         \* pc[t]: where thread t is in _proxy
    client,     \* client[t]: "reads", "gone", or "stalls": connected, but no
                \* write to it gets through
    body,       \* body[t]: what the request asks for
    slot,       \* slot[t]: the port whose semaphore t waits for or has
    acquired,   \* acquired[t]: the local variable of _proxy
    value,      \* value[p]: the counter of the semaphore of port p
    backend,    \* backend[t]: the port t has an open connection to, or None
    reply,      \* reply[t]: what the client of t has been sent
    dropped     \* history: the backend reset or closed t's connection unanswered

vars == <<pc, client, body, slot, acquired, value, backend, reply, dropped>>

-----------------------------------------------------------------------------
\* A body that names a fast model, one whose "model" cannot be looked up in a
\* set (a list, an object), any other (none, another model, not JSON); and a
\* request whose head raises: a target that is no URL, a key that is not ASCII.
Bodies == {"fast", "unhashable", "other", "malformed"}

\* Nothing yet; 400, 401, 404 or 413; 429; 502; the backend's answer; a part of
\* it; a part of it followed by a 502 with headers of its own.
Replies == {"none", "refused", "429", "502", "ok", "cut", "mixed"}

\* backend_port_for_request: the lookup raises for an unhashable model.
Raises(b) == b = "unhashable" /\ Fast # None
PortFor(b) == IF b = "fast" /\ Fast # None THEN Fast ELSE Default

\* The exceptions of _proxy that no clause of its try statement catches.
Escapes(b) == b = "malformed" \/ Raises(b)

Init ==
    /\ pc = [t \in Threads |-> "idle"]
    /\ client = [t \in Threads |-> "gone"]
    /\ body = [t \in Threads |-> "other"]
    /\ slot = [t \in Threads |-> None]
    /\ acquired = [t \in Threads |-> FALSE]
    /\ value = Concurrency
    /\ backend = [t \in Threads |-> None]
    /\ reply = [t \in Threads |-> "none"]
    /\ dropped = [t \in Threads |-> FALSE]

Goto(t, from, to) ==
    /\ pc[t] = from
    /\ pc' = [pc EXCEPT ![t] = to]

\* A write blocks, without a timeout, while the client does not read; what is
\* written to a client that has gone is lost (BrokenPipe, swallowed).
Send(t, what) ==
    /\ client[t] # "stalls"
    /\ reply' = [reply EXCEPT ![t] = IF client[t] = "gone" THEN @ ELSE what]

-----------------------------------------------------------------------------
Arrive(t, b) ==
    /\ Goto(t, "idle", "checking")
    /\ client' = [client EXCEPT ![t] = "reads"]
    /\ body' = [body EXCEPT ![t] = b]
    /\ reply' = [reply EXCEPT ![t] = "none"]
    /\ dropped' = [dropped EXCEPT ![t] = FALSE]
    /\ UNCHANGED <<slot, acquired, value, backend>>

\* Ahead of the try statement: urlsplit and compare_digest raise for a
\* malformed head, and the handler ends without a word; missing authorization,
\* an unknown route, a bad length are refused.
Check(t) ==
    /\ \/ body[t] = "malformed" /\ Goto(t, "checking", "idle") /\ UNCHANGED reply
       \/ body[t] # "malformed" /\ Goto(t, "checking", "idle") /\ Send(t, "refused")
       \/ body[t] # "malformed" /\ Goto(t, "checking", "reading") /\ UNCHANGED reply
    /\ UNCHANGED <<client, body, slot, acquired, value, backend, dropped>>

\* The body is read before a slot is asked for.  A read that ends early with
\* the connection yields a short body, which is not JSON; bad chunks are
\* reported as 502; a reset is swallowed; a model that cannot be looked up, or
\* JSON nested too deep, escapes.
ReadBody(t) ==
    /\ pc[t] = "reading"
    /\ \/ /\ ~Raises(body[t])
          /\ Goto(t, "reading", "waiting")
          /\ slot' = [slot EXCEPT ![t] = PortFor(body[t])]
          /\ UNCHANGED <<body, reply>>
       \/ /\ client[t] = "gone"
          /\ Goto(t, "reading", "waiting")
          /\ body' = [body EXCEPT ![t] = "other"]
          /\ slot' = [slot EXCEPT ![t] = Default]
          /\ UNCHANGED reply
       \/ /\ Goto(t, "reading", "close")
          /\ Send(t, "502")
          /\ UNCHANGED <<body, slot>>
       \/ /\ Raises(body[t]) \/ client[t] = "gone"
          /\ Goto(t, "reading", "close")
          /\ UNCHANGED <<body, slot, reply>>
    /\ UNCHANGED <<client, acquired, value, backend, dropped>>

\* slot.acquire(timeout) takes a slot, or gives up while there is none.
Acquire(t) ==
    /\ Goto(t, "waiting", "request")
    /\ value[slot[t]] > 0
    /\ value' = [value EXCEPT ![slot[t]] = @ - 1]
    /\ acquired' = [acquired EXCEPT ![t] = TRUE]
    /\ UNCHANGED <<client, body, slot, backend, reply, dropped>>

\* Mutants: the result of acquire is ignored; the default lane's slots stand
\* for every lane's.
GiveUp_Proceeds(t) ==
    /\ Goto(t, "waiting", "request")
    /\ value[slot[t]] = 0
    /\ UNCHANGED <<client, body, slot, acquired, value, backend, reply, dropped>>
GiveUp_DefaultLane(t) ==
    /\ Goto(t, "waiting", "busy")
    /\ value[Default] = 0
    /\ UNCHANGED <<client, body, slot, acquired, value, backend, reply, dropped>>

GiveUp(t) ==
    /\ Goto(t, "waiting", "busy")
    /\ value[slot[t]] = 0
    /\ UNCHANGED <<client, body, slot, acquired, value, backend, reply, dropped>>

\* Mutant: the 429 is not sent.
Busy_Silent(t) ==
    /\ Goto(t, "busy", "close")
    /\ UNCHANGED <<client, body, slot, acquired, value, backend, reply, dropped>>

\* By the time the 429 is written another thread may have released a slot.
Busy(t) ==
    /\ Goto(t, "busy", "close")
    /\ Send(t, "429")
    /\ UNCHANGED <<client, body, slot, acquired, value, backend, dropped>>

\* The request is sent; the backend may reset the connection meanwhile, which
\* is taken for the client's doing and swallowed.
Connect(t) ==
    /\ \/ Goto(t, "request", "response") /\ UNCHANGED dropped
       \/ Goto(t, "request", "close") /\ dropped' = [dropped EXCEPT ![t] = TRUE]
    /\ backend' = [backend EXCEPT ![t] = PortFor(body[t])]
    /\ UNCHANGED <<client, body, slot, acquired, value, reply>>

\* Nobody listens on the port, or the request cannot be sent in time.
Unavailable(t) ==
    /\ Goto(t, "request", "close")
    /\ Send(t, "502")
    /\ UNCHANGED <<client, body, slot, acquired, value, backend, dropped>>

\* The backend answers; it is silent until the timeout or sends no HTTP; or it
\* drops the connection, which is swallowed too.
Response(t) ==
    /\ \/ Goto(t, "response", "relay") /\ UNCHANGED <<reply, dropped>>
       \/ Goto(t, "response", "close") /\ Send(t, "502") /\ UNCHANGED dropped
       \/ /\ Goto(t, "response", "close")
          /\ dropped' = [dropped EXCEPT ![t] = TRUE]
          /\ UNCHANGED reply
    /\ UNCHANGED <<client, body, slot, acquired, value, backend>>

\* The relay ends with the backend's answer, before it, or in a 502 of its own.
\* It may also go on for ever: the timeout is one of each read of the backend,
\* and a write to a client that does not read has none.
Relay(t) ==
    /\ Goto(t, "relay", "close")
    /\ \E what \in {"ok", "cut", "mixed"} : Send(t, what)
    /\ UNCHANGED <<client, body, slot, acquired, value, backend, dropped>>

-----------------------------------------------------------------------------
\* Mutants of the finally clause: the slot is given back only after a complete
\* answer; it is given back whether or not it was taken.
Release_AfterSuccess(t) ==
    /\ Goto(t, "release", "idle")
    /\ value' = IF acquired[t] /\ reply[t] = "ok"
                THEN [value EXCEPT ![slot[t]] = @ + 1] ELSE value
    /\ acquired' = [acquired EXCEPT ![t] = FALSE]
    /\ slot' = [slot EXCEPT ![t] = None]
    /\ UNCHANGED <<client, body, backend, reply, dropped>>
Release_Always(t) ==
    /\ Goto(t, "release", "idle")
    /\ value' = IF slot[t] # None
                THEN [value EXCEPT ![slot[t]] = @ + 1] ELSE value
    /\ acquired' = [acquired EXCEPT ![t] = FALSE]
    /\ slot' = [slot EXCEPT ![t] = None]
    /\ UNCHANGED <<client, body, backend, reply, dropped>>

\* The finally clause: the connection first, then the slot.
Close(t) ==
    /\ Goto(t, "close", "release")
    /\ backend' = [backend EXCEPT ![t] = None]
    /\ UNCHANGED <<client, body, slot, acquired, value, reply, dropped>>

Release(t) ==
    /\ Goto(t, "release", "idle")
    /\ value' = IF acquired[t]
                THEN [value EXCEPT ![slot[t]] = @ + 1] ELSE value
    /\ acquired' = [acquired EXCEPT ![t] = FALSE]
    /\ slot' = [slot EXCEPT ![t] = None]
    /\ UNCHANGED <<client, body, backend, reply, dropped>>

-----------------------------------------------------------------------------
ClientStalls(t) ==
    /\ pc[t] # "idle"
    /\ client[t] = "reads"
    /\ client' = [client EXCEPT ![t] = "stalls"]
    /\ UNCHANGED <<pc, body, slot, acquired, value, backend, reply, dropped>>

ClientLeaves(t) ==
    /\ pc[t] # "idle"
    /\ client[t] # "gone"
    /\ client' = [client EXCEPT ![t] = "gone"]
    /\ UNCHANGED <<pc, body, slot, acquired, value, backend, reply, dropped>>

\* The steps a thread comes to by itself once its client lets writes through:
\* no wait in them is longer than the configured timeout.
Bounded(t) ==
    \/ Check(t) \/ Acquire(t) \/ GiveUp(t) \/ Busy(t)
    \/ Connect(t) \/ Unavailable(t) \/ Close(t) \/ Release(t)

\* The steps that wait for what a peer sends, for as long as it goes on sending.
Transfer(t) == ReadBody(t) \/ Response(t) \/ Relay(t)

Next ==
    \E t \in Threads :
        \/ Bounded(t) \/ Transfer(t)
        \/ \E b \in Bodies : Arrive(t, b)
        \/ ClientStalls(t) \/ ClientLeaves(t)

Spec == Init /\ [][Next]_vars

\* Threads run.  Nothing makes a client read or leave, and nothing makes a
\* backend that sends a byte within each timeout come to an end.
FairSpec == Spec /\ \A t \in Threads : WF_vars(Bounded(t))

-----------------------------------------------------------------------------
Holders(p) == {t \in Threads : acquired[t] /\ slot[t] = p}
Connected(p) == {t \in Threads : backend[t] = p}

\* Every variable keeps its type; a BoundedSemaphore is never released above
\* its initial value.
TypeOK ==
    /\ pc \in [Threads -> {"idle", "checking", "reading", "waiting", "busy",
                           "request", "response", "relay", "close", "release"}]
    /\ client \in [Threads -> {"reads", "stalls", "gone"}]
    /\ body \in [Threads -> Bodies]
    /\ slot \in [Threads -> Ports \cup {None}]
    /\ acquired \in [Threads -> BOOLEAN]
    /\ value \in [Ports -> Nat]
    /\ \A p \in Ports : value[p] <= Concurrency[p]
    /\ backend \in [Threads -> Ports \cup {None}]
    /\ reply \in [Threads -> Replies]
    /\ dropped \in [Threads -> BOOLEAN]

\* No path through _proxy loses a slot or makes one: what is missing from a
\* semaphore is held by a request in progress.
SlotsConserved ==
    /\ \A p \in Ports : value[p] + Cardinality(Holders(p)) = Concurrency[p]
    /\ \A t \in Threads : acquired[t] => pc[t] # "idle"

\* A backend never has more connections open than its configured concurrency:
\* the connection is closed before the slot is given back.
ConnectionsBounded ==
    \A p \in Ports : Cardinality(Connected(p)) <= Concurrency[p]

GivesUp(t) == pc[t] # "busy" /\ pc'[t] = "busy"
Refused(t) == reply[t] # "429" /\ reply'[t] = "429"
OthersFill(t) ==
    LET lane == PortFor(body[t])
    IN  t \notin Holders(lane) /\ Cardinality(Holders(lane)) = Concurrency[lane]

\* An acquire gives up only at a moment at which every slot of the lane that was
\* asked for is held by another request, and only then "model is busy" is said,
\* by a request that has no slot.
BusyOnlyWhenFull ==
    [][ \A t \in Threads :
          /\ GivesUp(t) => OthersFill(t)
          /\ Refused(t) => pc[t] = "busy" /\ ~acquired[t] ]_vars

\* A lane that is full for ever is full of unfinished business: one of its slots
\* is held by a request whose backend never ends its answer or whose client
\* never reads it.  No slot is lost, and no other wait keeps one.
LaneFrees ==
    \A p \in Ports :
        \/ []<>(value[p] > 0)
        \/ \E t \in Threads :
              <>[](/\ t \in Holders(p)
                   /\ pc[t] \in {"response", "relay"} \/ client[t] = "stalls")

\* A client that stayed until its handler ended is left without any reply only
\* if the backend dropped the connection made for it, or if the request is one
\* that raises an exception _proxy does not catch.
SilentOnlyWhenDropped ==
    \A t \in Threads :
        pc[t] = "idle" /\ client[t] # "gone" /\ reply[t] = "none" =>
            dropped[t] \/ Escapes(body[t])
===============================================================================
