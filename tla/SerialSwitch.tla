----------------------------- MODULE SerialSwitch -----------------------------
(***************************************************************************)
(* What the LAN gateway promises its users, without locks, threads, files  *)
(* or time: one transaction at a time, at most one resident backend, a new *)
(* backend only after the previous one has gone and only on behalf of the  *)
(* open transaction, and an answer that comes from a resident backend of   *)
(* the requested model.                                                    *)
(***************************************************************************)
CONSTANTS Handlers, Procs, Models, None

VARIABLES
    holder,     \* the transaction in progress, or None
    resident,   \* the backends in memory, as <<process, model>> pairs
    serving     \* serving[h]: the model whose answer h is relaying, or None

vars == <<holder, resident, serving>>

Init ==
    /\ holder = None
    /\ resident = {}
    /\ serving = [h \in Handlers |-> None]

Begin(h) ==
    /\ holder = None
    /\ holder' = h
    /\ UNCHANGED <<resident, serving>>

Load(h) ==
    /\ holder = h
    /\ resident = {}
    /\ \E p \in Procs, m \in Models : resident' = {<<p, m>>}
    /\ UNCHANGED <<holder, serving>>

\* A backend may exit at any time, by itself or because it was told to.
Unload ==
    /\ resident' = {}
    /\ UNCHANGED <<holder, serving>>

Serve(h) ==
    /\ holder = h
    /\ \E p \in Procs, m \in Models :
          /\ <<p, m>> \in resident
          /\ serving' = [serving EXCEPT ![h] = m]
    /\ UNCHANGED <<holder, resident>>

Finish(h) ==
    /\ holder = h
    /\ serving' = [serving EXCEPT ![h] = None]
    /\ UNCHANGED <<holder, resident>>

End(h) ==
    /\ holder = h
    /\ serving[h] = None
    /\ holder' = None
    /\ UNCHANGED <<resident, serving>>

Reset ==
    /\ holder' = None
    /\ resident' = {}
    /\ serving' = [h \in Handlers |-> None]

Next ==
    \/ \E h \in Handlers : Begin(h) \/ Load(h) \/ Serve(h) \/ Finish(h) \/ End(h)
    \/ Unload
    \/ Reset

Spec == Init /\ [][Next]_vars
===============================================================================
