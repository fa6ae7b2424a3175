------------------------ MODULE DomesticGatewayProofs ------------------------
(***************************************************************************)
(* Proofs about DomesticGateway, for any number of threads, any one or two *)
(* ports and any concurrency: slots are neither lost nor made, a backend   *)
(* has no more connections than slots, an acquire gives up only on a full  *)
(* lane, and who is sent nothing had a backend that dropped its connection *)
(* or a request that raises an exception nothing catches.                  *)
(***************************************************************************)
EXTENDS DomesticGateway, FiniteSetTheorems, TLAPS

\* How the local variables of a thread follow its place in _proxy: a slot is
\* held from Acquire to Release, the connection within that, and the port is
\* that of the body throughout.
LocalInv ==
    \A t \in Threads :
        /\ pc[t] \in {"idle", "checking", "reading", "waiting", "busy"} => ~acquired[t]
        /\ pc[t] \in {"waiting", "busy", "request", "response", "relay"} =>
              slot[t] = PortFor(body[t])
        /\ pc[t] \in {"request", "response", "relay"} => acquired[t]
        /\ acquired[t] => slot[t] \in Ports
        /\ backend[t] # None => acquired[t] /\ backend[t] = slot[t]
        /\ pc[t] \in {"idle", "release"} => backend[t] = None

IInv == TypeOK /\ SlotsConserved /\ LocalInv

\* backend_port_for_request returns a port that has a semaphore.
LEMMA PortForType == \A b \in Bodies : PortFor(b) \in Ports
  BY PortAssumption DEF PortFor

LEMMA HoldersFinite ==
  ASSUME NEW p
  PROVE  IsFiniteSet(Holders(p)) /\ Cardinality(Holders(p)) \in Nat
  <1>1. Holders(p) \in SUBSET Threads
    BY DEF Holders
  <1>2. IsFiniteSet(Holders(p))
    BY <1>1, ThreadAssumption, FS_Subset
  <1> QED
    BY <1>2, FS_CardinalityType

LEMMA InitInv == Init => IInv
  <1> SUFFICES ASSUME Init PROVE IInv
    OBVIOUS
  <1> USE DEF Init
  <1>1. TypeOK
    BY ConcurrencyAssumption DEF TypeOK, Bodies, Replies
  <1>2. ASSUME NEW p \in Ports
        PROVE  value[p] + Cardinality(Holders(p)) = Concurrency[p]
    <2>1. Holders(p) = {}
      BY DEF Holders
    <2> QED
      BY <2>1, FS_EmptySet, ConcurrencyAssumption
  <1>3. SlotsConserved
    BY <1>2 DEF SlotsConserved
  <1>4. LocalInv
    BY DEF LocalInv
  <1> QED
    BY <1>1, <1>3, <1>4 DEF IInv

\* A step that leaves the semaphores and what is held alone conserves slots.
LEMMA Untouched ==
  ASSUME IInv, UNCHANGED <<value, acquired>>,
         \A t \in Threads : acquired[t] => slot'[t] = slot[t],
         \A t \in Threads : acquired[t] => pc'[t] # "idle"
  PROVE  SlotsConserved'
  <1>1. \A p \in Ports : Holders(p)' = Holders(p)
    BY DEF Holders, LocalInv, IInv
  <1> QED
    BY <1>1 DEF SlotsConserved, IInv

\* Acquire moves one slot from the semaphore to the thread.
LEMMA AcquireInv ==
  ASSUME IInv, NEW t \in Threads, Acquire(t)
  PROVE  IInv'
  <1> USE DEF Acquire, Goto, IInv
  <1> PICK q \in Ports : q = slot[t]
    BY PortForType DEF LocalInv, TypeOK
  <1>1. q \in Ports /\ ~acquired[t] /\ pc[t] = "waiting"
    BY DEF LocalInv
  <1>2. t \notin Holders(q)
    BY <1>1 DEF Holders
  <1>3. Holders(q)' = Holders(q) \cup {t}
    BY <1>1 DEF Holders, TypeOK
  <1>4. \A p \in Ports \ {q} : Holders(p)' = Holders(p)
    BY <1>1 DEF Holders, TypeOK
  <1>5. Cardinality(Holders(q)') = Cardinality(Holders(q)) + 1
    BY <1>2, <1>3, FS_AddElement, HoldersFinite
  <1>6. ASSUME NEW p \in Ports
        PROVE  value'[p] + Cardinality(Holders(p)') = Concurrency[p]
    <2>1. value[p] \in Nat /\ Cardinality(Holders(p)) \in Nat
      BY HoldersFinite DEF TypeOK
    <2>2. value[p] + Cardinality(Holders(p)) = Concurrency[p]
      BY DEF SlotsConserved
    <2>3. CASE p = q
      BY <1>1, <1>5, <2>1, <2>2, <2>3 DEF TypeOK
    <2>4. CASE p # q
      BY <1>1, <1>4, <2>2, <2>4 DEF TypeOK
    <2> QED
      BY <2>3, <2>4
  <1>7. SlotsConserved'
    BY <1>1, <1>6 DEF SlotsConserved, TypeOK
  <1>8. value' \in [Ports -> Nat] /\ \A p \in Ports : value'[p] <= Concurrency[p]
    <2>1. value[q] \in Nat /\ value[q] - 1 \in Nat
      BY <1>1 DEF TypeOK
    <2>2. value' \in [Ports -> Nat]
      BY <1>1, <2>1 DEF TypeOK
    <2>3. \A p \in Ports : value'[p] <= value[p]
      BY <1>1, <2>1 DEF TypeOK
    <2> QED
      BY <2>2, <2>3, ConcurrencyAssumption DEF TypeOK
  <1>9. TypeOK'
    BY <1>8 DEF TypeOK
  <1>10. LocalInv'
    BY <1>1, PortForType DEF LocalInv, TypeOK
  <1> QED
    BY <1>7, <1>9, <1>10

\* Release moves it back, if there is one.
LEMMA ReleaseInv ==
  ASSUME IInv, NEW t \in Threads, Release(t)
  PROVE  IInv'
  <1> USE DEF Release, Goto, IInv
  <1>1. pc[t] = "release" /\ backend[t] = None
    BY DEF LocalInv
  <1>2. LocalInv'
    BY <1>1 DEF LocalInv, TypeOK
  <1>3. CASE ~acquired[t]
    <2>1. \A p \in Ports : Holders(p)' = Holders(p)
      BY <1>3 DEF Holders, TypeOK
    <2>2. SlotsConserved'
      BY <1>3, <2>1 DEF SlotsConserved, TypeOK
    <2>3. TypeOK'
      BY <1>3 DEF TypeOK
    <2> QED
      BY <1>2, <2>2, <2>3
  <1>4. CASE acquired[t]
    <2> PICK q \in Ports : q = slot[t]
      BY <1>4 DEF LocalInv
    <2>1. q \in Ports /\ t \in Holders(q)
      BY <1>4 DEF Holders
    <2>a. /\ ~acquired'[t]
          /\ \A u \in Threads \ {t} : acquired'[u] = acquired[u] /\ slot'[u] = slot[u]
          /\ value' = [value EXCEPT ![q] = value[q] + 1]
      BY <1>4 DEF TypeOK
    <2>2. Holders(q)' = Holders(q) \ {t}
      BY <2>a DEF Holders
    <2>3. \A p \in Ports \ {q} : Holders(p)' = Holders(p)
      BY <2>a DEF Holders
    <2>4. Cardinality(Holders(q)') = Cardinality(Holders(q)) - 1
      BY <2>1, <2>2, FS_RemoveElement, HoldersFinite
    <2>5. ASSUME NEW p \in Ports
          PROVE  value'[p] + Cardinality(Holders(p)') = Concurrency[p]
      <3>1. value[p] \in Nat /\ Cardinality(Holders(p)) \in Nat
        BY HoldersFinite DEF TypeOK
      <3>2. value[p] + Cardinality(Holders(p)) = Concurrency[p]
        BY DEF SlotsConserved
      <3>3. CASE p = q
        <4>1. value'[q] = value[q] + 1
          BY <2>1, <2>a DEF TypeOK
        <4>2. Cardinality(Holders(p)') = Cardinality(Holders(p)) - 1
          BY <2>4, <3>3
        <4> QED
          BY <3>1, <3>2, <3>3, <4>1, <4>2, ConcurrencyAssumption
      <3>4. CASE p # q
        BY <2>a, <2>3, <3>2, <3>4 DEF TypeOK
      <3> QED
        BY <3>3, <3>4
    <2>6. SlotsConserved'
      BY <2>5 DEF SlotsConserved, TypeOK
    <2>7. value' \in [Ports -> Nat]
      <3>1. value[q] \in Nat /\ value[q] + 1 \in Nat
        BY <2>1 DEF TypeOK
      <3> QED
        BY <1>4, <2>1, <3>1 DEF TypeOK
    <2>8. ASSUME NEW p \in Ports
          PROVE  value'[p] <= Concurrency[p]
      <3>1. IsFiniteSet(Holders(p)')
        BY HoldersFinite, <2>2, <2>3, FS_RemoveElement
      <3>2. Cardinality(Holders(p)') \in Nat
        BY <3>1, FS_CardinalityType
      <3>3. value'[p] \in Nat /\ Concurrency[p] \in Nat
        BY <2>7, ConcurrencyAssumption
      <3> QED
        BY <2>5, <3>2, <3>3
    <2>9. TypeOK'
      BY <2>7, <2>8 DEF TypeOK
    <2> QED
      BY <1>2, <2>6, <2>9
  <1> QED
    BY <1>3, <1>4

\* Every other step of a thread or of its client.
LEMMA OtherInv ==
  ASSUME IInv, NEW t \in Threads,
         \/ \E b \in Bodies : Arrive(t, b)
         \/ Check(t) \/ ReadBody(t) \/ GiveUp(t) \/ Busy(t) \/ Connect(t) \/ Unavailable(t)
         \/ Response(t) \/ Relay(t) \/ Close(t)
         \/ ClientStalls(t) \/ ClientLeaves(t)
  PROVE  IInv'
  <1> USE DEF IInv, Goto, Send
  <1>1. CASE \E b \in Bodies : Arrive(t, b)
    <2> PICK b \in Bodies : Arrive(t, b)
      BY <1>1
    <2> USE DEF Arrive
    <2>1. TypeOK'
      BY DEF TypeOK, Replies
    <2>2. LocalInv'
      BY DEF LocalInv, TypeOK
    <2>3. SlotsConserved'
      BY Untouched DEF LocalInv, TypeOK, SlotsConserved
    <2> QED
      BY <2>1, <2>2, <2>3
  <1>2. CASE ReadBody(t)
    <2> USE <1>2 DEF ReadBody
    <2>1. PortFor(body[t]) \in Ports /\ Default \in Ports /\ PortFor("other") = Default
      BY PortForType, PortAssumption DEF TypeOK, PortFor
    <2>2. TypeOK'
      BY <2>1 DEF TypeOK, Replies, Bodies
    <2>3. LocalInv'
      BY <2>1 DEF LocalInv, TypeOK
    <2>4. SlotsConserved'
      BY Untouched DEF LocalInv, TypeOK, SlotsConserved
    <2> QED
      BY <2>2, <2>3, <2>4
  <1>11. CASE Check(t)
    <2> USE <1>11 DEF Check
    <2>1. TypeOK'
      BY DEF TypeOK, Replies
    <2>2. LocalInv'
      BY DEF LocalInv, TypeOK
    <2>3. SlotsConserved'
      BY Untouched DEF LocalInv, TypeOK, SlotsConserved
    <2> QED
      BY <2>1, <2>2, <2>3
  <1>12. CASE GiveUp(t)
    <2> USE <1>12 DEF GiveUp
    <2>1. TypeOK'
      BY DEF TypeOK
    <2>2. LocalInv'
      BY DEF LocalInv, TypeOK
    <2>3. SlotsConserved'
      BY Untouched DEF LocalInv, TypeOK, SlotsConserved
    <2> QED
      BY <2>1, <2>2, <2>3
  <1>3. CASE Busy(t)
    <2> USE <1>3 DEF Busy
    <2>1. TypeOK'
      BY DEF TypeOK, Replies
    <2>2. LocalInv'
      BY DEF LocalInv, TypeOK
    <2>3. SlotsConserved'
      BY Untouched DEF LocalInv, TypeOK, SlotsConserved
    <2> QED
      BY <2>1, <2>2, <2>3
  <1>4. CASE Connect(t)
    <2> USE <1>4 DEF Connect
    <2>1. TypeOK'
      BY PortForType DEF TypeOK
    <2>2. LocalInv'
      BY PortForType, PortAssumption DEF LocalInv, TypeOK
    <2>3. SlotsConserved'
      BY Untouched DEF LocalInv, TypeOK, SlotsConserved
    <2> QED
      BY <2>1, <2>2, <2>3
  <1>5. CASE Unavailable(t)
    <2> USE <1>5 DEF Unavailable
    <2>1. TypeOK'
      BY DEF TypeOK, Replies
    <2>2. LocalInv'
      BY DEF LocalInv, TypeOK
    <2>3. SlotsConserved'
      BY Untouched DEF LocalInv, TypeOK, SlotsConserved
    <2> QED
      BY <2>1, <2>2, <2>3
  <1>6. CASE Response(t)
    <2> USE <1>6 DEF Response
    <2>1. TypeOK'
      BY DEF TypeOK, Replies
    <2>2. LocalInv'
      BY DEF LocalInv, TypeOK
    <2>3. SlotsConserved'
      BY Untouched DEF LocalInv, TypeOK, SlotsConserved
    <2> QED
      BY <2>1, <2>2, <2>3
  <1>7. CASE Relay(t)
    <2> USE <1>7 DEF Relay
    <2>1. TypeOK'
      BY DEF TypeOK, Replies
    <2>2. LocalInv'
      BY DEF LocalInv, TypeOK
    <2>3. SlotsConserved'
      BY Untouched DEF LocalInv, TypeOK, SlotsConserved
    <2> QED
      BY <2>1, <2>2, <2>3
  <1>8. CASE Close(t)
    <2> USE <1>8 DEF Close
    <2>1. TypeOK'
      BY DEF TypeOK
    <2>2. LocalInv'
      BY DEF LocalInv, TypeOK
    <2>3. SlotsConserved'
      BY Untouched DEF LocalInv, TypeOK, SlotsConserved
    <2> QED
      BY <2>1, <2>2, <2>3
  <1>9. CASE ClientStalls(t)
    <2> USE <1>9 DEF ClientStalls
    <2>1. TypeOK'
      BY DEF TypeOK
    <2>2. LocalInv'
      BY DEF LocalInv, TypeOK
    <2>3. SlotsConserved'
      BY Untouched DEF LocalInv, TypeOK, SlotsConserved
    <2> QED
      BY <2>1, <2>2, <2>3
  <1>10. CASE ClientLeaves(t)
    <2> USE <1>10 DEF ClientLeaves
    <2>1. TypeOK'
      BY DEF TypeOK
    <2>2. LocalInv'
      BY DEF LocalInv, TypeOK
    <2>3. SlotsConserved'
      BY Untouched DEF LocalInv, TypeOK, SlotsConserved
    <2> QED
      BY <2>1, <2>2, <2>3
  <1> QED
    BY <1>1, <1>2, <1>3, <1>4, <1>5, <1>6, <1>7, <1>8, <1>9, <1>10, <1>11, <1>12

LEMMA StepInv == IInv /\ [Next]_vars => IInv'
  <1> SUFFICES ASSUME IInv, [Next]_vars PROVE IInv'
    OBVIOUS
  <1>1. CASE UNCHANGED vars
    <2>1. \A p \in Ports : Holders(p)' = Holders(p)
      BY <1>1 DEF vars, Holders
    <2> QED
      BY <1>1, <2>1 DEF vars, IInv, TypeOK, SlotsConserved, LocalInv
  <1>2. CASE Next
    <2> PICK t \in Threads :
          Bounded(t) \/ Transfer(t) \/ (\E b \in Bodies : Arrive(t, b))
          \/ ClientStalls(t) \/ ClientLeaves(t)
      BY <1>2 DEF Next
    <2>1. CASE Acquire(t)
      BY <2>1, AcquireInv
    <2>2. CASE Release(t)
      BY <2>2, ReleaseInv
    <2> QED
      BY <2>1, <2>2, OtherInv DEF Bounded, Transfer
  <1> QED
    BY <1>1, <1>2

THEOREM Inductive == Spec => []IInv
  BY InitInv, StepInv, PTL DEF Spec

\* Every variable keeps its type and no semaphore exceeds its initial value:
\* the release of a BoundedSemaphore never raises.
THEOREM TypeCorrect == Spec => []TypeOK
  <1>1. IInv => TypeOK
    BY DEF IInv
  <1> QED
    BY <1>1, Inductive, PTL

\* No path through _proxy loses or makes a slot.
THEOREM Conservation == Spec => []SlotsConserved
  <1>1. IInv => SlotsConserved
    BY DEF IInv
  <1> QED
    BY <1>1, Inductive, PTL

\* A backend has at most as many connections as its port has slots.
THEOREM BoundedConnections == Spec => []ConnectionsBounded
  <1>1. ASSUME IInv PROVE ConnectionsBounded
    <2> SUFFICES ASSUME NEW p \in Ports
                 PROVE  Cardinality(Connected(p)) <= Concurrency[p]
      BY DEF ConnectionsBounded
    <2>1. Connected(p) \in SUBSET Holders(p)
      BY <1>1, PortAssumption DEF IInv, LocalInv, Connected, Holders
    <2>2. IsFiniteSet(Connected(p)) /\ Cardinality(Connected(p)) <= Cardinality(Holders(p))
      BY <2>1, HoldersFinite, FS_Subset
    <2>3. Cardinality(Connected(p)) \in Nat /\ Cardinality(Holders(p)) \in Nat
      BY <2>2, HoldersFinite, FS_CardinalityType
    <2>4. value[p] \in Nat /\ value[p] + Cardinality(Holders(p)) = Concurrency[p]
      BY <1>1 DEF IInv, TypeOK, SlotsConserved
    <2> QED
      BY <2>2, <2>3, <2>4, ConcurrencyAssumption
  <1> QED
    BY <1>1, Inductive, PTL

\* An acquire gives up only at a moment at which other requests hold all slots
\* of its lane, and "model is busy" is said only by a request whose acquire gave
\* up; by the time it is said a slot may be free again.
THEOREM RefusedOnlyWhenFull == Spec => BusyOnlyWhenFull
  <1>1. ASSUME IInv, [Next]_vars, NEW t \in Threads, GivesUp(t)
        PROVE  OthersFill(t)
    <2>1. GiveUp(t)
      BY <1>1 DEF Next, Bounded, Transfer, vars, IInv, TypeOK, Arrive, Check, ReadBody,
                  Acquire, GiveUp, Busy, Connect, Unavailable, Response, Relay, Close,
                  Release, ClientStalls, ClientLeaves, Goto, GivesUp
    <2>2. /\ value[slot[t]] = 0
          /\ slot[t] = PortFor(body[t])
          /\ ~acquired[t]
          /\ slot[t] \in Ports
      BY <1>1, <2>1, PortForType DEF GiveUp, Goto, IInv, LocalInv, TypeOK
    <2>3. value[slot[t]] + Cardinality(Holders(slot[t])) = Concurrency[slot[t]]
      BY <1>1, <2>2 DEF IInv, SlotsConserved
    <2>4. Cardinality(Holders(slot[t])) \in Nat
      BY HoldersFinite
    <2> QED
      BY <2>2, <2>3, <2>4, ConcurrencyAssumption DEF OthersFill, Holders
  <1>2. ASSUME IInv, [Next]_vars, NEW t \in Threads, Refused(t)
        PROVE  pc[t] = "busy" /\ ~acquired[t]
    <2>1. Busy(t)
      BY <1>2 DEF Next, Bounded, Transfer, vars, IInv, TypeOK, Arrive, Check, ReadBody,
                  Acquire, GiveUp, Busy, Connect, Unavailable, Response, Relay, Close,
                  Release, ClientStalls, ClientLeaves, Send, Refused
    <2> QED
      BY <1>2, <2>1 DEF Busy, Goto, IInv, LocalInv
  <1>3. IInv /\ [Next]_vars =>
          [\A t \in Threads :
             /\ GivesUp(t) => OthersFill(t)
             /\ Refused(t) => pc[t] = "busy" /\ ~acquired[t]]_vars
    BY <1>1, <1>2
  <1> QED
    BY <1>3, Inductive, PTL DEF Spec, BusyOnlyWhenFull

\* A reply is decided on when a thread goes to its finally clause: what follows
\* writes nothing to the client.
SilentInv ==
    \A t \in Threads :
        pc[t] \in {"close", "release", "idle"} /\ client[t] # "gone" /\ reply[t] = "none" =>
            dropped[t] \/ Escapes(body[t])

LEMMA SilentStep == IInv /\ SilentInv /\ [Next]_vars => SilentInv'
  <1> SUFFICES ASSUME IInv, SilentInv, [Next]_vars PROVE SilentInv'
    OBVIOUS
  <1> USE DEF SilentInv
  <1>1. CASE UNCHANGED vars
    BY <1>1 DEF vars
  <1>2. CASE Next
    <2> PICK t \in Threads :
          Bounded(t) \/ Transfer(t) \/ (\E b \in Bodies : Arrive(t, b))
          \/ ClientStalls(t) \/ ClientLeaves(t)
      BY <1>2 DEF Next
    <2> SUFFICES ASSUME NEW u \in Threads, pc'[u] \in {"close", "release", "idle"},
                        client'[u] # "gone", reply'[u] = "none"
                 PROVE  dropped'[u] \/ Escapes(body'[u])
      OBVIOUS
    <2> USE DEF Goto, Send, IInv, TypeOK
    <2>1. CASE \E b \in Bodies : Arrive(t, b)
      BY <2>1 DEF Arrive
    <2>2. CASE Check(t)
      BY <2>2 DEF Check, Escapes
    <2>3. CASE ReadBody(t)
      BY <2>3 DEF ReadBody, Escapes
    <2>4. CASE Acquire(t) \/ GiveUp(t)
      BY <2>4 DEF Acquire, GiveUp
    <2>5. CASE Busy(t)
      BY <2>5 DEF Busy
    <2>6. CASE Connect(t)
      BY <2>6 DEF Connect
    <2>7. CASE Unavailable(t)
      BY <2>7 DEF Unavailable
    <2>8. CASE Response(t)
      BY <2>8 DEF Response
    <2>9. CASE Relay(t)
      BY <2>9 DEF Relay
    <2>10. CASE Close(t) \/ Release(t)
      BY <2>10 DEF Close, Release
    <2>11. CASE ClientStalls(t) \/ ClientLeaves(t)
      BY <2>11 DEF ClientStalls, ClientLeaves
    <2> QED
      BY <2>1, <2>2, <2>3, <2>4, <2>5, <2>6, <2>7, <2>8, <2>9, <2>10, <2>11
         DEF Bounded, Transfer
  <1> QED
    BY <1>1, <1>2

\* A client that stayed until its handler ended and was sent nothing had a backend
\* that dropped the connection made for it, or sent a request that raises an
\* exception _proxy does not catch: no other path forgets its reply.
THEOREM SilenceExplained == Spec => []SilentOnlyWhenDropped
  <1>1. Init => SilentInv
    BY DEF Init, SilentInv
  <1>2. SilentInv => SilentOnlyWhenDropped
    BY DEF SilentInv, SilentOnlyWhenDropped
  <1> QED
    BY <1>1, <1>2, SilentStep, Inductive, PTL DEF Spec
===============================================================================
