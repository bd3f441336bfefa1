------------------------ MODULE EndpointTable_proofs ------------------------
(***************************************************************************)
(* Proofs about the endpoint table, for every table size, every range of   *)
(* port numbers and every first port, and that the table implements the    *)
(* set of endpoints of module Endpoints.  The invariant says what the      *)
(* search finds, before a step and after it; the rest of the refinement is *)
(* the effect of each operation on the abstract variables.                 *)
(***************************************************************************)
EXTENDS EndpointTable, FiniteSetTheorems, TLAPS

USE DEF Slots, Ports, NoSlot

-----------------------------------------------------------------------------
(* Distances on the way of a search.                                       *)

\* The home entry of a port number is an entry.
LEMMA HomeIsSlot == ASSUME NEW p \in Ports PROVE Home(p) \in Slots
  BY TableAssumption DEF Home

\* MCAPI_Next_Port always holds a port number.
LEMMA WrapIsPort == ASSUME NEW n \in Nat PROVE Wrap(n) \in Ports
  BY TableAssumption DEF Wrap

\* Distances are natural numbers, and two entries at the same distance from
\* the home entry of a port are the same entry.
LEMMA DistanceFacts ==
  ASSUME NEW p \in Ports, NEW s \in Slots, NEW t \in Slots
  PROVE  /\ Distance(p, s) \in Nat
         /\ Distance(p, s) = Distance(p, t) => s = t
  BY HomeIsSlot, TableAssumption DEF Distance

\* A search that succeeds ends at an open entry with the right number.
LEMMA FindSound ==
  ASSUME NEW p \in Ports, Find(p) # NoSlot
  PROVE  Find(p) \in Slots /\ IsOpen(Find(p)) /\ port[Find(p)] = p
<1> DEFINE Hit(s) == StopsAt(p, s) /\ IsOpen(s)
<1>1. \E s \in Slots : Hit(s)
  BY DEF Find
<1>2. Find(p) = CHOOSE s \in Slots : Hit(s)
  BY <1>1 DEF Find
<1>3. Find(p) \in Slots /\ Hit(Find(p))
  BY <1>1, <1>2
<1>4. QED
  BY <1>3 DEF StopsAt

\* Under the probe order a search finds the open entry with its number.
LEMMA FindComplete ==
  ASSUME TypeOK, ProbeOrder, NEW s \in Slots, IsOpen(s)
  PROVE  Find(port[s]) = s
<1> DEFINE p == port[s]
           Hit(t) == StopsAt(p, t) /\ IsOpen(t)
<1>1. p \in Ports
  BY DEF TypeOK
<1>2. Hit(s)
  <2>1. ASSUME NEW t \in Slots, port[t] = p
        PROVE  Distance(p, s) <= Distance(p, t)
    <3>1. CASE t = s
      BY <1>1, <3>1, DistanceFacts
    <3>2. CASE t # s
      <4>1. Distance(p, s) < Distance(p, t)
        BY <2>1, <3>2 DEF ProbeOrder
      <4>2. QED
        BY <1>1, <4>1, DistanceFacts
    <3>3. QED
      BY <3>1, <3>2
  <2>2. QED
    BY <2>1 DEF StopsAt
<1>3. ASSUME NEW t \in Slots, Hit(t) PROVE t = s
  <2>1. port[t] = p /\ port[s] = p /\ IsOpen(t)
    BY <1>3 DEF StopsAt
  <2>2. ASSUME t # s PROVE FALSE
    <3>1. /\ Distance(p, s) < Distance(p, t)
          /\ Distance(p, t) < Distance(p, s)
      BY <2>1, <2>2 DEF ProbeOrder
    <3>2. QED
      BY <3>1, <1>1, DistanceFacts
  <2>3. QED
    BY <2>2
<1>4. Find(p) = CHOOSE t \in Slots : Hit(t)
  BY <1>2 DEF Find
<1>5. QED
  BY <1>2, <1>3, <1>4

\* A port has no endpoint exactly when no open entry carries its number.
LEMMA FindFails ==
  ASSUME TypeOK, ProbeOrder, NEW p \in Ports
  PROVE  Find(p) = NoSlot <=> \A s \in Slots : IsOpen(s) => port[s] # p
<1>1. ASSUME Find(p) = NoSlot, NEW s \in Slots, IsOpen(s), port[s] = p
      PROVE  FALSE
  <2>1. Find(p) = s
    BY <1>1, FindComplete
  <2>2. QED
    BY <1>1, <2>1, TableAssumption
<1>2. ASSUME Find(p) # NoSlot
      PROVE  \E s \in Slots : IsOpen(s) /\ port[s] = p
  BY <1>2, FindSound
<1>3. QED
  BY <1>1, <1>2

\* The table is finite.
LEMMA SlotsFinite == ASSUME NEW S \in SUBSET Slots PROVE IsFiniteSet(S)
<1>1. MaxEndpoints - 1 \in Int
  BY TableAssumption
<1>2. IsFiniteSet(Slots)
  BY <1>1, FS_Interval
<1>3. QED
  BY <1>2, FS_Subset

-----------------------------------------------------------------------------
(* The invariant.                                                          *)

\* Where the table starts: everything closed, nothing queued, nobody waiting.
LEMMA InitKeepsInv == Init => TableInv
<1> SUFFICES ASSUME Init PROVE TableInv
  OBVIOUS
<1> USE DEF Init
<1>1. TypeOK
  BY TableAssumption DEF TypeOK
<1>2. \A s \in Slots : ~IsOpen(s)
  BY DEF IsOpen
<1>3. CountIsExact
  <2>1. {s \in Slots : IsOpen(s)} = {}
    BY <1>2
  <2>2. QED
    BY <2>1, FS_EmptySet DEF CountIsExact
<1>4. ProbeOrder /\ NoOpenPortAwaited /\ DataOnlyWhereOpen
  BY <1>2 DEF ProbeOrder, NoOpenPortAwaited, DataOnlyWhereOpen
<1>5. QED
  BY <1>1, <1>3, <1>4 DEF TableInv

\* Taking an entry for a port that has none keeps the invariant.
LEMMA OccupyKeepsInv ==
  ASSUME TableInv, NEW p \in Ports, NEW e \in Slots,
         Find(p) = NoSlot, inUse < MaxEndpoints, Occupy(p, e), nextPort' \in Ports
  PROVE  TableInv'
<1> USE DEF TableInv
<1>1. TypeOK'
  BY TableAssumption DEF TypeOK, Occupy
<1>2. /\ IsOpen(e)' /\ port'[e] = p /\ ~IsOpen(e) /\ queued'[e] = 0
      /\ \A s \in Slots \ {e} : /\ IsOpen(s)' <=> IsOpen(s)
                                /\ port'[s] = port[s]
                                /\ queued'[s] = queued[s]
  BY DEF TypeOK, Occupy, FirstClosed, IsOpen
<1>3. \A s \in Slots : IsOpen(s) => port[s] # p
  BY FindFails
<1>4. ProbeOrder'
  <2> SUFFICES ASSUME NEW s \in Slots, NEW t \in Slots,
                      IsOpen(s)', port'[t] = port'[s], t # s
               PROVE  Distance(port'[s], s) < Distance(port'[s], t)
    BY DEF ProbeOrder, Distance, Home
  <2>1. CASE s = e
    <3>1. ~IsOpen(t) /\ port'[s] = p
      BY <2>1, <1>2, <1>3
    <3>2. Distance(p, e) <= Distance(p, t)
      BY <3>1 DEF Occupy, FirstClosed
    <3>3. QED
      BY <2>1, <3>1, <3>2, DistanceFacts
  <2>2. CASE s # e
    <3>1. IsOpen(s) /\ port'[s] = port[s] /\ port[s] # p
      BY <2>2, <1>2, <1>3
    <3>2. t # e /\ port[t] = port[s]
      BY <3>1, <1>2
    <3>3. QED
      BY <3>1, <3>2 DEF ProbeOrder
  <2>3. QED
    BY <2>1, <2>2
<1>5. CountIsExact'
  <2> DEFINE Before == {s \in Slots : IsOpen(s)}
             After  == {s \in Slots : IsOpen(s)'}
  <2>1. After = Before \cup {e} /\ e \notin Before
    BY <1>2
  <2>2. IsFiniteSet(Before)
    BY SlotsFinite
  <2>3. Cardinality(After) = Cardinality(Before) + 1
    BY <2>1, <2>2, FS_AddElement
  <2>4. inUse' = inUse + 1 /\ inUse = Cardinality(Before)
    BY DEF Occupy, CountIsExact
  <2>5. QED
    BY <2>3, <2>4 DEF CountIsExact
<1>6. NoOpenPortAwaited'
  BY <1>2 DEF NoOpenPortAwaited, Occupy
<1>7. DataOnlyWhereOpen'
  BY <1>2 DEF DataOnlyWhereOpen, TypeOK
<1>8. QED
  BY <1>1, <1>4, <1>5, <1>6, <1>7

\* Closing an entry keeps the invariant: its number stays behind, but only
\* open entries constrain the probe order.
LEMMA DeleteKeepsInv ==
  ASSUME TableInv, NEW p \in Ports, Delete(p)
  PROVE  TableInv'
<1> USE DEF TableInv
<1>1. PICK e \in Slots : e = Find(p) /\ IsOpen(e)
  BY FindSound DEF Delete
<1>2. /\ ~IsOpen(e)' /\ queued'[e] = 0 /\ port' = port
      /\ waiting' = waiting /\ nextPort' = nextPort /\ inUse' = inUse - 1
      /\ \A s \in Slots \ {e} : (IsOpen(s)' <=> IsOpen(s)) /\ queued'[s] = queued[s]
  BY <1>1 DEF Delete, TypeOK, IsOpen
<1>3. CountIsExact' /\ inUse' \in 0 .. MaxEndpoints
  <2> DEFINE Before == {s \in Slots : IsOpen(s)}
             After  == {s \in Slots : IsOpen(s)'}
  <2>1. After = Before \ {e} /\ e \in Before
    BY <1>1, <1>2
  <2>2. IsFiniteSet(Before)
    BY SlotsFinite
  <2>3. Cardinality(After) = Cardinality(Before) - 1 /\ IsFiniteSet(After)
    <3> HIDE DEF Before, After
    <3>1. /\ IsFiniteSet(Before \ {e})
          /\ Cardinality(Before \ {e}) =
               IF e \in Before THEN Cardinality(Before) - 1 ELSE Cardinality(Before)
      BY <2>2, FS_RemoveElement
    <3>2. QED
      BY <2>1, <3>1
  <2>4. Cardinality(After) \in Nat /\ Cardinality(Before) \in Nat
    BY <2>2, <2>3, FS_CardinalityType
  <2>5. inUse = Cardinality(Before) /\ inUse \in 0 .. MaxEndpoints
    BY DEF CountIsExact, TypeOK
  <2>6. inUse' = Cardinality(After)
    BY <1>2, <2>3, <2>5
  <2>7. QED
    BY <1>2, <2>4, <2>5, <2>6, TableAssumption DEF CountIsExact
<1>4. TypeOK'
  BY <1>1, <1>2, <1>3, TableAssumption DEF Delete, TypeOK
<1>5. ProbeOrder'
  <2> SUFFICES ASSUME NEW s \in Slots, NEW t \in Slots,
                      IsOpen(s)', port[t] = port[s], t # s
               PROVE  Distance(port[s], s) < Distance(port[s], t)
    BY <1>2 DEF ProbeOrder, Distance, Home
  <2>1. IsOpen(s)
    BY <1>1, <1>2
  <2>2. QED
    BY <2>1 DEF ProbeOrder
<1>6. NoOpenPortAwaited' /\ DataOnlyWhereOpen'
  BY <1>1, <1>2 DEF NoOpenPortAwaited, DataOnlyWhereOpen, TypeOK
<1>7. QED
  BY <1>3, <1>4, <1>5, <1>6

\* The calls that only look an endpoint up change neither the numbers nor
\* which entries are open, and queue buffers at open entries only.
LEMMA LookupEffect ==
  ASSUME TypeOK, NEW p \in Ports,
         \/ OpenChannel(p) \/ CloseChannel(p) \/ Arrive(p) \/ Receive(p)
         \/ AwaitPort(p) \/ GiveUp(p)
  PROVE  /\ TypeOK' /\ port' = port /\ inUse' = inUse
         /\ \A s \in Slots : /\ IsOpen(s)' <=> IsOpen(s)
                             /\ queued'[s] > 0 => queued[s] > 0 \/ IsOpen(s)
<1>1. CASE OpenChannel(p) \/ CloseChannel(p) \/ Arrive(p) \/ Receive(p)
  <2>1. Find(p) # NoSlot
    BY <1>1 DEF OpenChannel, CloseChannel, Arrive, Receive
  <2>2. PICK e \in Slots : e = Find(p) /\ IsOpen(e)
    BY <2>1, FindSound
  <2>3. CASE OpenChannel(p)
    <3>1. state[e] = "open" /\ state' = [state EXCEPT ![e] = "busy"]
          /\ UNCHANGED <<port, inUse, queued, nextPort, waiting>>
      BY <2>2, <2>3 DEF OpenChannel
    <3>2. QED
      BY <3>1, TableAssumption DEF IsOpen, TypeOK
  <2>4. CASE CloseChannel(p)
    <3>1. state[e] = "busy" /\ state' = [state EXCEPT ![e] = "open"]
          /\ UNCHANGED <<port, inUse, nextPort, waiting>>
      BY <2>2, <2>4 DEF CloseChannel
    <3>2. queued' = queued \/ queued' = [queued EXCEPT ![e] = 0]
      BY <2>2, <2>4 DEF CloseChannel
    <3>3. queued' \in [Slots -> 0 .. MaxQueued]
      <4>1. 0 \in 0 .. MaxQueued
        BY TableAssumption
      <4>2. QED
        BY <3>2, <4>1 DEF TypeOK
    <3>4. ASSUME NEW s \in Slots, queued'[s] > 0 PROVE queued[s] > 0
      <4>1. queued'[s] = queued[s] \/ queued'[s] = 0
        BY <3>2 DEF TypeOK
      <4>2. QED
        BY <3>4, <4>1
    <3>5. state' \in [Slots -> {"closed", "open", "busy"}]
      BY <3>1 DEF TypeOK
    <3>6. \A s \in Slots : IsOpen(s)' <=> IsOpen(s)
      BY <3>1 DEF IsOpen, TypeOK
    <3>7. QED
      BY <3>1, <3>3, <3>4, <3>5, <3>6 DEF TypeOK
  <2>5. CASE Arrive(p)
    <3>1. queued[e] < MaxQueued /\ queued' = [queued EXCEPT ![e] = queued[e] + 1]
          /\ UNCHANGED <<port, inUse, state, nextPort, waiting>>
      BY <2>2, <2>5 DEF Arrive
    <3>2. queued[e] \in 0 .. MaxQueued /\ queued[e] + 1 \in 0 .. MaxQueued
      BY <3>1, TableAssumption DEF TypeOK
    <3>3. queued' \in [Slots -> 0 .. MaxQueued]
      BY <3>1, <3>2 DEF TypeOK
    <3>4. \A s \in Slots : queued'[s] > 0 => queued[s] > 0 \/ IsOpen(s)
      BY <2>2, <3>1 DEF TypeOK
    <3>5. QED
      BY <3>1, <3>3, <3>4 DEF IsOpen, TypeOK
  <2>6. CASE Receive(p)
    <3>1. queued[e] > 0 /\ queued' = [queued EXCEPT ![e] = queued[e] - 1]
          /\ UNCHANGED <<port, inUse, state, nextPort, waiting>>
      BY <2>2, <2>6 DEF Receive
    <3>2. queued[e] \in 0 .. MaxQueued /\ queued[e] - 1 \in 0 .. MaxQueued
      BY <3>1, TableAssumption DEF TypeOK
    <3>3. queued' \in [Slots -> 0 .. MaxQueued]
      BY <3>1, <3>2 DEF TypeOK
    <3>4. \A s \in Slots : queued'[s] > 0 => queued[s] > 0 \/ IsOpen(s)
      BY <2>2, <3>1 DEF TypeOK
    <3>5. QED
      BY <3>1, <3>3, <3>4 DEF IsOpen, TypeOK
  <2>7. QED
    BY <1>1, <2>3, <2>4, <2>5, <2>6
<1>2. CASE AwaitPort(p) \/ GiveUp(p)
  BY <1>2 DEF AwaitPort, GiveUp, IsOpen, TypeOK
<1>3. QED
  BY <1>1, <1>2

\* So they keep the invariant.
LEMMA LookupKeepsInv ==
  ASSUME TableInv, NEW p \in Ports,
         \/ OpenChannel(p) \/ CloseChannel(p) \/ Arrive(p) \/ Receive(p)
         \/ AwaitPort(p) \/ GiveUp(p)
  PROVE  TableInv'
<1> USE DEF TableInv
<1>1. /\ TypeOK' /\ port' = port /\ inUse' = inUse
      /\ \A s \in Slots : /\ IsOpen(s)' <=> IsOpen(s)
                          /\ queued'[s] > 0 => queued[s] > 0 \/ IsOpen(s)
  BY LookupEffect
<1>3. ProbeOrder' /\ CountIsExact'
  <2>1. {s \in Slots : IsOpen(s)'} = {s \in Slots : IsOpen(s)}
    BY <1>1
  <2>2. QED
    BY <1>1, <2>1 DEF ProbeOrder, CountIsExact, Distance, Home
<1>4. NoOpenPortAwaited'
  <2>1. waiting' = waiting \/ AwaitPort(p) \/ waiting' = waiting \ {p}
    BY DEF OpenChannel, CloseChannel, Arrive, Receive, GiveUp
  <2>2. CASE AwaitPort(p)
    BY <1>1, <2>2, FindFails DEF AwaitPort, NoOpenPortAwaited
  <2>3. QED
    BY <1>1, <2>1, <2>2 DEF NoOpenPortAwaited
<1>5. DataOnlyWhereOpen'
  BY <1>1 DEF DataOnlyWhereOpen
<1>6. QED
  BY <1>1, <1>3, <1>4, <1>5

\* A port drawn from MCAPI_Next_Port is a port, and so is the next one.
LEMMA CreateAnyOccupies ==
  ASSUME TypeOK, NEW k \in 0 .. MaxEndpoints, CreateAny(k)
  PROVE  \E p \in Ports, e \in Slots :
           /\ Find(p) = NoSlot /\ inUse < MaxEndpoints
           /\ Occupy(p, e) /\ nextPort' \in Ports
<1>1. Wrap(nextPort + k) \in Ports /\ Wrap(nextPort + k + 1) \in Ports
  <2>1. nextPort + k \in Nat /\ nextPort + k + 1 \in Nat
    BY TableAssumption DEF TypeOK
  <2>2. QED
    BY <2>1, WrapIsPort
<1>2. QED
  BY <1>1 DEF CreateAny

\* Every step keeps the invariant.
LEMMA NextKeepsInv == TableInv /\ [Next]_vars => TableInv'
<1> SUFFICES ASSUME TableInv, [Next]_vars PROVE TableInv'
  OBVIOUS
<1>1. CASE UNCHANGED vars
  <2>1. {s \in Slots : IsOpen(s)}' = {s \in Slots : IsOpen(s)}
    BY <1>1 DEF vars, IsOpen
  <2>2. QED
    BY <1>1, <2>1 DEF vars, TableInv, TypeOK, ProbeOrder, CountIsExact,
                      NoOpenPortAwaited, DataOnlyWhereOpen, IsOpen, Distance, Home
<1>2. ASSUME NEW p \in Ports, CreateAt(p) PROVE TableInv'
  <2>1. PICK e \in Slots : Occupy(p, e)
    BY <1>2 DEF CreateAt
  <2>2. Find(p) = NoSlot /\ inUse < MaxEndpoints /\ nextPort' \in Ports
    BY <1>2 DEF CreateAt, TableInv, TypeOK
  <2>3. QED
    BY <2>1, <2>2, OccupyKeepsInv
<1>3. ASSUME NEW k \in 0 .. MaxEndpoints, CreateAny(k) PROVE TableInv'
  BY <1>3, CreateAnyOccupies, OccupyKeepsInv DEF TableInv
<1>4. ASSUME NEW p \in Ports, Delete(p) PROVE TableInv'
  BY <1>4, DeleteKeepsInv
<1>5. ASSUME NEW p \in Ports,
             \/ OpenChannel(p) \/ CloseChannel(p) \/ Arrive(p) \/ Receive(p)
             \/ AwaitPort(p) \/ GiveUp(p)
      PROVE  TableInv'
  BY <1>5, LookupKeepsInv
<1>6. QED
  BY <1>1, <1>2, <1>3, <1>4, <1>5 DEF Next

\* The table's invariant holds in every reachable state, whatever its size.
THEOREM TableInvariant == Spec => []TableInv
  BY InitKeepsInv, NextKeepsInv, PTL DEF Spec

\* The variables keep to the ranges of the table's fields: in particular the
\* count never exceeds the table and never becomes negative.
THEOREM TypeCorrect == Spec => []TypeOK
<1>1. TableInv => TypeOK
  BY DEF TableInv
<1>2. QED
  BY <1>1, TableInvariant, PTL

\* mcapi_find_endpoint finds every open endpoint, after any sequence of
\* creations and deletions.
THEOREM OpenEndpointsFound == Spec => []OpenIsFound
<1>1. TableInv => OpenIsFound
  BY FindComplete DEF TableInv, OpenIsFound
<1>2. QED
  BY <1>1, TableInvariant, PTL

\* mcapi_endpoint_count is exact, and buffers are queued only at open
\* endpoints.
THEOREM CountAndDataCorrect == Spec => [](CountIsExact /\ DataOnlyWhereOpen)
<1>1. TableInv => CountIsExact /\ DataOnlyWhereOpen
  BY DEF TableInv
<1>2. QED
  BY <1>1, TableInvariant, PTL

\* No call that waits for an endpoint is left behind when it is created.
THEOREM NoWaiterForgotten == Spec => []WaitersAnswered
<1>1. TableInv => WaitersAnswered
  BY FindFails DEF TableInv, TypeOK, NoOpenPortAwaited, WaitersAnswered
<1>2. QED
  BY <1>1, TableInvariant, PTL

-----------------------------------------------------------------------------
(* What the search finds, before and after a step.                         *)

\* Entry s is what the search for p finds.
Holds(p, s) == IsOpen(s) /\ port[s] = p

\* The search finds an entry exactly when it is open and has the number.
FindIsHolds ==
  \A p \in Ports : /\ Find(p) \in Slots \cup {NoSlot}
                   /\ \A s \in Slots : Find(p) = s <=> Holds(p, s)

\* The invariant gives it that meaning.
LEMMA FindMeans == TableInv => FindIsHolds
<1> SUFFICES ASSUME TableInv, NEW p \in Ports
             PROVE  /\ Find(p) \in Slots \cup {NoSlot}
                    /\ \A s \in Slots : Find(p) = s <=> Holds(p, s)
  BY DEF FindIsHolds
<1>1. Find(p) \in Slots \cup {NoSlot}
  BY FindSound
<1>2. ASSUME NEW s \in Slots, Find(p) = s PROVE Holds(p, s)
  <2>1. Find(p) # NoSlot
    BY <1>2, TableAssumption
  <2>2. QED
    BY <1>2, <2>1, FindSound DEF Holds
<1>3. ASSUME NEW s \in Slots, Holds(p, s) PROVE Find(p) = s
  BY <1>3, FindComplete DEF TableInv, Holds
<1>4. QED
  BY <1>1, <1>2, <1>3

\* It still does after a step.
LEMMA FindMeansNext == TableInv' => FindIsHolds'
  BY FindMeans, PTL

\* A step that changes neither the numbers nor which entries are open leaves
\* every search as it is.
LEMMA SameFinds ==
  ASSUME TableInv, TableInv', port' = port,
         \A s \in Slots : IsOpen(s)' <=> IsOpen(s)
  PROVE  \A q \in Ports : Find(q)' = Find(q)
<1>1. FindIsHolds /\ FindIsHolds'
  BY FindMeans, FindMeansNext
<1>2. \A q \in Ports, s \in Slots : Holds(q, s)' <=> Holds(q, s)
  BY DEF Holds
<1>3. QED
  BY <1>1, <1>2 DEF FindIsHolds

\* A new endpoint is found in its entry, all others where they were.
LEMMA OccupyFinds ==
  ASSUME TableInv, TableInv', NEW p \in Ports, NEW e \in Slots,
         Find(p) = NoSlot, Occupy(p, e)
  PROVE  \A q \in Ports : Find(q)' = IF q = p THEN e ELSE Find(q)
<1>1. FindIsHolds /\ FindIsHolds'
  BY FindMeans, FindMeansNext
<1>2. ~IsOpen(e) /\ port' = [port EXCEPT ![e] = p]
      /\ state' = [state EXCEPT ![e] = "open"]
  BY DEF Occupy, FirstClosed
<1>3. \A q \in Ports, s \in Slots :
        Holds(q, s)' <=> IF s = e THEN q = p ELSE Holds(q, s)
  BY <1>2 DEF Holds, IsOpen, TableInv, TypeOK
<1>4. \A q \in Ports : ~Holds(q, e)
  BY <1>2 DEF Holds
<1>5. QED
  BY <1>1, <1>3, <1>4 DEF FindIsHolds

\* A deleted endpoint is not found any more, all others where they were.
LEMMA DeleteFinds ==
  ASSUME TableInv, TableInv', NEW p \in Ports, Delete(p)
  PROVE  \A q \in Ports : Find(q)' = IF q = p THEN NoSlot ELSE Find(q)
<1>1. FindIsHolds /\ FindIsHolds'
  BY FindMeans, FindMeansNext
<1>2. PICK e \in Slots : e = Find(p) /\ Holds(p, e)
  BY FindSound DEF Delete, Holds
<1>3. port' = port /\ state' = [state EXCEPT ![e] = "closed"]
  BY <1>2 DEF Delete
<1>4. \A q \in Ports, s \in Slots : Holds(q, s)' <=> Holds(q, s) /\ s # e
  BY <1>3 DEF Holds, IsOpen, TableInv, TypeOK
<1>5. \A q \in Ports : Holds(q, e) <=> q = p
  BY <1>2 DEF Holds
<1>6. QED
  BY <1>1, <1>2, <1>4, <1>5 DEF FindIsHolds

-----------------------------------------------------------------------------
(* Creating and deleting.                                                  *)

\* There are at most as many open ports as entries in use.
LEMMA PortsCounted == TableInv => Cardinality(OpenPorts) <= inUse
<1> SUFFICES ASSUME TableInv PROVE Cardinality(OpenPorts) <= inUse
  OBVIOUS
<1> DEFINE U == {s \in Slots : IsOpen(s)}
           f == [p \in OpenPorts |-> Find(p)]
<1>1. \A p \in OpenPorts : Find(p) \in U /\ port[Find(p)] = p
  BY FindSound DEF OpenPorts
<1>2. f \in Injection(OpenPorts, U)
  BY <1>1 DEF Injection, IsInjective
<1>3. IsFiniteSet(U)
  BY SlotsFinite
<1>4. Cardinality(OpenPorts) <= Cardinality(U)
  BY <1>2, <1>3, FS_Injection
<1>5. QED
  BY <1>4 DEF TableInv, CountIsExact

\* Taking an entry for a new endpoint is a creation.
LEMMA OccupyCreates ==
  ASSUME TableInv, TableInv', NEW p \in Ports, NEW e \in Slots,
         Find(p) = NoSlot, inUse < MaxEndpoints, Occupy(p, e)
  PROVE  Abstract!Create(p)
<1>1. \A q \in Ports : Find(q)' = IF q = p THEN e ELSE Find(q)
  BY OccupyFinds
<1>2. \A q \in Ports : Find(q) # NoSlot => Find(q) \in Slots /\ Find(q) # e
  BY FindSound DEF Occupy, FirstClosed
<1>3. /\ state' = [state EXCEPT ![e] = "open"]
      /\ queued' = [queued EXCEPT ![e] = 0] /\ waiting' = waiting \ {p}
      /\ state \in [Slots -> {"closed", "open", "busy"}]
      /\ queued \in [Slots -> 0 .. MaxQueued]
  BY DEF Occupy, TableInv, TypeOK
<1>4. e # NoSlot
  BY TableAssumption
<1>5. OpenPorts' = OpenPorts \cup {p} /\ p \notin OpenPorts
  BY <1>1, <1>4 DEF OpenPorts
<1>6. BusyPorts' = BusyPorts
  BY <1>1, <1>2, <1>3, <1>4 DEF BusyPorts
<1>7. DataAt' = DataAt
  BY <1>1, <1>2, <1>3, <1>4 DEF DataAt
<1>8. Cardinality(OpenPorts) < MaxEndpoints
  <2>1. IsFiniteSet(OpenPorts)
    <3>1. IsFiniteSet(Ports)
      BY FS_Interval, TableAssumption
    <3>2. QED
      BY <3>1, FS_Subset DEF OpenPorts
  <2>2. Cardinality(OpenPorts) \in Nat /\ inUse \in Nat
    BY <2>1, FS_CardinalityType, TableAssumption DEF TableInv, TypeOK
  <2>3. QED
    BY <2>2, PortsCounted, TableAssumption
<1>9. Abstract!Cardinality(OpenPorts) = Cardinality(OpenPorts)
  BY DEF Abstract!Cardinality, Cardinality
<1>10. QED
  BY <1>3, <1>5, <1>6, <1>7, <1>8, <1>9 DEF Abstract!Create

\* mcapi_delete_endpoint deletes the endpoint and its data.
LEMMA DeleteDeletes ==
  ASSUME TableInv, TableInv', NEW p \in Ports, Delete(p)
  PROVE  Abstract!Delete(p)
<1>1. \A q \in Ports : Find(q)' = IF q = p THEN NoSlot ELSE Find(q)
  BY DeleteFinds
<1>2. PICK e \in Slots : e = Find(p) /\ e # NoSlot
  BY FindSound DEF Delete
<1>3. /\ state[e] = "open" /\ state' = [state EXCEPT ![e] = "closed"]
      /\ queued' = [queued EXCEPT ![e] = 0] /\ waiting' = waiting
      /\ state \in [Slots -> {"closed", "open", "busy"}]
      /\ queued \in [Slots -> 0 .. MaxQueued]
  BY <1>2 DEF Delete, TableInv, TypeOK
<1>4. \A q \in Ports : q # p /\ Find(q) # NoSlot => Find(q) \in Slots /\ Find(q) # e
  BY <1>2, FindSound
<1>5. OpenPorts' = OpenPorts \ {p} /\ p \in OpenPorts
  BY <1>1, <1>2 DEF OpenPorts
<1>6. BusyPorts' = BusyPorts /\ p \notin BusyPorts
  BY <1>1, <1>2, <1>3, <1>4 DEF BusyPorts
<1>7. DataAt' = [DataAt EXCEPT ![p] = 0]
  BY <1>1, <1>2, <1>3, <1>4 DEF DataAt
<1>8. QED
  BY <1>3, <1>5, <1>6, <1>7 DEF Abstract!Delete

-----------------------------------------------------------------------------
(* The calls that look an endpoint up.                                     *)

\* They find the same entries afterwards, and no two ports share one.
LEMMA LookupFinds ==
  ASSUME TableInv, TableInv', NEW p \in Ports,
         \/ OpenChannel(p) \/ CloseChannel(p) \/ Arrive(p) \/ Receive(p)
         \/ AwaitPort(p) \/ GiveUp(p)
  PROVE  /\ \A q \in Ports : Find(q)' = Find(q)
         /\ OpenPorts' = OpenPorts
<1>1. port' = port /\ \A s \in Slots : IsOpen(s)' <=> IsOpen(s)
  BY LookupEffect DEF TableInv
<1>2. \A q \in Ports : Find(q)' = Find(q)
  BY <1>1, SameFinds
<1>3. QED
  BY <1>2 DEF OpenPorts

\* Each of them has the effect of its abstract counterpart on the port.
LEMMA LookupLooksUp ==
  ASSUME TableInv, TableInv', NEW p \in Ports,
         OpenChannel(p) \/ CloseChannel(p) \/ Arrive(p) \/ Receive(p)
  PROVE  \/ Abstract!OpenChannel(p) \/ Abstract!CloseChannel(p)
         \/ Abstract!Arrive(p) \/ Abstract!Receive(p)
<1>1. (\A q \in Ports : Find(q)' = Find(q)) /\ OpenPorts' = OpenPorts
  BY LookupFinds
<1>2. PICK e \in Slots : e = Find(p) /\ e # NoSlot
  BY FindSound DEF OpenChannel, CloseChannel, Arrive, Receive
<1>3. p \in OpenPorts /\ p \in DOMAIN DataAt /\ DataAt[p] = queued[e]
  BY <1>2 DEF OpenPorts, DataAt
<1>4. \A q \in Ports : q # p /\ Find(q) # NoSlot => Find(q) \in Slots /\ Find(q) # e
  BY <1>2, FindSound
<1>5. /\ state \in [Slots -> {"closed", "open", "busy"}]
      /\ queued \in [Slots -> 0 .. MaxQueued]
  BY DEF TableInv, TypeOK
<1>6. CASE OpenChannel(p)
  <2>1. /\ state' = [state EXCEPT ![e] = "busy"]
        /\ queued' = queued /\ waiting' = waiting
    BY <1>2, <1>6 DEF OpenChannel
  <2>2. BusyPorts' = BusyPorts \cup {p}
    BY <1>1, <1>2, <1>4, <1>5, <2>1 DEF BusyPorts
  <2>3. DataAt' = DataAt
    BY <1>1, <2>1 DEF DataAt
  <2>4. QED
    BY <1>1, <1>3, <2>1, <2>2, <2>3 DEF Abstract!OpenChannel
<1>7. CASE CloseChannel(p)
  <2>1. /\ state' = [state EXCEPT ![e] = "open"] /\ waiting' = waiting
        /\ queued' \in {queued, [queued EXCEPT ![e] = 0]}
    BY <1>2, <1>7 DEF CloseChannel
  <2>2. BusyPorts' = BusyPorts \ {p}
    BY <1>1, <1>2, <1>4, <1>5, <2>1 DEF BusyPorts
  <2>3. CASE queued' = queued
    <3>1. DataAt' = DataAt
      BY <1>1, <2>3 DEF DataAt
    <3>2. QED
      BY <1>1, <1>3, <2>1, <2>2, <3>1 DEF Abstract!CloseChannel
  <2>4. CASE queued' = [queued EXCEPT ![e] = 0]
    <3>1. DataAt' = [DataAt EXCEPT ![p] = 0]
      BY <1>1, <1>2, <1>4, <1>5, <2>4 DEF DataAt
    <3>2. QED
      BY <1>1, <1>3, <2>1, <2>2, <3>1 DEF Abstract!CloseChannel
  <2>5. QED
    BY <2>1, <2>3, <2>4
<1>8. CASE Arrive(p)
  <2>1. /\ queued' = [queued EXCEPT ![e] = queued[e] + 1]
        /\ state' = state /\ waiting' = waiting
    BY <1>2, <1>8 DEF Arrive
  <2>2. BusyPorts' = BusyPorts
    BY <1>1, <2>1 DEF BusyPorts
  <2>3. DataAt' = [DataAt EXCEPT ![p] = DataAt[p] + 1]
    BY <1>1, <1>2, <1>3, <1>4, <1>5, <2>1 DEF DataAt
  <2>4. QED
    BY <1>1, <1>3, <2>1, <2>2, <2>3 DEF Abstract!Arrive
<1>9. CASE Receive(p)
  <2>1. /\ queued[e] > 0 /\ queued' = [queued EXCEPT ![e] = queued[e] - 1]
        /\ state' = state /\ waiting' = waiting
    BY <1>2, <1>9 DEF Receive
  <2>2. BusyPorts' = BusyPorts
    BY <1>1, <2>1 DEF BusyPorts
  <2>3. DataAt' = [DataAt EXCEPT ![p] = DataAt[p] - 1]
    BY <1>1, <1>2, <1>3, <1>4, <1>5, <2>1 DEF DataAt
  <2>4. QED
    BY <1>1, <1>3, <2>1, <2>2, <2>3 DEF Abstract!Receive
<1>10. QED
  BY <1>6, <1>7, <1>8, <1>9

\* Waiting for a port touches nothing else.
LEMMA WaitWaits ==
  ASSUME TableInv, TableInv', NEW p \in Ports, AwaitPort(p) \/ GiveUp(p)
  PROVE  Abstract!AwaitPort(p) \/ Abstract!GiveUp(p)
<1>1. (\A q \in Ports : Find(q)' = Find(q)) /\ OpenPorts' = OpenPorts
  BY LookupFinds
<1>2. state' = state /\ queued' = queued
  BY DEF AwaitPort, GiveUp
<1>3. BusyPorts' = BusyPorts /\ DataAt' = DataAt
  BY <1>1, <1>2 DEF BusyPorts, DataAt
<1>4. CASE AwaitPort(p)
  BY <1>1, <1>3, <1>4 DEF AwaitPort, OpenPorts, Abstract!AwaitPort
<1>5. CASE GiveUp(p)
  BY <1>1, <1>3, <1>5 DEF GiveUp, Abstract!GiveUp
<1>6. QED
  BY <1>4, <1>5

-----------------------------------------------------------------------------
(* The refinement.                                                         *)

\* An empty table is an empty set of endpoints.
LEMMA InitRefines == Init => Abstract!Init
<1> SUFFICES ASSUME Init PROVE Abstract!Init
  OBVIOUS
<1>1. \A p \in Ports : Find(p) = NoSlot
  BY FindSound DEF Init, IsOpen
<1>2. OpenPorts = {} /\ BusyPorts = {} /\ DataAt = [p \in Ports |-> 0]
  BY <1>1 DEF OpenPorts, BusyPorts, DataAt
<1>3. QED
  BY <1>2 DEF Init, Abstract!Init

\* Every step of the table is a step of the set, or leaves it alone.
LEMMA NextRefines ==
  TableInv /\ TableInv' /\ [Next]_vars => [Abstract!Next]_Abstract!vars
<1> SUFFICES ASSUME TableInv, TableInv', [Next]_vars
             PROVE  [Abstract!Next]_Abstract!vars
  OBVIOUS
<1>1. CASE UNCHANGED vars
  <2>1. \A q \in Ports : Find(q)' = Find(q)
    BY <1>1, SameFinds DEF vars, IsOpen
  <2>2. OpenPorts' = OpenPorts /\ BusyPorts' = BusyPorts /\ DataAt' = DataAt
    BY <1>1, <2>1 DEF vars, OpenPorts, BusyPorts, DataAt
  <2>3. QED
    BY <1>1, <2>2 DEF vars, Abstract!vars
<1>2. ASSUME NEW p \in Ports, CreateAt(p) PROVE Abstract!Next
  <2>1. PICK e \in Slots : Occupy(p, e)
    BY <1>2 DEF CreateAt
  <2>2. Find(p) = NoSlot /\ inUse < MaxEndpoints
    BY <1>2 DEF CreateAt
  <2>3. QED
    BY <2>1, <2>2, OccupyCreates DEF Abstract!Next
<1>3. ASSUME NEW k \in 0 .. MaxEndpoints, CreateAny(k) PROVE Abstract!Next
  BY <1>3, CreateAnyOccupies, OccupyCreates DEF TableInv, Abstract!Next
<1>4. ASSUME NEW p \in Ports, Delete(p) PROVE Abstract!Next
  BY <1>4, DeleteDeletes DEF Abstract!Next
<1>5. ASSUME NEW p \in Ports,
             OpenChannel(p) \/ CloseChannel(p) \/ Arrive(p) \/ Receive(p)
      PROVE  Abstract!Next
  BY <1>5, LookupLooksUp DEF Abstract!Next
<1>6. ASSUME NEW p \in Ports, AwaitPort(p) \/ GiveUp(p) PROVE Abstract!Next
  BY <1>6, WaitWaits DEF Abstract!Next
<1>7. QED
  BY <1>1, <1>2, <1>3, <1>4, <1>5, <1>6 DEF Next

\* The array searched by open addressing, whose deleted entries keep their
\* numbers, behaves as the set of endpoints of module Endpoints: what
\* mcapi_find_endpoint, create_endpoint and mcapi_delete_endpoint promise.
THEOREM TableImplementsEndpoints == Spec => ImplementsEndpoints
  BY InitRefines, NextRefines, TableInvariant, PTL
     DEF Spec, ImplementsEndpoints, Abstract!Spec

=============================================================================
