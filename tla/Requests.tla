------------------------------- MODULE Requests -------------------------------
(***************************************************************************)
(* Receiving on the endpoints of a node, and waiting for it: msg_recv,     *)
(* pkt_rcv and scal_rcv, mcapi_wait, mcapi_wait_any, mcapi_test and        *)
(* mcapi_cancel, and the list of pending requests that mcapi_check_resume  *)
(* goes through when data arrives or an endpoint goes away.  A call holds  *)
(* the node's mutex and is one step, but for the places where it gives the *)
(* mutex up: while it is suspended, and between the tests of mcapi_wait_any*)
(* and its suspension.                                                     *)
(***************************************************************************)
EXTENDS Integers, Sequences, FiniteSets

CONSTANTS
  Endpoints,
  Kinds,        \* what the endpoints may receive: "msg", "pkt" or "scl" each
  Threads,
  Ops,          \* the receive operations: a request structure each
  OpOf,         \* [ep, size] of each: where from, and the size of its buffer
                \* or the width of its scalar
  Packets,      \* what arrives: [id, ep, size]
  WaitLists,    \* the lists of operations passed to mcapi_wait_any
  PoolSize,     \* MCAPI_FREE_REQUEST_COUNT
  MaxPending,   \* bound: operations of a kind pending at an endpoint at a time
  MaxWaits,     \* bound: calls of mcapi_wait, mcapi_wait_any, mcapi_cancel
  NoOp

Pool == 1 .. PoolSize
Structs == Ops \cup Threads \cup Pool   \* a thread stands for its req_copy

ASSUME RequestsAssumption ==
  /\ Kinds \subseteq [Endpoints -> {"msg", "pkt", "scl"}]
  /\ OpOf \in [Ops -> [ep : Endpoints, size : Nat \ {0}]]
  /\ Packets \subseteq [id : {m.id : m \in Packets}, ep : Endpoints, size : Nat \ {0}]
  /\ \A m, n \in Packets : m.id = n.id => m = n
  /\ WaitLists \subseteq Seq(Ops) \ {<<>>}
  /\ PoolSize \in Nat /\ MaxWaits \in Nat
  /\ MaxPending \in [{"msg", "pkt", "scl"} -> Nat]
  /\ NoOp \notin Ops
  /\ Ops \cap (Threads \cup Pool) = {} /\ Threads \cap Pool = {}

VARIABLES
  kind,      \* what each endpoint receives: messages, or what its channel carries
  state,     \* each endpoint: "open", "shut" by its peer, "closed", "deleted"
  rxQueue,   \* mcapi_rx_queue of each endpoint
  held,      \* MCAPI_Buf_Wait_List: packets the application has yet to free
  pending,   \* mcapi_local_req_queue
  status,    \* mcapi_status of each structure
  copyOf,    \* the operation a structure replicates
  call,      \* what each thread is doing
  awake,     \* whether its condition was signalled, or its time is up
  given,     \* history: the data put into the buffer of each operation
  arrived, dropped,   \* history: packets that came, and that were given back
  freed,     \* operations whose packet the application has freed
  late,      \* whether mcapi_wait_any replicated an operation that had ended
             \* since it was tested
  waits      \* how much of the bound is used up

data == <<kind, state, rxQueue, held, given, arrived, dropped, freed>>
vars == <<data, pending, status, copyOf, call, awake, late, waits>>

Idle == [what |-> "idle", ops |-> <<>>, at |-> 0, copies |-> <<>>]
Doing(what, ops, at, copies) ==
  [what |-> what, ops |-> ops, at |-> at, copies |-> copies]

Init ==
  /\ kind \in Kinds
  /\ state = [e \in Endpoints |-> "open"]
  /\ rxQueue = [e \in Endpoints |-> <<>>]
  /\ held = {}
  /\ pending = <<>>
  /\ status = [r \in Structs |-> "unused"]
  /\ copyOf = [r \in Threads \cup Pool |-> NoOp]
  /\ call = [t \in Threads |-> Idle]
  /\ awake = [t \in Threads |-> FALSE]
  /\ given = [o \in Ops |-> <<>>]
  /\ arrived = {} /\ dropped = {} /\ freed = {}
  /\ late = FALSE
  /\ waits = 0

-----------------------------------------------------------------------------
(* The list of pending requests.                                           *)

Elements(s) == {s[i] : i \in DOMAIN s}

\* The list without the structures of S.
Without(S) ==
  LET kept[i \in 0 .. Len(pending)] ==
        IF i = 0 THEN <<>>
        ELSE IF pending[i] \in S THEN kept[i - 1] ELSE Append(kept[i - 1], pending[i])
  IN kept[Len(pending)]

Original(r) == IF r \in Ops THEN r ELSE copyOf[r]
Target(r) == OpOf[Original(r)].ep
PendingAt(e) == {r \in Elements(pending) : Target(r) = e}

\* The structures whose condition a thread is suspended on.
SleepsOn(t) ==
  CASE call[t].what = "recv" -> Elements(call[t].ops)
    [] call[t].what = "wait" -> {t}
    [] call[t].what = "any"  -> Elements(call[t].copies)
    [] OTHER -> {}

\* (mutant) the condition is not signalled for a replica
WakeOriginals(S) ==
  [t \in Threads |-> awake[t] \/ SleepsOn(t) \cap S \cap Ops # {}]

\* MCAPI_Resume_Task for every structure of S.
Wake(S) == [t \in Threads |-> awake[t] \/ SleepsOn(t) \cap S # {}]

\* mcapi_resume for every structure of S, with the status that result has for it.
Resume(S, result) ==
  /\ status' = [r \in Structs |-> IF r \in S THEN result[r] ELSE status[r]]
  /\ pending' = Without(S)
  /\ awake' = Wake(S)

Fits(m, o) == m.size <= OpOf[o].size

\* The position of a structure in the list.
Place(r) == CHOOSE i \in DOMAIN pending : pending[i] = r

\* (mutant) truncation is not reported
ReceiveStatusPlain(e, m, r) == "success"

\* The status mcapi_check_resume gives to receives of a message: once one of
\* them was too small for it, every later one is told so too.
ReceiveStatus(e, m, r) ==
  IF kind[e] = "msg"
     /\ \E q \in PendingAt(e) : Place(q) <= Place(r) /\ ~Fits(m, Original(q))
  THEN "truncated" ELSE "success"

\* Its receives for whom the data is copied or handed over.
Copied(e, m) ==
  {r \in PendingAt(e) : \/ kind[e] = "pkt"
                        \/ kind[e] = "msg" /\ Fits(m, Original(r))}

\* The head of the queue goes into the buffers of these operations.
Give(q, ops) ==
  given' = [o \in Ops |-> IF o \in ops THEN Append(given[o], Head(q)) ELSE given[o]]

\* The head of the queue leaves it: a packet until the application frees it, a
\* message or a scalar for good.
Consume(e, q) ==
  /\ rxQueue' = [rxQueue EXCEPT ![e] = Tail(q)]
  /\ held' = IF kind[e] = "pkt" /\ state[e] \in {"open", "shut"}
             THEN held \cup {Head(q).id} ELSE held

\* mcapi_rx_data and mcapi_check_resume for MCAPI_REQ_RX_FIN.
Arrive(m) ==
  LET e == m.ep
      q == Append(rxQueue[e], m)
      copied == Copied(e, m)
  IN
  /\ m.id \notin arrived
  /\ state[e] # "deleted"
  /\ arrived' = arrived \cup {m.id}
  /\ Resume(PendingAt(e), [r \in PendingAt(e) |-> ReceiveStatus(e, m, r)])
  /\ Give(q, {Original(r) : r \in copied})
  /\ \/ copied # {} /\ Consume(e, q)
     \/ copied = {} /\ rxQueue' = [rxQueue EXCEPT ![e] = q] /\ UNCHANGED held
  /\ UNCHANGED <<kind, state, dropped, freed, copyOf, call, late, waits>>

\* A packet for an endpoint that is gone is given back at once.
ArriveNowhere(m) ==
  /\ m.id \notin arrived
  /\ state[m.ep] = "deleted"
  /\ arrived' = arrived \cup {m.id}
  /\ dropped' = dropped \cup {m.id}
  /\ UNCHANGED <<kind, state, rxQueue, held, given, freed, pending, status, copyOf,
                 call, awake, late, waits>>

-----------------------------------------------------------------------------
(* Receiving.                                                              *)

\* Operations are used once, by a thread that is doing nothing else; how many
\* are pending at an endpoint at a time is up to the applications.
Start(t, o) ==
  /\ call[t] = Idle
  /\ status[o] = "unused"
  /\ Cardinality(PendingAt(OpOf[o].ep) \cap Ops) < MaxPending[kind[OpOf[o].ep]]

\* Whether the call looks for data at all, and whether it waits for it.
MayTake(e) == state[e] = "open" \/ (kind[e] # "msg" /\ state[e] = "shut")
\* (mutant) a receive waits at an endpoint that its peer has shut
WaitWhenShut(e) == state[e] \in {"open", "shut"}

MayWait(e) == state[e] = "open"

Finish(o, result) == status' = [status EXCEPT ![o] = result]

\* There is data: it is taken, unless it is too large for the buffer.  A scalar
\* of another width stays, less its header, so that no width fits it again.
Take(o) ==
  LET e == OpOf[o].ep
      q == rxQueue[e]
      m == Head(q)
      right == \/ kind[e] = "pkt"
               \/ kind[e] = "msg" /\ Fits(m, o)
               \/ kind[e] = "scl" /\ m.size = OpOf[o].size
  IN
  \/ right /\ Finish(o, "success") /\ Give(q, {o}) /\ Consume(e, q)
  \/ /\ ~right
     /\ Finish(o, IF kind[e] = "msg" THEN "truncated" ELSE "failed")
     /\ rxQueue' = IF kind[e] = "scl" THEN [rxQueue EXCEPT ![e][1].size = 0]
                   ELSE rxQueue
     /\ UNCHANGED <<held, given>>

\* msg_recv, pkt_rcv and scal_rcv without waiting.
ReceiveNow(t, o) ==
  LET e == OpOf[o].ep IN
  /\ Start(t, o)
  /\ \/ MayTake(e) /\ rxQueue[e] # <<>> /\ Take(o)
     \/ /\ IF MayTake(e) THEN rxQueue[e] = <<>> /\ ~MayWait(e) ELSE TRUE
        /\ Finish(o, "failed")
        /\ UNCHANGED <<rxQueue, held, given>>
  /\ UNCHANGED <<kind, state, arrived, dropped, freed, pending, copyOf, call, awake,
                 late, waits>>

\* There is no data: the request joins the list.  A blocking call, as every
\* receive of a scalar is, suspends on it.
ReceiveLater(t, o, blocks) ==
  LET e == OpOf[o].ep IN
  /\ Start(t, o)
  /\ MayWait(e) /\ rxQueue[e] = <<>>
  /\ kind[e] = "scl" => blocks
  /\ Finish(o, "pending")
  /\ pending' = Append(pending, o)
  /\ call' = [call EXCEPT ![t] = IF blocks THEN Doing("recv", <<o>>, 0, <<>>)
                                 ELSE Idle]
  /\ awake' = [awake EXCEPT ![t] = FALSE]
  /\ UNCHANGED <<data, copyOf, late, waits>>

\* A blocking receive goes on.  That of a scalar looks at the queue again and
\* otherwise reports the status of its request.
ReceiveReturns(t) ==
  LET o == call[t].ops[1]
      e == OpOf[o].ep
  IN
  /\ call[t].what = "recv" /\ awake[t]
  /\ call' = [call EXCEPT ![t] = Idle]
  /\ \/ kind[e] = "scl" /\ rxQueue[e] # <<>> /\ Take(o)
     \/ /\ kind[e] = "scl" /\ rxQueue[e] = <<>> /\ state[e] # "open"
        /\ Finish(o, "failed")
        /\ UNCHANGED <<rxQueue, held, given>>
     \/ /\ kind[e] = "scl" => rxQueue[e] = <<>> /\ state[e] = "open"
        /\ UNCHANGED <<status, rxQueue, held, given>>
  /\ UNCHANGED <<kind, state, arrived, dropped, freed, pending, copyOf, awake, late, waits>>

InCall(o) == \E t \in Threads : call[t].what = "recv" /\ o \in Elements(call[t].ops)

\* mcapi_pktchan_free of a packet that was received.
FreePacket(o) ==
  /\ kind[OpOf[o].ep] = "pkt" /\ given[o] # <<>> /\ o \notin freed
  /\ status[o] = "success" /\ ~InCall(o)
  /\ freed' = freed \cup {o}
  /\ held' = held \ {given[o][1].id}
  /\ UNCHANGED <<kind, state, rxQueue, given, arrived, dropped, pending, status,
                 copyOf, call, awake, late, waits>>

-----------------------------------------------------------------------------
(* Waiting and cancelling.                                                 *)

Count == waits < MaxWaits /\ waits' = waits + 1

\* The operations whose request structure the application has in its hands:
\* that of a blocking call, as every receive of a scalar is, is on the stack of
\* its thread.
Posted(o) == status[o] # "unused" /\ kind[OpOf[o].ep] # "scl" /\ ~InCall(o)

\* mcapi_wait of an operation that is pending: a replica joins the list, and
\* the thread suspends on it.  (Of any other the call returns at once.)
Wait(t, o) ==
  /\ Count
  /\ call[t] = Idle
  /\ Posted(o) /\ status[o] = "pending"
  /\ status' = [status EXCEPT ![t] = "pending"]
  /\ copyOf' = [copyOf EXCEPT ![t] = o]
  /\ pending' = Append(pending, t)
  /\ call' = [call EXCEPT ![t] = Doing("wait", <<o>>, 0, <<>>)]
  /\ awake' = [awake EXCEPT ![t] = FALSE]
  /\ UNCHANGED <<data, late>>

\* (mutant) the replica stays on the list
WaitLeavesCopy(t) ==
  LET o == copyOf[t] IN
  /\ call[t].what = "wait" /\ awake[t]
  /\ status' = [status EXCEPT ![o] = status[t]]
  /\ call' = [call EXCEPT ![t] = Idle]
  /\ UNCHANGED <<data, pending, copyOf, awake, late, waits>>

\* The waiting thread goes on: the replica's status goes to the original, and
\* if it is still pending the time is up and the replica leaves the list.
WaitReturns(t) ==
  LET o == copyOf[t] IN
  /\ call[t].what = "wait" /\ awake[t]
  /\ status' = [status EXCEPT ![o] = status[t]]
  /\ pending' = IF status[t] = "pending" THEN Without({t}) ELSE pending
  /\ call' = [call EXCEPT ![t] = Idle]
  /\ UNCHANGED <<data, copyOf, awake, late, waits>>

\* mcapi_wait_any first tests one operation after the other, without holding
\* the mutex in between.
WaitAny(t, list) ==
  /\ Count
  /\ call[t] = Idle
  /\ \A o \in Elements(list) : Posted(o)
  /\ call' = [call EXCEPT ![t] = Doing("test", list, 1, <<>>)]
  /\ UNCHANGED <<data, pending, status, copyOf, awake, late>>

TestNext(t) ==
  LET c == call[t] IN
  /\ c.what = "test" /\ c.at <= Len(c.ops)
  /\ call' = [call EXCEPT ![t] = IF status[c.ops[c.at]] = "pending"
                                 THEN [c EXCEPT !.at = @ + 1] ELSE Idle]
  /\ UNCHANGED <<data, pending, status, copyOf, awake, late, waits>>

\* (mutant) the search goes one entry too far
FreeStructsPast == {p \in 1 .. PoolSize + 1 : p > PoolSize \/ copyOf[p] = NoOp}

FreeStructs == {p \in Pool : copyOf[p] = NoOp}

\* mcapi_get_free_request_struct, called k times: the k-th free entry.
FreeStruct(k) ==
  CHOOSE p \in FreeStructs : Cardinality({q \in FreeStructs : q <= p}) = k

\* It then takes the mutex, replicates every operation with the status it has
\* by now, and suspends on all the replicas at once.
AttachAll(t) ==
  LET c == call[t]
      copies == [i \in DOMAIN c.ops |-> FreeStruct(i)]
      OpFor(p) == c.ops[CHOOSE i \in DOMAIN copies : copies[i] = p]
  IN
  /\ c.what = "test" /\ c.at > Len(c.ops)
  /\ Cardinality(FreeStructs) >= Len(c.ops)
  /\ copyOf' = [r \in DOMAIN copyOf |->
                  IF r \in Elements(copies) THEN OpFor(r) ELSE copyOf[r]]
  /\ status' = [r \in Structs |->
                  IF r \in Elements(copies) THEN status[OpFor(r)] ELSE status[r]]
  /\ pending' = pending \o copies
  /\ call' = [call EXCEPT ![t] = Doing("any", c.ops, 0, copies)]
  /\ awake' = [awake EXCEPT ![t] = FALSE]
  /\ late' = (late \/ \E o \in Elements(c.ops) : status[o] # "pending")
  /\ UNCHANGED <<data, waits>>

\* Without a structure for each of them it gives back those it has taken and
\* returns MCAPI_ERR_REQUEST_LIMIT.
AttachFails(t) ==
  LET c == call[t] IN
  /\ c.what = "test" /\ c.at > Len(c.ops)
  /\ Cardinality(FreeStructs) < Len(c.ops)
  /\ call' = [call EXCEPT ![t] = Idle]
  /\ UNCHANGED <<data, pending, status, copyOf, awake, late, waits>>

\* (mutant) the structures are given back only if an operation has ended
WaitAnyKeepsPool(t) ==
  LET c == call[t]
      ended == {i \in DOMAIN c.copies : status[c.copies[i]] # "pending"}
  IN
  /\ c.what = "any" /\ awake[t]
  /\ pending' = Without(Elements(c.copies))
  /\ copyOf' = [r \in DOMAIN copyOf |->
                  IF ended # {} /\ r \in Elements(c.copies) THEN NoOp ELSE copyOf[r]]
  /\ call' = [call EXCEPT ![t] = Idle]
  /\ UNCHANGED <<data, status, awake, late, waits>>

\* The waiting thread goes on: it takes its replicas back and reports the
\* first that is not pending, whose status goes to its original.
WaitAnyReturns(t) ==
  LET c == call[t]
      ended == {i \in DOMAIN c.copies : status[c.copies[i]] # "pending"}
      first == CHOOSE i \in ended : \A j \in ended : i <= j
  IN
  /\ c.what = "any" /\ awake[t]
  /\ status' = IF ended = {} THEN status
               ELSE [status EXCEPT ![c.ops[first]] = status[c.copies[first]]]
  /\ pending' = Without(Elements(c.copies))
  /\ copyOf' = [r \in DOMAIN copyOf |->
                  IF r \in Elements(c.copies) THEN NoOp ELSE copyOf[r]]
  /\ call' = [call EXCEPT ![t] = Idle]
  /\ UNCHANGED <<data, awake, late, waits>>

\* The time of mcapi_wait or mcapi_wait_any is up.
TimeUp(t) ==
  /\ call[t].what \in {"wait", "any"}
  /\ ~awake[t]
  /\ awake' = [awake EXCEPT ![t] = TRUE]
  /\ UNCHANGED <<data, pending, status, copyOf, call, late, waits>>

\* mcapi_cancel.  mcapi_find_request matches every receive at the endpoint,
\* whichever operation it belongs to.
Cancel(o) ==
  LET S == PendingAt(OpOf[o].ep) IN
  /\ Count
  /\ \E t \in Threads : call[t] = Idle
  /\ Posted(o)
  /\ S # {}
  /\ Resume(S, [r \in S |-> "cancelled"])
  /\ UNCHANGED <<data, copyOf, call, late>>

-----------------------------------------------------------------------------
(* Endpoints that go away.                                                 *)

\* Whatever a thread waits for at the endpoint, it goes on with an error.
FailAll(e) == Resume(PendingAt(e), [r \in PendingAt(e) |-> "failed"])

Ids(q) == {q[i].id : i \in DOMAIN q}

\* (mutant) the queue is cleared, the buffers are not given back
DrainLosesBuffers(e) == rxQueue' = [rxQueue EXCEPT ![e] = <<>>] /\ UNCHANGED dropped

\* What is queued at an endpoint is given back.
Drain(e) ==
  /\ rxQueue' = [rxQueue EXCEPT ![e] = <<>>]
  /\ dropped' = dropped \cup Ids(rxQueue[e])

\* MCAPI_CONNECT_FIN: the peer has closed the channel, what has arrived stays.
Shut(e) ==
  /\ kind[e] # "msg" /\ state[e] = "open"
  /\ state' = [state EXCEPT ![e] = "shut"]
  /\ FailAll(e)
  /\ UNCHANGED <<kind, rxQueue, held, given, arrived, dropped, freed, copyOf, call,
                 late, waits>>

\* mcapi_close of the receive side.
Close(e) ==
  /\ kind[e] # "msg" /\ state[e] \in {"open", "shut"}
  /\ state' = [state EXCEPT ![e] = "closed"]
  /\ Drain(e)
  /\ FailAll(e)
  /\ UNCHANGED <<kind, held, given, arrived, freed, copyOf, call, late, waits>>

\* mcapi_delete_endpoint.
Delete(e) ==
  /\ \/ kind[e] = "msg" /\ state[e] = "open"
     \/ state[e] = "closed"
  /\ state' = [state EXCEPT ![e] = "deleted"]
  /\ Drain(e)
  /\ FailAll(e)
  /\ UNCHANGED <<kind, held, given, arrived, freed, copyOf, call, late, waits>>

-----------------------------------------------------------------------------
\* A suspended thread that was woken, or one between its tests, goes on.
Proceed(t) ==
  \/ ReceiveReturns(t) \/ WaitReturns(t) \/ WaitAnyReturns(t)
  \/ TestNext(t) \/ AttachAll(t) \/ AttachFails(t)

Next ==
  \/ \E m \in Packets : Arrive(m) \/ ArriveNowhere(m)
  \/ \E t \in Threads, o \in Ops :
       \/ ReceiveNow(t, o) \/ Wait(t, o)
       \/ \E blocks \in BOOLEAN : ReceiveLater(t, o, blocks)
  \/ \E t \in Threads : Proceed(t) \/ TimeUp(t)
  \/ \E t \in Threads, list \in WaitLists : WaitAny(t, list)
  \/ \E o \in Ops : Cancel(o) \/ FreePacket(o)
  \/ \E e \in Endpoints : Shut(e) \/ Close(e) \/ Delete(e)

Spec == Init /\ [][Next]_vars

\* A thread that can go on does; nobody is obliged to call, or to send.
FairSpec == Spec /\ \A t \in Threads : WF_vars(Proceed(t))

-----------------------------------------------------------------------------
(* Properties.                                                             *)

Outcomes == {"pending", "success", "truncated", "failed", "cancelled"}
Ended(r) == status[r] \in Outcomes \ {"pending"}

\* The variables keep to what the structures hold.
TypeOK ==
  /\ state \in [Endpoints -> {"open", "shut", "closed", "deleted"}]
  /\ \A e \in Endpoints : \A i \in DOMAIN rxQueue[e] : rxQueue[e][i].ep = e
  /\ pending \in Seq(Structs)
  /\ status \in [Structs -> Outcomes \cup {"unused"}]
  /\ copyOf \in [Threads \cup Pool -> Ops \cup {NoOp}]
  /\ \A t \in Threads : /\ call[t].what \in {"idle", "recv", "wait", "test", "any"}
                        /\ call[t].ops \in Seq(Ops)
  /\ awake \in [Threads -> BOOLEAN]
  /\ waits \in 0 .. MaxWaits

\* Whoever still waits for data waits at an endpoint that exists, is open, and
\* has none: msg_recv, the copies of mcapi_wait and mcapi_check_resume together
\* leave no request behind when data comes or the endpoint goes away.
NoDataWhileWaiting ==
  \A r \in Elements(pending) : status[r] = "pending" =>
    rxQueue[Target(r)] = <<>> /\ state[Target(r)] = "open"

\* A structure on the list is there once, and somebody answers for it: an
\* operation still pending, or a thread suspended on it.  None is left behind by
\* a call that has returned, to be written to when data comes.
ListedOnce ==
  /\ \A i, j \in DOMAIN pending : pending[i] = pending[j] => i = j
  /\ \A r \in Elements(pending) :
       \/ r \in Ops /\ status[r] = "pending"
       \/ \E t \in Threads : r \in SleepsOn(t) /\ r \notin Ops

\* The structures of the pool are those of the threads suspended in
\* mcapi_wait_any, each in the hands of one: a call that times out, is answered
\* or finds too few gives all of them back.
PoolBalanced ==
  /\ {p \in Pool : copyOf[p] # NoOp} =
       UNION {Elements(call[t].copies) : t \in Threads}
  /\ \A t, u \in Threads : t # u =>
       Elements(call[t].copies) \cap Elements(call[u].copies) = {}

\* A receive of a message or packet that has ended with success has data, and
\* one that has ended in any other way has none: the status and the buffer tell
\* the same story, whoever filled them in (but for what mcapi_wait_any
\* replicates too late).
SuccessHasData ==
  ~late => \A o \in Ops : Posted(o) =>
    (status[o] = "success" <=> given[o] # <<>>)

\* A packet that came is in one place: queued at its endpoint, in the buffer of
\* an operation that reported it, or given back with its endpoint; and
\* MCAPI_Buf_Wait_List holds those that were handed out and not freed.
ReceivedBy(id) ==
  {o \in Ops : status[o] = "success" /\ \E i \in DOMAIN given[o] : given[o][i].id = id}
HandedOut ==
  {o \in Ops : kind[OpOf[o].ep] = "pkt" /\ given[o] # <<>> /\ o \notin freed}
PacketKept ==
  ~late =>
    /\ \A m \in Packets : m.id \in arrived =>
         \/ m.id \in Ids(rxQueue[m.ep]) /\ ReceivedBy(m.id) = {} /\ m.id \notin dropped
         \/ m.id \notin Ids(rxQueue[m.ep]) /\ (ReceivedBy(m.id) = {} <=> m.id \in dropped)
    /\ held = {given[o][1].id : o \in HandedOut}

\* A thread suspended in a receive or in mcapi_wait is woken when the operation
\* ends, be it by data, cancellation or the end of the endpoint.
WaiterWoken ==
  \A t \in Threads : call[t].what \in {"recv", "wait"} /\ Ended(call[t].ops[1])
    => awake[t]

\* "The routine returns if any of the specific operations has completed or been
\* canceled" (mcapi_wait_any.c:43).
AnyGoesOn ==
  \A t \in Threads :
    call[t].what = "any" /\ (\E o \in Elements(call[t].ops) : Ended(o))
      ~> call[t].what # "any"
=============================================================================
