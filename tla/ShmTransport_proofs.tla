------------------------ MODULE ShmTransport_proofs ------------------------
(***************************************************************************)
(* Proofs about the shared memory driver, for any number of nodes,         *)
(* buffers, descriptors and sends: its types, and the invariant of its     *)
(* control, that is who holds which lock, what a thread may rely on        *)
(* between two steps, and what the visible part of a ring is.              *)
(* ShmTransport_delivery builds upon it: who owns a buffer, and in which   *)
(* order messages arrive.                                                  *)
(***************************************************************************)
EXTENDS ShmTransport, FiniteSetTheorems, SequenceTheorems, WellFoundedInduction, TLAPS

-----------------------------------------------------------------------------
(* Numbers, threads and messages.                                          *)

\* A set of natural numbers that is not empty has a least element.
LEMMA LeastExists ==
  ASSUME NEW S \in SUBSET Nat, S # {}
  PROVE  \E m \in S : \A k \in S : m <= k
<1> DEFINE T == {0 .. n : n \in S}
           R == StrictSubsetOrdering(Nat)
<1>1. T \subseteq FiniteSubsetsOf(Nat) /\ T # {}
  <2>1. ASSUME NEW n \in S PROVE 0 .. n \in FiniteSubsetsOf(Nat)
    BY FS_Interval DEF FiniteSubsetsOf
  <2>2. QED
    BY <2>1
<1>2. IsWellFoundedOn(R, FiniteSubsetsOf(Nat))
  BY FS_StrictSubsetOrderingWellFounded
<1>3. PICK x \in T : \A y \in T : ~ (<<y, x>> \in R)
  <2> HIDE DEF T, R
  <2>1. QED
    BY <1>1, <1>2, WFMin
<1>4. PICK m \in S : x = 0 .. m
  BY <1>3
<1>5. ASSUME NEW k \in S, k < m PROVE FALSE
  <2>1. 0 .. k \in T /\ <<0 .. k, 0 .. m>> \notin R
    BY <1>3, <1>4
  <2>2. 0 .. k \subseteq 0 .. m /\ m \in 0 .. m /\ m \notin 0 .. k
    BY <1>5
  <2>3. QED
    BY <2>1, <2>2 DEF StrictSubsetOrdering
<1>6. QED
  BY <1>5

\* An index past the end of a ring comes round to its beginning.
LEMMA ModWrap ==
  ASSUME NEW g \in Slots, NEW a \in 0 .. RingSize
  PROVE  /\ (g + a) % RingSize = IF g + a < RingSize THEN g + a ELSE g + a - RingSize
         /\ (g + a) % RingSize \in Slots
  BY ShmAssumption DEF Slots
  
\* Each node has two threads, and each thread a node.
LEMMA ThreadFacts ==
  /\ \A n \in Nodes : Api(n) \in Threads /\ Rx(n) \in Threads
  /\ \A t \in Threads : Node(t) \in Nodes
<1>1. ASSUME NEW n \in Nodes
      PROVE  Api(n) \in Threads /\ Rx(n) \in Threads
  BY DEF Api, Rx, Threads
<1>2. ASSUME NEW t \in Threads
      PROVE  Node(t) \in Nodes
  BY DEF Threads, Node
<1>3. QED
  BY <1>1, <1>2

\* The threads of the nodes are all different.
LEMMA ThreadKinds ==
  /\ \A t \in Threads : /\ t # Nobody
                        /\ (t = Api(Node(t)) \/ t = Rx(Node(t)))
  /\ \A m, n \in Nodes : /\ Api(m) # Rx(n)
                         /\ (Api(m) = Api(n) => m = n)
                         /\ (Rx(m) = Rx(n) => m = n)
                         /\ Node(Api(n)) = n /\ Node(Rx(n)) = n
                         /\ AfterFree(Api(n)) = "idle" /\ AfterFree(Rx(n)) = "rx_drain"
<1>1. ASSUME NEW t \in Threads
      PROVE  t # Nobody /\ (t = Api(Node(t)) \/ t = Rx(Node(t)))
  <2>1. PICK n \in Nodes, k \in {"api", "rx"} : t = <<n, k>>
    BY DEF Threads
  <2>2. t # Nobody
    BY <2>1 DEF Nobody
  <2>3. QED
    BY <2>1, <2>2 DEF Api, Rx, Node
<1>2. ASSUME NEW m \in Nodes, NEW n \in Nodes
      PROVE  /\ Api(m) # Rx(n)
             /\ (Api(m) = Api(n) => m = n)
             /\ (Rx(m) = Rx(n) => m = n)
             /\ Node(Api(n)) = n /\ Node(Rx(n)) = n
             /\ AfterFree(Api(n)) = "idle" /\ AfterFree(Rx(n)) = "rx_drain"
  BY DEF Api, Rx, Node, AfterFree
<1>3. QED
  BY <1>1, <1>2

\* What a message consists of.
LEMMA MessageFacts ==
  ASSUME NEW m \in Messages
  PROVE  /\ m.src \in Nodes /\ m.dst \in Nodes /\ m.prio \in Prios
         /\ m.known \in BOOLEAN /\ m.seq \in Nat \ {0}
  BY ShmAssumption DEF Messages, Message, Prios

-----------------------------------------------------------------------------
(* The invariant of the driver's control: locks, rings, threads.           *)

Getting   == {"get_lock", "get_scan", "get_mark", "get_unlock"}
Enqueuing == {"enq_lock", "enq_store", "enq_commit", "enq_unlock"}
Freeing   == {"free_lock", "free_clear", "free_unlock"}
ApiLabels == {"idle", "notify"} \cup Getting \cup Enqueuing \cup Freeing
RxLabels  == {"wait", "asleep", "poll", "cons_lock", "cons_update",
              "cons_unlock", "rx_lock", "rx_drain"} \cup Freeing

\* Every thread is at a place of its own code.
Positions == \A n \in Nodes : pc[Api(n)] \in ApiLabels /\ pc[Rx(n)] \in RxLabels

\* A thread inside a critical section holds the lock of that section.
LocksHeld ==
  /\ \A t \in Threads :
       pc[t] \in {"get_scan", "get_mark", "get_unlock", "free_clear", "free_unlock"}
         => bufLock = t
  /\ \A n \in Nodes :
       pc[Api(n)] \in {"enq_store", "enq_commit", "enq_unlock"}
         => ringLock[msg[Api(n)].dst] = Api(n)
  /\ \A n \in Nodes :
       pc[Rx(n)] \in {"cons_update", "cons_unlock"} => ringLock[n] = Rx(n)

\* What a call carries: the message of its own node while it sends, and with it
\* a buffer the pool lets it use.
Sending(n) ==
  \/ pc[Api(n)] \in Getting \cup Enqueuing \cup {"notify"}
  \/ pc[Api(n)] \in Freeing /\ ~ok[Api(n)]

CallSound(n) == LET t == Api(n) IN
  /\ Sending(n) => msg[t] \in Messages /\ msg[t].src = n
  /\ ~ok[t] => pc[t] \in Freeing \cup {"enq_unlock"}
  /\ pc[t] = "get_mark" => buf[t] \in Buffers \ mask
  /\ pc[t] = "enq_commit" => /\ count[msg[t].dst] < RingSize
                             /\ ring[msg[t].dst][put[msg[t].dst]] =
                                  [buf |-> buf[t], prio |-> msg[t].prio]
CallsSound == \A n \in Nodes : CallSound(n)

\* A buffer that is being sent has been filled in; one to be given back exists.
Filled(b) == b \in Buffers /\ content[b] \in Messages
BuffersSound ==
  /\ \A t \in Threads : pc[t] \in {"free_lock", "free_clear"} => buf[t] \in Buffers
  /\ \A n \in Nodes : pc[Api(n)] \in Enqueuing \cup {"notify"} => Filled(buf[Api(n)])

\* put_idx is always count places ahead of get_idx, the receive thread only
\* consumes what is there, and what is there names a filled buffer.
Desc(n, o) == ring[n][(get[n] + o) % RingSize]
RingSound(n) ==
  /\ put[n] = (get[n] + count[n]) % RingSize
  /\ HeadTaken(n) => count[n] > 0
  /\ \A o \in 0 .. count[n] - 1 : Filled(Desc(n, o).buf)
RingsSound == \A n \in Nodes : RingSound(n)

\* The queues of a node name filled buffers only.
AllFilled(s) == \A i \in 1 .. Len(s) : Filled(s[i])
QueuesFilled == \A n \in Nodes :
  (\A p \in Prios : AllFilled(rxQueue[n][p])) /\ AllFilled(endpQueue[n])

DriverInv == TypeOK /\ Positions /\ LocksHeld /\ CallsSound /\ BuffersSound
             /\ RingsSound /\ QueuesFilled

\* The successor of a slot is a slot.
LEMMA NextSlot ==
  ASSUME NEW g \in Slots
  PROVE  (g + 1) % RingSize \in Slots
<1>1. 1 \in 0 .. RingSize
  BY ShmAssumption
<1>2. QED
  BY <1>1, ModWrap

\* The scan of get_sm_buff_index ends at a clear bit if there is one.
LEMMA FirstFreeIsFree ==
  ASSUME Buffers \ mask # {}
  PROVE  FirstFree \in Buffers \ mask
<1>1. Buffers \ mask \subseteq Nat
  BY ShmAssumption DEF Buffers
<1>2. \E b \in Buffers \ mask : \A c \in Buffers \ mask : b <= c
  BY <1>1, LeastExists
<1>3. QED
  BY <1>2 DEF FirstFree

\* A call stamps a message of the protocol.
LEMMA MessageOfCall ==
  ASSUME NEW call \in Traffic, NEW k \in 1 .. MaxSends[call.src]
  PROVE  Message(call, k) \in Messages
  BY DEF Messages

\* What a call names.
LEMMA CallFacts ==
  ASSUME NEW call \in Traffic
  PROVE  /\ call.src \in Nodes /\ call.dst \in Nodes
         /\ MaxSends[call.src] \in Nat
  BY ShmAssumption

-----------------------------------------------------------------------------
(* Types, one part at a time.                                              *)

\* The pool's bits and its contents stay what they may be; the count stays a number
\* of its width.
LEMMA PoolTypesStep ==
  ASSUME DriverInv, Next
  PROVE  PoolTypes'
<1> USE DEF DriverInv, TypeOK
<1>1. CASE \E call \in Traffic : StartSend(call)
  BY <1>1, ThreadFacts DEF StartSend, poolVars, PoolTypes
<1>2. ASSUME NEW n \in Nodes, GetBuffer(n)
      PROVE  PoolTypes'
  <2>1. CASE GetLock(n)
    BY <2>1, ThreadFacts DEF GetLock, PoolTypes
  <2>2. CASE GetScan(n)
    BY <2>2, ThreadFacts DEF GetScan, poolVars, PoolTypes
  <2>3. CASE GetMark(n)
    <3>1. buf[Api(n)] \in Buffers
      BY <2>3, ThreadFacts DEF GetMark, CallsSound, CallSound, Goto, PoolTypes
    <3>2. QED
      BY <2>3, <3>1, ShmAssumption DEF GetMark, PoolTypes
  <2>4. CASE GetUnlock(n)
    <3>1. msg[Api(n)] \in Messages
      BY <2>4, ThreadFacts DEF GetUnlock, CallsSound, CallSound, Sending, Getting,
         PoolTypes
    <3>2. QED
      BY <2>4, <3>1, ThreadFacts DEF GetUnlock, UnlockPool, PoolTypes
  <2>5. QED
    BY <1>2, <2>1, <2>2, <2>3, <2>4 DEF GetBuffer
<1>3. ASSUME NEW n \in Nodes, Transmit(n)
      PROVE  PoolTypes'
  BY <1>3, ThreadFacts DEF Transmit, EnqLock, EnqStore, EnqCommit, EnqUnlock, Notify,
     poolVars, PoolTypes
<1>4. ASSUME NEW n \in Nodes, Interrupt(n) \/ PollRing(n) \/ RxData(n) \/ Receive(n)
      PROVE  PoolTypes'
  BY <1>4, ThreadFacts DEF Interrupt, PollRing, RxWait, Poll, ConsLock, ConsUpdate,
     ConsUnlock, RxData, RxLock, RxDeliver, RxDone, Receive, poolVars, PoolTypes
<1>5. ASSUME NEW t \in Threads, Free(t)
      PROVE  PoolTypes'
  <2>1. CASE FreeLock(t)
    BY <2>1, ThreadFacts DEF FreeLock, PoolTypes
  <2>2. CASE FreeClear(t)
    <3>1. buf[t] \in Buffers
      BY <2>2, ThreadFacts DEF FreeClear, BuffersSound, Goto, PoolTypes
    <3>2. QED
      BY <2>2, <3>1, ShmAssumption DEF FreeClear, Toggle, PoolTypes
  <2>3. CASE FreeUnlock(t)
    BY <2>3, ThreadFacts DEF FreeUnlock, PoolTypes
  <2>4. QED
    BY <1>5, <2>1, <2>2, <2>3 DEF Free
<1>6. QED
  BY <1>1, <1>2, <1>3, <1>4, <1>5 DEF Next

\* So do the rings, their indices and their locks.
LEMMA RingTypesStep ==
  ASSUME DriverInv, Next
  PROVE  RingTypes'
<1> USE DEF DriverInv, TypeOK
<1>1. CASE \E call \in Traffic : StartSend(call)
  BY <1>1, ThreadFacts DEF StartSend, ringVars, RingTypes
<1>2. ASSUME NEW n \in Nodes, GetBuffer(n)
      PROVE  RingTypes'
  BY <1>2, ThreadFacts DEF GetBuffer, GetLock, GetScan, GetMark, GetUnlock, ringVars,
     RingTypes
<1>3. ASSUME NEW n \in Nodes, Transmit(n)
      PROVE  RingTypes'
  <2>1. ASSUME Sending(n)
        PROVE  msg[Api(n)].dst \in Nodes /\ msg[Api(n)].prio \in Prios
    BY <2>1, MessageFacts, ThreadFacts DEF CallsSound, CallSound, RingTypes
  <2>2. CASE EnqLock(n)
    BY <2>1, <2>2, ThreadFacts DEF EnqLock, Goto, Sending, Enqueuing, RingTypes
  <2>3. CASE EnqStore(n)
    <3>1. msg[Api(n)].dst \in Nodes /\ msg[Api(n)].prio \in Prios
      BY <2>1, <2>3, ThreadFacts DEF EnqStore, Goto, Sending, Enqueuing, RingTypes
    <3>2. buf[Api(n)] \in Buffers \cup {NoBuffer}
      BY ThreadFacts DEF ThreadTypes, RingTypes
    <3>3. QED
      BY <3>1, <3>2, <2>3, ThreadFacts DEF EnqStore, RingTypes
  <2>4. CASE EnqCommit(n)
    <3>1. msg[Api(n)].dst \in Nodes
      BY <2>1, <2>4, ThreadFacts DEF EnqCommit, Goto, Sending, Enqueuing, RingTypes
    <3>2. count[msg[Api(n)].dst] < RingSize
      BY <2>4, ThreadFacts DEF EnqCommit, Goto, CallsSound, CallSound, RingTypes
    <3>3. (put[msg[Api(n)].dst] + 1) % RingSize \in Slots
      BY <3>1, NextSlot DEF RingTypes
    <3>4. count[msg[Api(n)].dst] + 1 \in 0 .. RingSize
      BY <3>1, <3>2, ShmAssumption DEF RingTypes
    <3>5. QED
      BY <3>1, <3>3, <3>4, <2>4 DEF EnqCommit, RingTypes
  <2>5. CASE EnqUnlock(n)
    BY <2>1, <2>5, ThreadFacts DEF EnqUnlock, Goto, Sending, Enqueuing, RingTypes
  <2>6. CASE Notify(n)
    BY <2>6, ThreadFacts DEF Notify, ringVars, RingTypes
  <2>7. QED
    BY <1>3, <2>2, <2>3, <2>4, <2>5, <2>6 DEF Transmit
<1>4. ASSUME NEW n \in Nodes, Interrupt(n) \/ RxData(n) \/ Receive(n)
      PROVE  RingTypes'
  BY <1>4, ThreadFacts DEF Interrupt, RxData, RxLock, RxDeliver, RxDone, Receive,
     ringVars, RingTypes
<1>5. ASSUME NEW n \in Nodes, PollRing(n)
      PROVE  RingTypes'
  <2>1. CASE RxWait(n) \/ Poll(n)
    BY <2>1, ThreadFacts DEF RxWait, Poll, ringVars, RingTypes
  <2>2. CASE ConsLock(n)
    BY <2>2, ThreadFacts DEF ConsLock, RingTypes
  <2>5. CASE ConsUnlock(n)
    BY <2>5, ThreadFacts DEF ConsUnlock, RingTypes
  <2>3. CASE ConsUpdate(n)
    <3>1. count[n] > 0
      BY <2>3, ThreadFacts DEF ConsUpdate, Goto, RingsSound, RingSound, HeadTaken,
         RingTypes
    <3>2. (get[n] + 1) % RingSize \in Slots
      BY NextSlot DEF RingTypes
    <3>3. count[n] - 1 \in 0 .. RingSize
      BY <3>1, ShmAssumption DEF RingTypes
    <3>4. QED
      BY <2>3, <3>2, <3>3 DEF ConsUpdate, RingTypes
  <2>4. QED
    BY <1>5, <2>1, <2>2, <2>3, <2>5 DEF PollRing
<1>6. ASSUME NEW t \in Threads, Free(t)
      PROVE  RingTypes'
  BY <1>6, ThreadFacts DEF Free, FreeLock, FreeClear, FreeUnlock, ringVars, RingTypes
<1>7. QED
  BY <1>1, <1>2, <1>3, <1>4, <1>5, <1>6 DEF Next

\* The descriptor that shm_poll looks at is the first visible one.
LEMMA HeadDesc ==
  ASSUME NEW n \in Nodes, get[n] \in Slots
  PROVE  NextDesc(n) = Desc(n, 0)
<1>1. (get[n] + 0) % RingSize = get[n]
  BY ModWrap, ShmAssumption DEF Slots
<1>2. QED
  BY <1>1 DEF NextDesc, Desc

\* It names a buffer that was filled in.
LEMMA HeadDescFilled ==
  ASSUME DriverInv, NEW n \in Nodes, count[n] > 0
  PROVE  Filled(NextDesc(n).buf)
<1>1. NextDesc(n) = Desc(n, 0)
  BY HeadDesc DEF DriverInv, TypeOK, RingTypes
<1>2. 0 \in 0 .. count[n] - 1
  BY DEF DriverInv, TypeOK, RingTypes
<1>3. QED
  BY <1>1, <1>2 DEF DriverInv, RingsSound, RingSound

\* A receive queue that is changed leaves the others alone.
LEMMA RxQueueUpdate ==
  ASSUME rxQueue \in [Nodes -> [Prios -> Seq(Buffers)]],
         NEW n \in Nodes, NEW p \in Prios, NEW s \in Seq(Buffers)
  PROVE  [rxQueue EXCEPT ![n][p] = s] \in [Nodes -> [Prios -> Seq(Buffers)]]
<1>1. [rxQueue EXCEPT ![n][p] = s] = [rxQueue EXCEPT ![n] = [rxQueue[n] EXCEPT ![p] = s]]
  OBVIOUS
<1>2. [rxQueue[n] EXCEPT ![p] = s] \in [Prios -> Seq(Buffers)]
  OBVIOUS
<1>3. QED
  BY <1>1, <1>2

\* The queues of the nodes hold buffers.
LEMMA NodeTypesStep ==
  ASSUME DriverInv, Next
  PROVE  NodeTypes'
<1> USE DEF DriverInv, TypeOK
<1>1. CASE \E call \in Traffic : StartSend(call)
  <2>1. PICK call \in Traffic : StartSend(call)
    BY <1>1
  <2>2. Api(call.src) \in Threads
    BY CallFacts, ThreadFacts
  <2>3. QED
    BY <2>1, <2>2 DEF StartSend, NodeTypes
<1>2. ASSUME NEW n \in Nodes, GetBuffer(n)
      PROVE  NodeTypes'
  BY <1>2, ThreadFacts DEF GetBuffer, GetLock, GetScan, GetMark, GetUnlock, Return,
     nodeVars, NodeTypes
<1>3. ASSUME NEW n \in Nodes, Transmit(n)
      PROVE  NodeTypes'
  <2>1. CASE Notify(n)
    BY <2>1, ThreadFacts DEF Notify, Return, NodeTypes
  <2>2. QED
    BY <1>3, <2>1, ThreadFacts DEF Transmit, EnqLock, EnqStore, EnqCommit, EnqUnlock,
       nodeVars, NodeTypes
<1>4. ASSUME NEW n \in Nodes, Interrupt(n)
      PROVE  NodeTypes'
  BY <1>4, ThreadFacts DEF Interrupt, NodeTypes
<1>5. ASSUME NEW n \in Nodes, PollRing(n)
      PROVE  NodeTypes'
  <2>1. CASE Poll(n)
    <3>1. CASE count[n] = 0
      <4>1. /\ irq' = irq /\ rxQueue' = rxQueue
            /\ endpQueue' = endpQueue /\ mutex' = mutex
        BY <2>1, <3>1 DEF Poll
      <4>2. QED
        BY <4>1 DEF NodeTypes
    <3>2. CASE count[n] > 0
      <4>1. NextDesc(n).prio \in Prios /\ NextDesc(n).buf \in Buffers
        BY <3>2, HeadDescFilled DEF NextDesc, RingTypes, Filled
      <4>2. Append(rxQueue[n][NextDesc(n).prio], NextDesc(n).buf) \in Seq(Buffers)
        BY <4>1 DEF NodeTypes
      <4>3. rxQueue' = [rxQueue EXCEPT ![n][NextDesc(n).prio] =
                          Append(rxQueue[n][NextDesc(n).prio], NextDesc(n).buf)]
        BY <2>1, <3>2 DEF Poll
      <4>4. rxQueue' \in [Nodes -> [Prios -> Seq(Buffers)]]
        BY <4>1, <4>2, <4>3, RxQueueUpdate DEF NodeTypes
      <4>5. QED
        BY <2>1, <4>4 DEF Poll, NodeTypes
    <3>3. count[n] \in Nat
      BY DEF RingTypes
    <3>4. QED
      BY <3>1, <3>2, <3>3
  <2>2. QED
    BY <1>5, <2>1, ThreadFacts DEF PollRing, RxWait, ConsLock, ConsUpdate, ConsUnlock,
       nodeVars, NodeTypes
<1>6. ASSUME NEW n \in Nodes, RxData(n)
      PROVE  NodeTypes'
  <2>1. CASE RxDeliver(n)
    <3>1. NextPrio(n) \in Prios
      BY DEF NextPrio, Prios
    <3>2. /\ Tail(rxQueue[n][NextPrio(n)]) \in Seq(Buffers)
          /\ Head(rxQueue[n][NextPrio(n)]) \in Buffers
      BY <2>1, <3>1, ThreadFacts DEF RxDeliver, NodeTypes
    <3>3. rxQueue' \in [Nodes -> [Prios -> Seq(Buffers)]]
      BY <2>1, <3>1, <3>2, RxQueueUpdate DEF RxDeliver, NodeTypes
    <3>4. QED
      <4>1. Append(endpQueue[n], Head(rxQueue[n][NextPrio(n)])) \in Seq(Buffers)
        BY <3>2 DEF NodeTypes
      <4>2. /\ irq' = irq /\ mutex' = mutex
            /\ endpQueue' \in {endpQueue, [endpQueue EXCEPT ![n] =
                                Append(endpQueue[n], Head(rxQueue[n][NextPrio(n)]))]}
        BY <2>1 DEF RxDeliver
      <4>3. QED
        BY <3>3, <4>1, <4>2 DEF NodeTypes
  <2>2. QED
    BY <1>6, <2>1, ThreadFacts DEF RxData, RxLock, RxDone, NodeTypes
<1>7. ASSUME NEW n \in Nodes, Receive(n)
      PROVE  NodeTypes'
  <2>1. Tail(endpQueue[n]) \in Seq(Buffers)
    BY <1>7 DEF Receive, NodeTypes
  <2>2. endpQueue' = [endpQueue EXCEPT ![n] = Tail(endpQueue[n])]
        /\ mutex' = [mutex EXCEPT ![n] = Api(n)] /\ UNCHANGED <<irq, rxQueue>>
    BY <1>7 DEF Receive
  <2>3. QED
    BY <2>1, <2>2, ThreadFacts DEF NodeTypes
<1>8. ASSUME NEW t \in Threads, Free(t)
      PROVE  NodeTypes'
  BY <1>8, ThreadFacts DEF Free, FreeLock, FreeClear, FreeUnlock, nodeVars, NodeTypes
<1>9. QED
  BY <1>1, <1>2, <1>3, <1>4, <1>5, <1>6, <1>7, <1>8 DEF Next

\* The first packet of a receive queue was filled in.
LEMMA HeadFilled ==
  ASSUME DriverInv, NEW n \in Nodes, rxQueue[n][NextPrio(n)] # <<>>
  PROVE  Filled(Head(rxQueue[n][NextPrio(n)]))
<1>1. NextPrio(n) \in Prios
  BY DEF NextPrio, Prios
<1>2. rxQueue[n][NextPrio(n)] \in Seq(Buffers)
  BY <1>1 DEF DriverInv, TypeOK, NodeTypes
<1>3. QED
  BY <1>1, <1>2 DEF DriverInv, QueuesFilled, AllFilled

\* The history consists of messages.
LEMMA HistoryTypesStep ==
  ASSUME DriverInv, Next
  PROVE  HistoryTypes'
<1> USE DEF DriverInv, TypeOK
<1>1. CASE \E call \in Traffic : StartSend(call)
  <2>1. PICK call \in Traffic : StartSend(call)
    BY <1>1
  <2>2. PICK n \in Nodes : n = call.src /\ MaxSends[n] \in Nat
    BY CallFacts
  <2>3. /\ sends[n] < MaxSends[n] /\ sends' = [sends EXCEPT ![n] = sends[n] + 1]
        /\ UNCHANGED <<received, accepted, refused, discarded>>
    BY <2>1, <2>2 DEF StartSend
  <2>4. QED
    BY <2>2, <2>3 DEF HistoryTypes
<1>2. ASSUME NEW n \in Nodes, GetBuffer(n)
      PROVE  HistoryTypes'
  <2>1. CASE GetUnlock(n)
    <3>1. msg[Api(n)] \in Messages
      BY <2>1 DEF GetUnlock, CallsSound, CallSound, Sending, Getting
    <3>2. QED
      BY <2>1, <3>1 DEF GetUnlock, HistoryTypes
  <2>2. QED
    BY <1>2, <2>1 DEF GetBuffer, GetLock, GetScan, GetMark, history, HistoryTypes
<1>3. ASSUME NEW n \in Nodes, Transmit(n)
      PROVE  HistoryTypes'
  <2>1. CASE Notify(n)
    <3>1. msg[Api(n)] \in Messages
      BY <2>1 DEF Notify, CallsSound, CallSound, Sending
    <3>2. QED
      BY <2>1, <3>1 DEF Notify, HistoryTypes
  <2>2. QED
    BY <1>3, <2>1 DEF Transmit, EnqLock, EnqStore, EnqCommit, EnqUnlock, history,
                      HistoryTypes
<1>4. ASSUME NEW n \in Nodes, Interrupt(n) \/ PollRing(n)
      PROVE  HistoryTypes'
  BY <1>4 DEF Interrupt, PollRing, RxWait, Poll, ConsLock, ConsUpdate, ConsUnlock,
              history, HistoryTypes
<1>5. ASSUME NEW n \in Nodes, RxData(n)
      PROVE  HistoryTypes'
  <2>1. CASE RxDeliver(n)
    <3>1. content[Head(rxQueue[n][NextPrio(n)])] \in Messages
      BY <2>1, HeadFilled DEF RxDeliver, Filled
    <3>2. QED
      BY <2>1, <3>1 DEF RxDeliver, HistoryTypes
  <2>2. QED
    BY <1>5, <2>1 DEF RxData, RxLock, RxDone, history, HistoryTypes
<1>6. ASSUME NEW n \in Nodes, Receive(n)
      PROVE  HistoryTypes'
  <2>1. content[Head(endpQueue[n])] \in Messages
    BY <1>6 DEF Receive, QueuesFilled, AllFilled, Filled, NodeTypes
  <2>2. QED
    BY <1>6, <2>1 DEF Receive, HistoryTypes
<1>7. ASSUME NEW t \in Threads, Free(t)
      PROVE  HistoryTypes'
  <2>1. CASE FreeUnlock(t)
    <3>1. ~ok[t] /\ t = Api(Node(t)) => msg[t] \in Messages
      BY <2>1, ThreadFacts DEF FreeUnlock, Goto, CallsSound, CallSound, Sending, Freeing
    <3>2. QED
      BY <2>1, <3>1 DEF FreeUnlock, HistoryTypes
  <2>2. QED
    BY <1>7, <2>1 DEF Free, FreeLock, FreeClear, history, HistoryTypes
<1>8. QED
  BY <1>1, <1>2, <1>3, <1>4, <1>5, <1>6, <1>7 DEF Next

\* What threads carry is what they may carry.
LEMMA ThreadTypesStep ==
  ASSUME DriverInv, Next
  PROVE  ThreadTypes'
<1> USE DEF DriverInv, TypeOK, Goto
<1>1. CASE \E call \in Traffic : StartSend(call)
  <2>1. PICK call \in Traffic : StartSend(call)
    BY <1>1
  <2>2. sends[call.src] + 1 \in 1 .. MaxSends[call.src]
    BY <2>1, CallFacts DEF StartSend, HistoryTypes
  <2>3. Message(call, sends[call.src] + 1) \in Messages
    BY <2>2, MessageOfCall
  <2>4. Api(call.src) \in Threads
    BY CallFacts, ThreadFacts
  <2>5. QED
    BY <2>1, <2>3, <2>4 DEF StartSend, ThreadTypes, Labels
<1>2. ASSUME NEW n \in Nodes, GetBuffer(n)
      PROVE  ThreadTypes'
  <2>1. CASE GetLock(n)
    BY <2>1, ThreadFacts DEF GetLock, ThreadTypes, Labels
  <2>2. CASE GetScan(n)
    BY <2>2, ThreadFacts, FirstFreeIsFree DEF GetScan, ThreadTypes, Labels
  <2>3. CASE GetMark(n)
    BY <2>3, ThreadFacts DEF GetMark, ThreadTypes, Labels
  <2>4. CASE GetUnlock(n)
    BY <2>4, ThreadFacts DEF GetUnlock, Return, ThreadTypes, Labels
  <2>5. QED
    BY <1>2, <2>1, <2>2, <2>3, <2>4 DEF GetBuffer
<1>3. ASSUME NEW n \in Nodes, Transmit(n)
      PROVE  ThreadTypes'
  <2>1. CASE EnqStore(n)
    <3>1. RingFull(msg[Api(n)].dst) \in BOOLEAN
      BY DEF RingFull
    <3>2. QED
      BY <2>1, <3>1, ThreadFacts DEF EnqStore, ThreadTypes, Labels
  <2>2. CASE EnqUnlock(n)
    BY <2>2, ThreadFacts DEF EnqUnlock, ThreadTypes, Labels
  <2>3. CASE Notify(n)
    BY <2>3, ThreadFacts DEF Notify, Return, ThreadTypes, Labels
  <2>4. QED
    BY <1>3, <2>1, <2>2, <2>3, ThreadFacts DEF Transmit, EnqLock, EnqCommit,
       ThreadTypes, Labels
<1>4. ASSUME NEW n \in Nodes, Interrupt(n)
      PROVE  ThreadTypes'
  BY <1>4, ThreadFacts DEF Interrupt, ThreadTypes, Labels
<1>5. ASSUME NEW n \in Nodes, PollRing(n)
      PROVE  ThreadTypes'
  <2>1. CASE RxWait(n)
    BY <2>1, ThreadFacts DEF RxWait, ThreadTypes, Labels
  <2>2. CASE Poll(n)
    BY <2>2, ThreadFacts DEF Poll, ThreadTypes, Labels
  <2>3. QED
    BY <1>5, <2>1, <2>2, ThreadFacts DEF PollRing, ConsLock, ConsUpdate, ConsUnlock,
                                         ThreadTypes, Labels
<1>6. ASSUME NEW n \in Nodes, RxData(n)
      PROVE  ThreadTypes'
  <2>1. CASE RxDeliver(n)
    <3>1. Head(rxQueue[n][NextPrio(n)]) \in Buffers
      BY <2>1, HeadFilled DEF RxDeliver, Filled
    <3>2. QED
      BY <2>1, <3>1, ThreadFacts DEF RxDeliver, ThreadTypes, Labels
  <2>2. QED
    BY <1>6, <2>1, ThreadFacts DEF RxData, RxLock, RxDone, ThreadTypes, Labels
<1>7. ASSUME NEW n \in Nodes, Receive(n)
      PROVE  ThreadTypes'
  <2>1. Head(endpQueue[n]) \in Buffers
    BY <1>7 DEF Receive, NodeTypes
  <2>2. QED
    BY <1>7, <2>1, ThreadFacts DEF Receive, ThreadTypes, Labels
<1>8. ASSUME NEW t \in Threads, Free(t)
      PROVE  ThreadTypes'
  <2>1. CASE FreeLock(t)
    BY <2>1 DEF FreeLock, ThreadTypes, Labels
  <2>2. CASE FreeClear(t)
    BY <2>2 DEF FreeClear, ThreadTypes, Labels
  <2>3. CASE FreeUnlock(t)
    BY <2>3 DEF FreeUnlock, AfterFree, ThreadTypes, Labels
  <2>4. QED
    BY <1>8, <2>1, <2>2, <2>3 DEF Free
<1>9. QED
  BY <1>1, <1>2, <1>3, <1>4, <1>5, <1>6, <1>7, <1>8 DEF Next

-----------------------------------------------------------------------------
(* Threads and locks.                                                      *)

\* No thread strays into the code of the other kind.
LEMMA PositionsStep ==
  ASSUME DriverInv, Next
  PROVE  Positions'
<1> USE DEF DriverInv, TypeOK, Goto
<1> USE ThreadFacts, ThreadKinds
<1>1. CASE \E call \in Traffic : StartSend(call)
  BY <1>1, CallFacts DEF StartSend, ThreadTypes, Positions, ApiLabels, Getting
<1>2. ASSUME NEW n \in Nodes, GetBuffer(n)
      PROVE  Positions'
  <2>1. CASE GetUnlock(n)
    BY <2>1 DEF GetUnlock, Return, ThreadTypes, Positions, ApiLabels, Enqueuing
  <2>2. CASE GetScan(n)
    BY <2>2 DEF GetScan, ThreadTypes, Positions, ApiLabels, Getting
  <2>3. QED
    BY <1>2, <2>1, <2>2 DEF GetBuffer, GetLock, GetMark, ThreadTypes, Positions,
                            ApiLabels, Getting
<1>3. ASSUME NEW n \in Nodes, Transmit(n)
      PROVE  Positions'
  <2>1. CASE EnqStore(n)
    BY <2>1 DEF EnqStore, ThreadTypes, Positions, ApiLabels, Enqueuing
  <2>2. CASE EnqUnlock(n)
    BY <2>2 DEF EnqUnlock, ThreadTypes, Positions, ApiLabels, Freeing
  <2>3. CASE Notify(n)
    BY <2>3 DEF Notify, Return, ThreadTypes, Positions, ApiLabels, Freeing
  <2>4. QED
    BY <1>3, <2>1, <2>2, <2>3 DEF Transmit, EnqLock, EnqCommit, ThreadTypes, Positions,
                                  ApiLabels, Enqueuing
<1>4. ASSUME NEW n \in Nodes, Interrupt(n)
      PROVE  Positions'
  BY <1>4 DEF Interrupt, ThreadTypes, Positions, RxLabels
<1>5. ASSUME NEW n \in Nodes, PollRing(n)
      PROVE  Positions'
  <2>1. CASE RxWait(n)
    BY <2>1 DEF RxWait, ThreadTypes, Positions, RxLabels
  <2>2. CASE Poll(n)
    BY <2>2 DEF Poll, ThreadTypes, Positions, RxLabels
  <2>3. QED
    BY <1>5, <2>1, <2>2 DEF PollRing, ConsLock, ConsUpdate, ConsUnlock, ThreadTypes,
                            Positions, RxLabels
<1>6. ASSUME NEW n \in Nodes, RxData(n)
      PROVE  Positions'
  BY <1>6 DEF RxData, RxLock, RxDeliver, RxDone, ThreadTypes, Positions, RxLabels,
     Freeing
<1>7. ASSUME NEW n \in Nodes, Receive(n)
      PROVE  Positions'
  BY <1>7 DEF Receive, ThreadTypes, Positions, ApiLabels, Freeing
<1>8. ASSUME NEW t \in Threads, Free(t)
      PROVE  Positions'
  BY <1>8 DEF Free, FreeLock, FreeClear, FreeUnlock, ThreadTypes, Positions, ApiLabels,
              RxLabels, Freeing
<1>9. QED
  BY <1>1, <1>2, <1>3, <1>4, <1>5, <1>6, <1>7, <1>8 DEF Next

\* A lock passes from holder to holder: nobody is in a critical section whose lock
\* is another's.
LEMMA LocksHeldStep ==
  ASSUME DriverInv, Next
  PROVE  LocksHeld'
<1> USE ThreadFacts, ThreadKinds DEF DriverInv, TypeOK, Goto, ThreadTypes, LocksHeld
<1>1. CASE \E call \in Traffic : StartSend(call)
  <2>1. PICK call \in Traffic : StartSend(call)
    BY <1>1
  <2>2. call.src \in Nodes
    BY CallFacts
  <2>3. QED
    BY <2>1, <2>2 DEF StartSend, poolVars, ringVars
<1>2. ASSUME NEW n \in Nodes, GetBuffer(n)
      PROVE  LocksHeld'
  <2>1. CASE GetLock(n)
    BY <2>1 DEF GetLock, ringVars
  <2>2. CASE GetScan(n)
    BY <2>2 DEF GetScan, poolVars, ringVars
  <2>3. CASE GetMark(n)
    BY <2>3 DEF GetMark, ringVars
  <2>4. CASE GetUnlock(n)
    BY <2>4 DEF GetUnlock, UnlockPool, Return, ringVars
  <2>5. QED
    BY <1>2, <2>1, <2>2, <2>3, <2>4 DEF GetBuffer
<1>3. ASSUME NEW n \in Nodes, Transmit(n)
      PROVE  LocksHeld'
  <2>0. Sending(n) => msg[Api(n)].dst \in Nodes
    BY MessageFacts DEF CallsSound, CallSound
  <2>1. CASE EnqLock(n)
    BY <2>0, <2>1 DEF EnqLock, poolVars, RingTypes, Sending, Enqueuing
  <2>2. CASE EnqStore(n)
    BY <2>2 DEF EnqStore, poolVars
  <2>3. CASE EnqCommit(n)
    BY <2>3 DEF EnqCommit, poolVars
  <2>4. CASE EnqUnlock(n)
    BY <2>0, <2>4 DEF EnqUnlock, poolVars, RingTypes, Sending, Enqueuing
  <2>5. CASE Notify(n)
    BY <2>5 DEF Notify, Return, poolVars, ringVars
  <2>6. QED
    BY <1>3, <2>1, <2>2, <2>3, <2>4, <2>5 DEF Transmit
<1>4. ASSUME NEW n \in Nodes, Interrupt(n)
      PROVE  LocksHeld'
  BY <1>4 DEF Interrupt, poolVars, ringVars
<1>5. ASSUME NEW n \in Nodes, PollRing(n)
      PROVE  LocksHeld'
  <2>1. CASE RxWait(n) \/ Poll(n)
    BY <2>1 DEF RxWait, Poll, poolVars, ringVars
  <2>2. CASE ConsLock(n)
    BY <2>2 DEF ConsLock, poolVars, RingTypes
  <2>3. CASE ConsUpdate(n)
    BY <2>3 DEF ConsUpdate, poolVars
  <2>4. CASE ConsUnlock(n)
    BY <2>4 DEF ConsUnlock, poolVars, RingTypes
  <2>5. QED
    BY <1>5, <2>1, <2>2, <2>3, <2>4 DEF PollRing
<1>6. ASSUME NEW n \in Nodes, RxData(n)
      PROVE  LocksHeld'
  BY <1>6 DEF RxData, RxLock, RxDeliver, RxDone, poolVars, ringVars
<1>7. ASSUME NEW n \in Nodes, Receive(n)
      PROVE  LocksHeld'
  BY <1>7 DEF Receive, poolVars, ringVars
<1>8. ASSUME NEW t \in Threads, Free(t)
      PROVE  LocksHeld'
  <2>1. CASE FreeLock(t)
    BY <2>1 DEF FreeLock, ringVars
  <2>2. CASE FreeClear(t)
    BY <2>2 DEF FreeClear, ringVars
  <2>3. CASE FreeUnlock(t)
    BY <2>3 DEF FreeUnlock, ringVars
  <2>4. QED
    BY <1>8, <2>1, <2>2, <2>3 DEF Free
<1>9. QED
  BY <1>1, <1>2, <1>3, <1>4, <1>5, <1>6, <1>7, <1>8 DEF Next

\* A step of somebody else that leaves alone what the call relies on.
LEMMA CallFrame ==
  ASSUME DriverInv, NEW m \in Nodes,
         pc'[Api(m)] = pc[Api(m)], ok'[Api(m)] = ok[Api(m)],
         buf'[Api(m)] = buf[Api(m)], msg'[Api(m)] = msg[Api(m)],
         pc[Api(m)] = "get_mark" => mask' = mask,
         pc[Api(m)] = "enq_commit" =>
           LET d == msg[Api(m)].dst IN
           count'[d] = count[d] /\ put'[d] = put[d] /\ ring'[d] = ring[d]
  PROVE  CallSound(m)'
BY DEF DriverInv, CallsSound, CallSound, Sending

\* What a call relies on holds until it is done, whatever the other threads do.
LEMMA CallsSoundStep ==
  ASSUME DriverInv, Next
  PROVE  CallsSound'
<1> USE ThreadFacts, ThreadKinds
    DEF DriverInv, TypeOK, Goto, ThreadTypes, CallsSound
<1>1. CASE \E call \in Traffic : StartSend(call)
  <2>1. PICK call \in Traffic : StartSend(call)
    BY <1>1
  <2>2. call.src \in Nodes
    BY CallFacts
  <2>3. sends[call.src] + 1 \in 1 .. MaxSends[call.src]
    BY <2>1, CallFacts DEF StartSend, HistoryTypes
  <2>4. /\ Message(call, sends[call.src] + 1) \in Messages
        /\ Message(call, sends[call.src] + 1).src = call.src
    BY <2>3, MessageOfCall DEF Message
  <2>5. ASSUME NEW m \in Nodes, m # call.src
        PROVE  CallSound(m)'
    <3>1. Api(m) \in Threads /\ Api(m) # Api(call.src)
      BY <2>2, <2>5
    <3>2. /\ pc'[Api(m)] = pc[Api(m)] /\ ok'[Api(m)] = ok[Api(m)]
          /\ buf'[Api(m)] = buf[Api(m)] /\ msg'[Api(m)] = msg[Api(m)]
      BY <2>1, <3>1 DEF StartSend
    <3>3. mask' = mask /\ count' = count /\ put' = put /\ ring' = ring
      BY <2>1 DEF StartSend, poolVars, ringVars
    <3>4. QED
      BY <3>2, <3>3, CallFrame
  <2>6. CallSound(call.src)'
    BY <2>1, <2>2, <2>4 DEF StartSend, poolVars, ringVars, Getting, Enqueuing,
       Freeing, CallSound, Sending
  <2>7. QED
    BY <2>2, <2>5, <2>6
<1>2. ASSUME NEW n \in Nodes, GetBuffer(n)
      PROVE  CallsSound'
  <2>1. CASE GetLock(n)
    BY <2>1 DEF GetLock, ringVars, Getting, Enqueuing, Freeing, CallSound, Sending
  <2>2. CASE GetScan(n)
    <3>1. ASSUME NEW m \in Nodes, m # n
          PROVE  CallSound(m)'
      BY <3>1, <2>2 DEF GetScan, poolVars, ringVars, Getting, Enqueuing, Freeing,
         CallSound, Sending
    <3>2. CallSound(n)'
      BY <2>2, FirstFreeIsFree DEF GetScan, poolVars, ringVars, Getting, Enqueuing,
         Freeing, CallSound, Sending
    <3>3. QED
      BY <3>1, <3>2
  <2>3. CASE GetMark(n)
    BY <2>3 DEF GetMark, ringVars, LocksHeld, Getting, Enqueuing, Freeing, CallSound,
       Sending
  <2>4. CASE GetUnlock(n)
    BY <2>4 DEF GetUnlock, Return, ringVars, Getting, Enqueuing, Freeing, CallSound,
       Sending
  <2>5. QED
    BY <1>2, <2>1, <2>2, <2>3, <2>4 DEF GetBuffer
<1>3. ASSUME NEW n \in Nodes, Transmit(n)
      PROVE  CallsSound'
  <2>1. CASE EnqLock(n)
    BY <2>1 DEF EnqLock, poolVars, Getting, Enqueuing, Freeing, CallSound, Sending
  <2>2. CASE EnqStore(n)
    <3> DEFINE d == msg[Api(n)].dst
    <3>1. d \in Nodes /\ ringLock[d] = Api(n)
      BY <2>2, MessageFacts DEF EnqStore, LocksHeld, Enqueuing, CallSound, Sending
    <3>2. put[d] \in Slots /\ count[d] \in 0 .. RingSize
      BY <3>1 DEF RingTypes, CallSound, Sending
    <3>3. ~ RingFull(d) => count[d] < RingSize
      BY <3>2, ShmAssumption DEF RingFull, CallSound, Sending
    <3>4. ~ RingFull(d) =>
            ring'[d][put[d]] = [buf |-> buf[Api(n)], prio |-> msg[Api(n)].prio]
      BY <2>2, <3>1, <3>2 DEF EnqStore, RingTypes, CallSound, Sending
    <3>5. ASSUME NEW m \in Nodes, m # n, pc'[Api(m)] = "enq_commit"
          PROVE  ring'[msg[Api(m)].dst] = ring[msg[Api(m)].dst]
      <4>1. pc[Api(m)] = "enq_commit"
        BY <2>2, <3>5 DEF EnqStore, CallSound, Sending
      <4>2. ringLock[msg[Api(m)].dst] = Api(m)
        BY <4>1 DEF LocksHeld, CallSound, Sending
      <4>3. msg[Api(m)].dst # d
        BY <3>1, <4>2, <3>5
      <4>4. msg[Api(m)].dst \in Nodes
        BY <4>1, MessageFacts DEF Enqueuing, CallSound, Sending
      <4>5. QED
        BY <2>2, <4>3, <4>4 DEF EnqStore, RingTypes, CallSound, Sending
    <3>6. ASSUME NEW m \in Nodes, m # n
          PROVE  CallSound(m)'
      <4>1. Api(m) \in Threads /\ Api(m) # Api(n)
        BY <3>6
      <4>2. /\ pc'[Api(m)] = pc[Api(m)] /\ ok'[Api(m)] = ok[Api(m)]
            /\ buf'[Api(m)] = buf[Api(m)] /\ msg'[Api(m)] = msg[Api(m)]
        BY <2>2, <4>1 DEF EnqStore
      <4>3. mask' = mask /\ count' = count /\ put' = put
        BY <2>2 DEF EnqStore, poolVars
      <4>4. pc[Api(m)] = "enq_commit" => ring'[msg[Api(m)].dst] = ring[msg[Api(m)].dst]
        BY <3>5, <3>6, <4>2
      <4>5. QED
        BY <4>2, <4>3, <4>4, CallFrame
    <3>7. CallSound(n)'
      BY <2>2, <3>1, <3>3, <3>4 DEF EnqStore, poolVars, Getting, Enqueuing, Freeing,
         CallSound, Sending
    <3>8. QED
      BY <3>6, <3>7
  <2>3. CASE EnqCommit(n)
    <3>1. ASSUME NEW m \in Nodes, m # n, pc[Api(m)] = "enq_commit"
          PROVE  LET d == msg[Api(m)].dst IN
                 count'[d] = count[d] /\ put'[d] = put[d] /\ ring'[d] = ring[d]
      <4>1. msg[Api(m)].dst # msg[Api(n)].dst
        BY <2>3, <3>1 DEF EnqCommit, LocksHeld, CallSound, Sending
      <4>2. msg[Api(m)].dst \in Nodes
        BY <3>1, MessageFacts DEF Enqueuing, CallSound, Sending
      <4>3. QED
        BY <2>3, <4>1, <4>2 DEF EnqCommit, RingTypes, CallSound, Sending
    <3>2. ASSUME NEW m \in Nodes, m # n
          PROVE  CallSound(m)'
      BY <2>3, <3>1, <3>2, CallFrame DEF EnqCommit, poolVars
    <3>3. CallSound(n)'
      BY <2>3 DEF EnqCommit, poolVars, Getting, Enqueuing, Freeing, CallSound, Sending
    <3>4. QED
      BY <3>2, <3>3
  <2>4. CASE EnqUnlock(n)
    BY <2>4 DEF EnqUnlock, poolVars, Getting, Enqueuing, Freeing, CallSound, Sending
  <2>5. CASE Notify(n)
    <3>1. ASSUME NEW m \in Nodes, m # n
          PROVE  CallSound(m)'
      BY <3>1, <2>5 DEF Notify, Return, poolVars, ringVars, Getting, Enqueuing,
         Freeing, CallSound, Sending
    <3>2. CallSound(n)'
      <4>1. /\ pc'[Api(n)] \in {"idle", "free_lock"}
            /\ pc'[Api(n)] = "idle" => ok'[Api(n)]
            /\ msg' = msg
        <5>1. ok[Api(n)]
          BY <2>5 DEF Notify, Freeing, CallSound, Sending
        <5>2. CASE Return(n) /\ UNCHANGED ok
          BY <2>5, <5>1, <5>2 DEF Notify, Return, CallSound, Sending
        <5>3. CASE pc' = [pc EXCEPT ![Api(n)] = "free_lock"]
          BY <2>5, <5>3 DEF Notify, CallSound, Sending
        <5>4. QED
          BY <2>5, <5>2, <5>3 DEF Notify, CallSound, Sending
      <4>2. msg[Api(n)] \in Messages /\ msg[Api(n)].src = n
        BY <2>5 DEF Notify, CallSound, Sending
      <4>3. QED
        BY <4>1, <4>2 DEF Getting, Enqueuing, Freeing, CallSound, Sending
    <3>3. QED
      BY <3>1, <3>2
  <2>6. QED
    BY <1>3, <2>1, <2>2, <2>3, <2>4, <2>5 DEF Transmit
<1>4. ASSUME NEW n \in Nodes, Interrupt(n)
      PROVE  CallsSound'
  BY <1>4, CallFrame DEF Interrupt, poolVars, ringVars
<1>5. ASSUME NEW n \in Nodes, PollRing(n)
      PROVE  CallsSound'
  <2>1. CASE RxWait(n) \/ Poll(n)
    BY <2>1, CallFrame DEF RxWait, Poll, poolVars, ringVars
  <2>2. CASE ConsLock(n) \/ ConsUnlock(n)
    BY <2>2, CallFrame DEF ConsLock, ConsUnlock, poolVars
  <2>3. CASE ConsUpdate(n)
    <3>1. ASSUME NEW m \in Nodes, pc[Api(m)] = "enq_commit"
          PROVE  LET d == msg[Api(m)].dst IN
                 count'[d] = count[d] /\ put'[d] = put[d] /\ ring'[d] = ring[d]
      <4>1. msg[Api(m)].dst # n
        BY <3>1, <2>3 DEF ConsUpdate, LocksHeld, CallSound, Sending
      <4>2. QED
        BY <2>3, <4>1 DEF ConsUpdate, RingTypes, CallSound, Sending
    <3>2. QED
      BY <2>3, <3>1, CallFrame DEF ConsUpdate, poolVars
  <2>4. QED
    BY <1>5, <2>1, <2>2, <2>3 DEF PollRing
<1>6. ASSUME NEW n \in Nodes, RxData(n)
      PROVE  CallsSound'
  BY <1>6, CallFrame DEF RxData, RxLock, RxDeliver, RxDone, poolVars, ringVars
<1>7. ASSUME NEW n \in Nodes, Receive(n)
      PROVE  CallsSound'
  <2>1. ASSUME NEW m \in Nodes, m # n
      PROVE  CallSound(m)'
    BY <2>1, <1>7 DEF Receive, poolVars, ringVars, Getting, Enqueuing, Freeing,
       CallSound, Sending
  <2>2. CallSound(n)'
    BY <1>7 DEF Receive, poolVars, ringVars, Getting, Enqueuing, Freeing, CallSound,
       Sending
  <2>3. QED
    BY <2>1, <2>2
<1>8. ASSUME NEW t \in Threads, Free(t)
      PROVE  CallsSound'
  <2>1. CASE FreeLock(t)
    BY <2>1 DEF FreeLock, ringVars, Getting, Enqueuing, Freeing, CallSound, Sending
  <2>2. CASE FreeClear(t)
    BY <2>2 DEF FreeClear, ringVars, LocksHeld, Getting, Enqueuing, Freeing,
       CallSound, Sending
  <2>3. CASE FreeUnlock(t)
    BY <2>3 DEF FreeUnlock, ringVars, Getting, Enqueuing, Freeing, CallSound, Sending
  <2>4. QED
    BY <1>8, <2>1, <2>2, <2>3 DEF Free
<1>9. QED
  BY <1>1, <1>2, <1>3, <1>4, <1>5, <1>6, <1>7, <1>8 DEF Next

\* A buffer is only ever filled in with a message, so what is filled stays so.
LEMMA FilledStable ==
  ASSUME DriverInv, Next, NEW b, Filled(b)
  PROVE  Filled(b)'
<1> USE DEF DriverInv, TypeOK, PoolTypes, Filled
<1>1. ASSUME NEW n \in Nodes, GetUnlock(n)
      PROVE  Filled(b)'
  <2>1. msg[Api(n)] \in Messages
    BY <1>1 DEF GetUnlock, CallsSound, CallSound, Sending, Getting
  <2>2. QED
    BY <1>1, <2>1 DEF GetUnlock
<1>2. CASE content' = content
  BY <1>2
<1>3. QED
  <2>1. ASSUME NEW n \in Nodes, GetBuffer(n)
        PROVE  Filled(b)'
    BY <2>1, <1>1, <1>2 DEF GetBuffer, GetLock, GetScan, GetMark
  <2>2. ASSUME NEW n \in Nodes, Transmit(n) \/ Interrupt(n) \/ PollRing(n) \/ RxData(n)
                                \/ Receive(n)
        PROVE  Filled(b)'
    BY <2>2, <1>2 DEF Transmit, EnqLock, EnqStore, EnqCommit, EnqUnlock, Notify,
         Interrupt, PollRing, RxWait, Poll, ConsLock, ConsUpdate, ConsUnlock, RxData,
         RxLock, RxDeliver, RxDone, Receive
  <2>3. ASSUME NEW t \in Threads, Free(t)
        PROVE  Filled(b)'
    BY <2>3, <1>2 DEF Free, FreeLock, FreeClear, FreeUnlock
  <2>4. CASE \E call \in Traffic : StartSend(call)
    BY <2>4, <1>2 DEF StartSend
  <2>5. QED
    BY <2>1, <2>2, <2>3, <2>4 DEF Next

\* Nobody sends a buffer that was not filled in.
LEMMA BuffersSoundStep ==
  ASSUME DriverInv, Next
  PROVE  BuffersSound'
<1> USE ThreadFacts, ThreadKinds
    DEF DriverInv, TypeOK, Goto, ThreadTypes
<1>0. \A b : Filled(b) => Filled(b)'
  BY FilledStable
<1> USE <1>0 DEF BuffersSound
<1>1. CASE \E call \in Traffic : StartSend(call)
  BY <1>1, CallFacts DEF StartSend, Enqueuing
<1>2. ASSUME NEW n \in Nodes, GetBuffer(n)
      PROVE  BuffersSound'
  <2>1. CASE GetLock(n)
    BY <2>1 DEF GetLock, Enqueuing
  <2>2. CASE GetScan(n)
    BY <2>2 DEF GetScan, Enqueuing
  <2>3. CASE GetMark(n)
    BY <2>3 DEF GetMark, Enqueuing
  <2>4. CASE GetUnlock(n)
    <3>1. msg[Api(n)] \in Messages
      BY <2>4 DEF GetUnlock, CallsSound, CallSound, Sending, Getting
    <3>2. CASE buf[Api(n)] = NoBuffer
      BY <2>4, <3>2 DEF GetUnlock, Return, Enqueuing
    <3>3. CASE buf[Api(n)] # NoBuffer
      <4>1. Filled(buf[Api(n)])'
        BY <2>4, <3>1, <3>3 DEF GetUnlock, Filled, PoolTypes
      <4>2. QED
        BY <2>4, <3>3, <4>1 DEF GetUnlock, Enqueuing
    <3>4. QED
      BY <3>2, <3>3
  <2>5. QED
    BY <1>2, <2>1, <2>2, <2>3, <2>4 DEF GetBuffer
<1>3. ASSUME NEW n \in Nodes, Transmit(n)
      PROVE  BuffersSound'
  <2>1. CASE EnqLock(n)
    BY <2>1 DEF EnqLock, Enqueuing
  <2>2. CASE EnqStore(n)
    BY <2>2 DEF EnqStore, Enqueuing
  <2>3. CASE EnqCommit(n)
    BY <2>3 DEF EnqCommit, Enqueuing
  <2>4. CASE EnqUnlock(n)
    BY <2>4 DEF EnqUnlock, Filled, Enqueuing
  <2>5. CASE Notify(n)
    BY <2>5 DEF Notify, Return, Filled, Enqueuing
  <2>6. QED
    BY <1>3, <2>1, <2>2, <2>3, <2>4, <2>5 DEF Transmit
<1>4. ASSUME NEW n \in Nodes, Interrupt(n)
      PROVE  BuffersSound'
  BY <1>4 DEF Interrupt, Enqueuing
<1>5. ASSUME NEW n \in Nodes, PollRing(n)
      PROVE  BuffersSound'
  BY <1>5 DEF PollRing, RxWait, Poll, ConsLock, ConsUpdate, ConsUnlock, Enqueuing
<1>6. ASSUME NEW n \in Nodes, RxData(n)
      PROVE  BuffersSound'
  <2>1. CASE RxDeliver(n)
    BY <2>1, HeadFilled DEF RxDeliver, Filled, Enqueuing
  <2>2. QED
    BY <1>6, <2>1 DEF RxData, RxLock, RxDone, Enqueuing
<1>7. ASSUME NEW n \in Nodes, Receive(n)
      PROVE  BuffersSound'
  <2>1. Head(endpQueue[n]) \in Buffers
    BY <1>7 DEF Receive, NodeTypes
  <2>2. QED
    BY <1>7, <2>1 DEF Receive, Enqueuing
<1>8. ASSUME NEW t \in Threads, Free(t)
      PROVE  BuffersSound'
  BY <1>8 DEF Free, FreeLock, FreeClear, FreeUnlock, Enqueuing
<1>9. QED
  BY <1>1, <1>2, <1>3, <1>4, <1>5, <1>6, <1>7, <1>8 DEF Next

-----------------------------------------------------------------------------
(* Rings.                                                                  *)

\* Different distances from get_idx are different slots.
LEMMA SlotInjective ==
  ASSUME NEW g \in Slots, NEW a \in 0 .. RingSize - 1, NEW b \in 0 .. RingSize - 1,
         (g + a) % RingSize = (g + b) % RingSize
  PROVE  a = b
<1>1. a \in 0 .. RingSize /\ b \in 0 .. RingSize /\ RingSize \in Nat
  BY ShmAssumption
<1>2. /\ (g + a) % RingSize = IF g + a < RingSize THEN g + a ELSE g + a - RingSize
      /\ (g + b) % RingSize = IF g + b < RingSize THEN g + b ELSE g + b - RingSize
  BY <1>1, ModWrap
<1>3. (IF g + a < RingSize THEN g + a ELSE g + a - RingSize)
        = (IF g + b < RingSize THEN g + b ELSE g + b - RingSize)
  BY <1>2
<1>4. QED
  BY <1>1, <1>3 DEF Slots

\* Distances from the next get_idx are one less.
LEMMA SlotShift ==
  ASSUME NEW g \in Slots, NEW a \in 0 .. RingSize - 1
  PROVE  (((g + 1) % RingSize) + a) % RingSize = (g + (a + 1)) % RingSize
<1> DEFINE h == (g + 1) % RingSize
<1>1. 1 \in 0 .. RingSize /\ a \in 0 .. RingSize /\ a + 1 \in 0 .. RingSize /\ RingSize \in Nat
  BY ShmAssumption
<1>2. h \in Slots /\ h = IF g + 1 < RingSize THEN g + 1 ELSE g + 1 - RingSize
  BY <1>1, ModWrap
<1> HIDE DEF h
<1>3. (h + a) % RingSize = IF h + a < RingSize THEN h + a ELSE h + a - RingSize
  BY <1>1, <1>2, ModWrap
<1>4. (g + (a + 1)) % RingSize
        = IF g + (a + 1) < RingSize THEN g + (a + 1) ELSE g + (a + 1) - RingSize
  BY <1>1, ModWrap
<1>5. (IF h + a < RingSize THEN h + a ELSE h + a - RingSize)
        = (IF g + (a + 1) < RingSize THEN g + (a + 1) ELSE g + (a + 1) - RingSize)
  BY <1>1, <1>2 DEF Slots
<1>6. (h + a) % RingSize = (g + (a + 1)) % RingSize
  BY <1>3, <1>4, <1>5
<1>7. QED
  BY <1>6 DEF h

\* The slot that follows put_idx is one place further from get_idx.
LEMMA SlotAfter ==
  ASSUME NEW g \in Slots, NEW c \in 0 .. RingSize - 1
  PROVE  (((g + c) % RingSize) + 1) % RingSize = (g + (c + 1)) % RingSize
<1> DEFINE h == (g + c) % RingSize
<1>1. 1 \in 0 .. RingSize /\ c \in 0 .. RingSize /\ c + 1 \in 0 .. RingSize /\ RingSize \in Nat
  BY ShmAssumption
<1>2. h \in Slots /\ h = IF g + c < RingSize THEN g + c ELSE g + c - RingSize
  BY <1>1, ModWrap
<1> HIDE DEF h
<1>3. (h + 1) % RingSize = IF h + 1 < RingSize THEN h + 1 ELSE h + 1 - RingSize
  BY <1>1, <1>2, ModWrap
<1>4. (g + (c + 1)) % RingSize
        = IF g + (c + 1) < RingSize THEN g + (c + 1) ELSE g + (c + 1) - RingSize
  BY <1>1, ModWrap
<1>5. (IF h + 1 < RingSize THEN h + 1 ELSE h + 1 - RingSize)
        = (IF g + (c + 1) < RingSize THEN g + (c + 1) ELSE g + (c + 1) - RingSize)
  BY <1>1, <1>2 DEF Slots
<1>6. (h + 1) % RingSize = (g + (c + 1)) % RingSize
  BY <1>3, <1>4, <1>5
<1>7. QED
  BY <1>6 DEF h

\* A ring that a step leaves alone stays sound.
LEMMA RingFrame ==
  ASSUME DriverInv, Next, NEW n \in Nodes,
         ring'[n] = ring[n], put'[n] = put[n], get'[n] = get[n], count'[n] = count[n],
         HeadTaken(n)' => HeadTaken(n) \/ count[n] > 0
  PROVE  RingSound(n)'
<1>1. RingSound(n) /\ count[n] \in Nat
  BY DEF DriverInv, TypeOK, RingTypes, RingsSound
<1>2. ASSUME NEW o \in 0 .. count[n] - 1
      PROVE  Filled(Desc(n, o).buf)'
  <2>1. Desc(n, o)' = Desc(n, o)
    BY DEF Desc
  <2>2. Filled(Desc(n, o).buf)
    BY <1>1 DEF RingSound
  <2>3. QED
    BY <2>1, <2>2, FilledStable
<1>3. put'[n] = (get'[n] + count'[n]) % RingSize
  BY <1>1 DEF RingSound
<1>4. HeadTaken(n)' => count'[n] > 0
  BY <1>1 DEF RingSound
<1>5. QED
  BY <1>2, <1>3, <1>4 DEF RingSound

\* The indices and the count of a ring stay in step, and what is visible is filled in.
LEMMA RingsSoundStep ==
  ASSUME DriverInv, Next
  PROVE  RingsSound'
<1> USE ThreadFacts, ThreadKinds DEF DriverInv, TypeOK, Goto, ThreadTypes
<1>1. CASE \E call \in Traffic : StartSend(call)
  <2>1. \A n \in Nodes : HeadTaken(n)' => HeadTaken(n)
    BY <1>1, CallFacts DEF StartSend, HeadTaken
  <2>2. QED
    BY <1>1, <2>1, RingFrame DEF StartSend, ringVars, RingsSound
<1>2. ASSUME NEW n \in Nodes, GetBuffer(n)
      PROVE  RingsSound'
  <2>1. \A m \in Nodes : HeadTaken(m)' => HeadTaken(m)
    BY <1>2 DEF GetBuffer, GetLock, GetScan, GetMark, GetUnlock, Return, HeadTaken
  <2>2. ringVars' = ringVars
    BY <1>2 DEF GetBuffer, GetLock, GetScan, GetMark, GetUnlock
  <2>3. QED
    BY <2>1, <2>2, RingFrame DEF ringVars, RingsSound
<1>3. ASSUME NEW n \in Nodes, Transmit(n)
      PROVE  RingsSound'
  <2>0. \A m \in Nodes : HeadTaken(m)' => HeadTaken(m)
    BY <1>3 DEF Transmit, EnqLock, EnqStore, EnqCommit, EnqUnlock, Notify, Return,
       HeadTaken
  <2>1. CASE EnqLock(n) \/ EnqUnlock(n) \/ Notify(n)
    BY <2>0, <2>1, RingFrame DEF EnqLock, EnqUnlock, Notify, ringVars, RingsSound
  <2>2. CASE EnqStore(n)
    <3>1. PICK d \in Nodes : d = msg[Api(n)].dst
      BY <2>2, MessageFacts DEF EnqStore, CallsSound, CallSound, Sending, Enqueuing
    <3>2. ASSUME NEW m \in Nodes, m # d
          PROVE  RingSound(m)'
      BY <2>0, <2>2, <3>1, <3>2, RingFrame DEF EnqStore, RingTypes
    <3>3. RingSound(d)'
      <4>1. CASE RingFull(d)
        BY <2>0, <2>2, <3>1, <4>1, RingFrame DEF EnqStore
      <4>2. CASE ~ RingFull(d)
        <5>1. /\ get[d] \in Slots /\ put[d] \in Slots
              /\ count[d] \in 0 .. RingSize - 1
              /\ RingSound(d)
          <6>1. get[d] \in Slots /\ put[d] \in Slots /\ count[d] \in 0 .. RingSize
            BY DEF RingTypes
          <6>2. count[d] \in 0 .. RingSize - 1
            BY <3>1, <4>2, <6>1, ShmAssumption DEF RingFull
          <6>3. QED
            BY <6>1, <6>2 DEF RingsSound
        <5>2. ASSUME NEW o \in 0 .. count[d] - 1
              PROVE  Filled(Desc(d, o).buf)'
          <6>1. o \in 0 .. RingSize - 1 /\ o # count[d]
            BY <5>1, ShmAssumption
          <6>2. (get[d] + o) % RingSize # put[d]
            BY <5>1, <6>1, SlotInjective DEF RingSound
          <6>3. (get[d] + o) % RingSize \in Slots
            BY <5>1, <6>1, ModWrap, ShmAssumption
          <6>4. Desc(d, o)' = Desc(d, o)
            BY <2>2, <3>1, <5>1, <6>2, <6>3 DEF EnqStore, Desc, RingTypes
          <6>5. Filled(Desc(d, o).buf)
            BY <5>1 DEF RingSound
          <6>6. QED
            BY <6>4, <6>5, FilledStable
        <5>3. put' = put /\ get' = get /\ count' = count
          BY <2>2 DEF EnqStore
        <5>4. QED
          BY <2>0, <3>1, <5>1, <5>2, <5>3 DEF RingSound
      <4>3. QED
        BY <4>1, <4>2
    <3>4. QED
      BY <3>2, <3>3 DEF RingsSound
  <2>3. CASE EnqCommit(n)
    <3>0. PICK d \in Nodes : d = msg[Api(n)].dst
      BY <2>3, MessageFacts DEF EnqCommit, CallsSound, CallSound, Sending, Enqueuing
    <3>1. count[d] < RingSize /\ ring[d][put[d]].buf = buf[Api(n)]
      <4>1. /\ count[d] < RingSize
            /\ ring[d][put[d]] = [buf |-> buf[Api(n)], prio |-> msg[Api(n)].prio]
        BY <2>3, <3>0 DEF EnqCommit, CallsSound, CallSound
      <4>2. QED
        BY <4>1
    <3>2. ASSUME NEW m \in Nodes, m # d
          PROVE  RingSound(m)'
      BY <2>0, <2>3, <3>0, <3>2, RingFrame DEF EnqCommit, RingTypes
    <3>3. /\ get[d] \in Slots /\ count[d] \in 0 .. RingSize - 1 /\ RingSound(d)
          /\ put'[d] = (put[d] + 1) % RingSize /\ count'[d] = count[d] + 1
          /\ ring' = ring /\ get' = get
      BY <2>3, <3>0, <3>1, ShmAssumption DEF EnqCommit, RingTypes, RingsSound
    <3>4. put'[d] = (get'[d] + count'[d]) % RingSize
      BY <3>3, SlotAfter DEF RingSound
    <3>5. ASSUME NEW o \in 0 .. count'[d] - 1
          PROVE  Filled(Desc(d, o).buf)'
      <4>1. Desc(d, o)' = Desc(d, o)
        BY <3>3 DEF Desc
      <4>2. ASSUME o = count[d]
            PROVE  Filled(Desc(d, o).buf)
        <5>1. Filled(buf[Api(n)])
          BY <2>3 DEF EnqCommit, BuffersSound, Enqueuing
        <5>2. Desc(d, o) = ring[d][put[d]]
          BY <3>3, <4>2 DEF RingSound, Desc
        <5>3. QED
          BY <3>1, <5>1, <5>2
      <4>3. ASSUME o # count[d]
            PROVE  Filled(Desc(d, o).buf)
        <5>1. o \in 0 .. count[d] - 1
          BY <3>3, <4>3
        <5>2. QED
          BY <3>3, <5>1 DEF RingSound
      <4>4. Filled(Desc(d, o).buf)
        BY <4>2, <4>3
      <4>5. QED
        BY <4>1, <4>4, FilledStable
    <3>6. RingSound(d)'
      BY <2>0, <3>1, <3>3, <3>4, <3>5 DEF RingSound
    <3>7. QED
      BY <3>2, <3>6 DEF RingsSound
  <2>4. QED
    BY <1>3, <2>1, <2>2, <2>3 DEF Transmit
<1>4. ASSUME NEW n \in Nodes, Interrupt(n) \/ RxData(n) \/ Receive(n)
      PROVE  RingsSound'
  <2>1. \A m \in Nodes : HeadTaken(m)' => HeadTaken(m)
    BY <1>4 DEF Interrupt, RxData, RxLock, RxDeliver, RxDone, Receive, HeadTaken
  <2>2. ringVars' = ringVars
    BY <1>4 DEF Interrupt, RxData, RxLock, RxDeliver, RxDone, Receive
  <2>3. QED
    BY <2>1, <2>2, RingFrame DEF ringVars, RingsSound
<1>5. ASSUME NEW n \in Nodes, PollRing(n)
      PROVE  RingsSound'
  <2>1. CASE RxWait(n) \/ Poll(n)
    <3>1. \A m \in Nodes : HeadTaken(m)' => HeadTaken(m) \/ count[m] > 0
      BY <2>1 DEF RxWait, Poll, HeadTaken
    <3>2. QED
      BY <2>1, <3>1, RingFrame DEF RxWait, Poll, ringVars, RingsSound
  <2>2. CASE ConsLock(n) \/ ConsUnlock(n)
    <3>1. \A m \in Nodes : HeadTaken(m)' => HeadTaken(m)
      BY <2>2 DEF ConsLock, ConsUnlock, HeadTaken
    <3>2. QED
      BY <2>2, <3>1, RingFrame DEF ConsLock, ConsUnlock, RingsSound
  <2>3. CASE ConsUpdate(n)
    <3>1. \A m \in Nodes : HeadTaken(m)' => HeadTaken(m) /\ m # n
      BY <2>3 DEF ConsUpdate, HeadTaken
    <3>2. ASSUME NEW m \in Nodes, m # n
          PROVE  RingSound(m)'
      BY <2>3, <3>1, <3>2, RingFrame DEF ConsUpdate, RingTypes
    <3>3. /\ get[n] \in Slots /\ count[n] \in 1 .. RingSize /\ RingSound(n)
          /\ get'[n] = (get[n] + 1) % RingSize /\ count'[n] = count[n] - 1
          /\ ring' = ring /\ put' = put
      BY <2>3 DEF ConsUpdate, HeadTaken, RingTypes, RingsSound, RingSound
    <3>4. ASSUME NEW o \in 0 .. count[n] - 1
          PROVE  (get'[n] + o) % RingSize = (get[n] + (o + 1)) % RingSize
      <4>1. o \in 0 .. RingSize - 1
        BY <3>3, ShmAssumption
      <4>2. QED
        BY <3>3, <4>1, SlotShift
    <3>5. put'[n] = (get'[n] + count'[n]) % RingSize
      <4>1. count[n] - 1 \in 0 .. count[n] - 1 /\ (count[n] - 1) + 1 = count[n]
        BY <3>3
      <4>2. QED
        BY <3>3, <3>4, <4>1 DEF RingSound
    <3>6. ASSUME NEW o \in 0 .. count'[n] - 1
          PROVE  Filled(Desc(n, o).buf)'
      <4>1. o \in 0 .. count[n] - 1 /\ o + 1 \in 0 .. count[n] - 1
        BY <3>3
      <4>2. Desc(n, o)' = Desc(n, o + 1)
        BY <3>3, <3>4, <4>1 DEF Desc
      <4>3. Filled(Desc(n, o + 1).buf)
        BY <3>3, <4>1 DEF RingSound
      <4>4. QED
        BY <4>2, <4>3, FilledStable
    <3>7. RingSound(n)'
      BY <3>1, <3>5, <3>6 DEF RingSound
    <3>8. QED
      BY <3>2, <3>7 DEF RingsSound
  <2>4. QED
    BY <1>5, <2>1, <2>2, <2>3 DEF PollRing
<1>6. ASSUME NEW t \in Threads, Free(t)
      PROVE  RingsSound'
  <2>1. \A m \in Nodes : HeadTaken(m)' => HeadTaken(m)
    BY <1>6 DEF Free, FreeLock, FreeClear, FreeUnlock, AfterFree, HeadTaken
  <2>2. ringVars' = ringVars
    BY <1>6 DEF Free, FreeLock, FreeClear, FreeUnlock
  <2>3. QED
    BY <2>1, <2>2, RingFrame DEF ringVars, RingsSound
<1>7. QED
  BY <1>1, <1>2, <1>3, <1>4, <1>5, <1>6 DEF Next

-----------------------------------------------------------------------------
(* Queues.                                                                 *)

\* A filled buffer at the end of a queue of filled buffers.
LEMMA AppendFilled ==
  ASSUME NEW s \in Seq(Buffers), NEW b \in Buffers, AllFilled(s), Filled(b)
  PROVE  AllFilled(Append(s, b))
<1>1. /\ Len(Append(s, b)) = Len(s) + 1 /\ Len(s) \in Nat
      /\ \A i \in 1 .. Len(s) : Append(s, b)[i] = s[i]
      /\ Append(s, b)[Len(s) + 1] = b
  OBVIOUS
<1>2. ASSUME NEW i \in 1 .. Len(Append(s, b))
      PROVE  Filled(Append(s, b)[i])
  <2>1. i \in 1 .. Len(s) \/ i = Len(s) + 1
    BY <1>1
  <2>2. QED
    BY <1>1, <2>1 DEF AllFilled
<1>3. QED
  BY <1>2 DEF AllFilled

\* What remains of a queue of filled buffers.
LEMMA TailFilled ==
  ASSUME NEW s \in Seq(Buffers), s # <<>>, AllFilled(s)
  PROVE  AllFilled(Tail(s)) /\ Filled(Head(s))
<1>1. /\ Len(Tail(s)) = Len(s) - 1 /\ Len(s) \in Nat /\ Len(s) > 0
      /\ \A i \in 1 .. Len(Tail(s)) : Tail(s)[i] = s[i + 1]
      /\ Head(s) = s[1]
  OBVIOUS
<1>2. ASSUME NEW i \in 1 .. Len(Tail(s))
      PROVE  Filled(Tail(s)[i])
  <2>1. i + 1 \in 1 .. Len(s)
    BY <1>1
  <2>2. QED
    BY <1>1, <2>1 DEF AllFilled
<1>3. Filled(Head(s))
  BY <1>1 DEF AllFilled
<1>4. QED
  BY <1>2, <1>3 DEF AllFilled

\* Only filled buffers are passed on from queue to queue.
LEMMA QueuesFilledStep ==
  ASSUME DriverInv, Next
  PROVE  QueuesFilled'
<1> USE DEF DriverInv, TypeOK
<1>1. \A b : Filled(b) => Filled(b)'
  BY FilledStable
<1>2. ASSUME rxQueue' = rxQueue, endpQueue' = endpQueue
      PROVE  QueuesFilled'
  BY <1>1, <1>2 DEF QueuesFilled, AllFilled
<1>3. ASSUME NEW n \in Nodes, Poll(n)
      PROVE  QueuesFilled'
  <2>1. CASE count[n] = 0
    <3>1. rxQueue' = rxQueue /\ endpQueue' = endpQueue
      BY <1>3, <2>1 DEF Poll
    <3>2. QED
      BY <3>1, <1>2
  <2>2. CASE count[n] > 0
    <3>1. PICK p \in Prios, b \in Buffers :
            p = NextDesc(n).prio /\ b = NextDesc(n).buf /\ Filled(b)
      BY <2>2, HeadDescFilled DEF NextDesc, RingTypes, Filled
    <3>2. /\ rxQueue' = [rxQueue EXCEPT ![n][p] = Append(rxQueue[n][p], b)]
          /\ endpQueue' = endpQueue
      BY <1>3, <2>2, <3>1 DEF Poll
    <3>3. AllFilled(Append(rxQueue[n][p], b))
      BY <3>1, AppendFilled DEF QueuesFilled, NodeTypes
    <3>4. \A m \in Nodes, q \in Prios :
            rxQueue'[m][q] = IF m = n /\ q = p THEN Append(rxQueue[n][p], b) ELSE rxQueue[m][q]
      BY <3>2 DEF NodeTypes
    <3>5. QED
      BY <1>1, <3>2, <3>3, <3>4 DEF QueuesFilled, AllFilled
  <2>3. count[n] \in Nat
    BY DEF RingTypes
  <2>4. QED
    BY <2>1, <2>2, <2>3
<1>4. ASSUME NEW n \in Nodes, RxDeliver(n)
      PROVE  QueuesFilled'
  <2>1. PICK p \in Prios : p = NextPrio(n)
    BY DEF NextPrio, Prios
  <2>2. /\ rxQueue[n][p] \in Seq(Buffers) /\ rxQueue[n][p] # <<>>
        /\ rxQueue' = [rxQueue EXCEPT ![n][p] = Tail(rxQueue[n][p])]
        /\ \/ endpQueue' = [endpQueue EXCEPT ![n] = Append(endpQueue[n], Head(rxQueue[n][p]))]
           \/ endpQueue' = endpQueue
    BY <1>4, <2>1 DEF RxDeliver, NodeTypes
  <2>3. AllFilled(Tail(rxQueue[n][p])) /\ Filled(Head(rxQueue[n][p]))
    BY <2>2, TailFilled DEF QueuesFilled
  <2>4. AllFilled(Append(endpQueue[n], Head(rxQueue[n][p])))
    BY <2>3, AppendFilled DEF QueuesFilled, NodeTypes, Filled
  <2>5. \A m \in Nodes, q \in Prios :
          rxQueue'[m][q] = IF m = n /\ q = p THEN Tail(rxQueue[n][p]) ELSE rxQueue[m][q]
    BY <2>2 DEF NodeTypes
  <2>6. \A m \in Nodes :
          endpQueue'[m] \in {endpQueue[m], IF m = n THEN Append(endpQueue[n], Head(rxQueue[n][p]))
                                                    ELSE endpQueue[m]}
    BY <2>2 DEF NodeTypes
  <2>7. ASSUME NEW m \in Nodes, NEW q \in Prios
        PROVE  AllFilled(rxQueue[m][q])'
    <3>1. AllFilled(rxQueue'[m][q])
      BY <2>3, <2>5 DEF QueuesFilled
    <3>2. \A i \in 1 .. Len(rxQueue'[m][q]) : Filled(rxQueue'[m][q][i])
      BY <3>1 DEF AllFilled
    <3>3. QED
      BY <1>1, <3>2 DEF AllFilled
  <2>8. ASSUME NEW m \in Nodes
        PROVE  AllFilled(endpQueue[m])'
    <3>1. \A i \in 1 .. Len(endpQueue'[m]) : Filled(endpQueue'[m][i])
      BY <2>4, <2>6 DEF QueuesFilled, AllFilled
    <3>2. QED
      BY <1>1, <3>1 DEF AllFilled
  <2>9. QED
    BY <2>7, <2>8 DEF QueuesFilled
<1>5. ASSUME NEW n \in Nodes, Receive(n)
      PROVE  QueuesFilled'
  <2>1. /\ endpQueue[n] \in Seq(Buffers) /\ endpQueue[n] # <<>>
        /\ endpQueue' = [endpQueue EXCEPT ![n] = Tail(endpQueue[n])]
        /\ rxQueue' = rxQueue
    BY <1>5 DEF Receive, NodeTypes
  <2>2. AllFilled(Tail(endpQueue[n]))
    BY <2>1, TailFilled DEF QueuesFilled
  <2>3. QED
    BY <1>1, <2>1, <2>2 DEF QueuesFilled, AllFilled, NodeTypes
<1>6. QED
  <2>1. ASSUME NEW n \in Nodes, GetBuffer(n) \/ Transmit(n) \/ Interrupt(n)
        PROVE  QueuesFilled'
    BY <2>1, <1>2 DEF GetBuffer, GetLock, GetScan, GetMark, GetUnlock, Transmit,
       EnqLock,
         EnqStore, EnqCommit, EnqUnlock, Notify, Interrupt, nodeVars
  <2>2. ASSUME NEW n \in Nodes, PollRing(n) \/ RxData(n)
        PROVE  QueuesFilled'
    BY <2>2, <1>2, <1>3, <1>4 DEF PollRing, RxWait, ConsLock, ConsUpdate, ConsUnlock,
         RxData, RxLock, RxDone, nodeVars
  <2>3. ASSUME NEW t \in Threads, Free(t)
        PROVE  QueuesFilled'
    BY <2>3, <1>2 DEF Free, FreeLock, FreeClear, FreeUnlock, nodeVars
  <2>4. CASE \E call \in Traffic : StartSend(call)
    BY <2>4, <1>2 DEF StartSend
  <2>5. QED
    BY <1>5, <2>1, <2>2, <2>3, <2>4 DEF Next

-----------------------------------------------------------------------------
(* The theorems.                                                           *)

\* Everything is empty, idle or unlocked at first.
LEMMA DriverInit ==
  ASSUME Init
  PROVE  DriverInv
<1> USE ShmAssumption, ThreadFacts, ThreadKinds DEF Init
<1>1. PoolTypes /\ NodeTypes /\ ThreadTypes /\ HistoryTypes
  <2>1. PoolTypes /\ NodeTypes
    BY DEF PoolTypes, NodeTypes
  <2>2. ThreadTypes
    BY DEF ThreadTypes, Labels
  <2>3. HistoryTypes
    BY DEF HistoryTypes
  <2>4. QED
    BY <2>1, <2>2, <2>3
<1>2. 0 \in Slots /\ (0 + 0) % RingSize = 0
  BY ModWrap DEF Slots
<1>3. RingTypes
  BY <1>2 DEF RingTypes, Prios
<1>4. RingsSound /\ PutAhead
  BY <1>2 DEF RingsSound, RingSound, HeadTaken, PutAhead
<1>5. \A n \in Nodes : pc[Api(n)] = "idle" /\ pc[Rx(n)] = "wait" /\ ok[Api(n)]
  <2>1. \A n \in Nodes : Api(n)[2] = "api" /\ Rx(n)[2] = "rx"
    BY DEF Api, Rx
  <2>2. QED
    BY <2>1
<1>6. \A t \in Threads : pc[t] \in {"idle", "wait"}
  OBVIOUS
<1>7. Positions /\ LocksHeld /\ CallsSound /\ BuffersSound
  BY <1>5, <1>6 DEF Positions, ApiLabels, RxLabels, LocksHeld, CallsSound, CallSound,
     Sending, BuffersSound, Getting, Enqueuing, Freeing
<1>8. QueuesFilled
  BY DEF QueuesFilled, AllFilled
<1>9. QED
  BY <1>1, <1>3, <1>4, <1>7, <1>8 DEF DriverInv, TypeOK

\* The conjuncts of the driver's invariant carry one another over every step.
LEMMA DriverStep ==
  ASSUME DriverInv, [Next]_vars
  PROVE  DriverInv'
<1>1. CASE Next
  <2>1. PoolTypes' /\ RingTypes' /\ NodeTypes' /\ ThreadTypes' /\ HistoryTypes'
    BY <1>1, PoolTypesStep, RingTypesStep, NodeTypesStep, ThreadTypesStep,
       HistoryTypesStep
  <2>2. Positions' /\ LocksHeld' /\ CallsSound' /\ BuffersSound'
    BY <1>1, PositionsStep, LocksHeldStep, CallsSoundStep, BuffersSoundStep
  <2>3. RingsSound' /\ QueuesFilled'
    BY <1>1, RingsSoundStep, QueuesFilledStep
  <2>4. PutAhead'
    BY <2>3 DEF PutAhead, RingsSound, RingSound
  <2>5. QED
    BY <2>1, <2>2, <2>3, <2>4 DEF DriverInv, TypeOK
<1>2. CASE UNCHANGED vars
  <2>1. TypeOK'
    BY <1>2 DEF DriverInv, TypeOK, PoolTypes, RingTypes, NodeTypes, ThreadTypes,
       HistoryTypes, PutAhead, vars, poolVars, ringVars, nodeVars, threadVars, history
  <2>2. QED
    BY <1>2, <2>1 DEF DriverInv, Positions, LocksHeld, CallsSound, CallSound, Sending,
       BuffersSound, RingsSound, RingSound, HeadTaken, Desc, QueuesFilled, AllFilled,
       Filled, vars, poolVars, ringVars, nodeVars, threadVars, history
<1>3. QED
  BY <1>1, <1>2

\* In every state the locks are where the threads are, the rings' indices and counts
\* agree, and what is visible or queued names a buffer filled in with a message
\* (shm_desc_enqueue, shm_desc_consume, shm_poll).
THEOREM DriverInvariant == Spec => []DriverInv
<1>1. Init => DriverInv
  BY DriverInit
<1>2. DriverInv /\ [Next]_vars => DriverInv'
  BY DriverStep
<1>3. QED
  BY <1>1, <1>2, PTL DEF Spec

\* The variables keep to their widths and their ranges for any number of nodes,
\* buffers, descriptors and sends.
THEOREM TypeCorrect == Spec => []TypeOK
<1>1. DriverInv => TypeOK
  BY DEF DriverInv
<1>2. QED
  BY <1>1, DriverInvariant, PTL
=============================================================================
