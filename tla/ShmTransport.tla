---------------------------- MODULE ShmTransport ----------------------------
(***************************************************************************)
(* The shared memory driver (libmcapi/shm/shm.c) between nodes that are    *)
(* already registered, at the granularity of its spin locks: the buffer    *)
(* pool with its bit mask and count, one descriptor ring per node, the     *)
(* mailbox interrupt, and the receive thread that moves packets from the   *)
(* ring to the endpoint.  Every node runs two threads:                     *)
(*   <<n, "api">>  an API call, holding the node's mutex: msg_send or      *)
(*                 msg_recv of a message that has arrived                  *)
(*   <<n, "rx">>   mcapi_receive_thread: wait, shm_poll, mcapi_rx_data     *)
(* A step is one access to shared state; the processors are taken to be    *)
(* sequentially consistent.  Message contents are ids.                     *)
(***************************************************************************)
EXTENDS Integers, Sequences, FiniteSets

CONSTANTS
  Nodes,          \* the registered nodes
  NumBuffers,     \* SHM_BUFF_COUNT
  LowPrioLimit,   \* SHM_LOW_PRI_BUF_CONT
  RingSize,       \* SHM_BUFF_DESC_Q_SIZE
  CountModulus,   \* shm_buff_count is unsigned: it wraps at this value
  NotifyMayFail,  \* whether openmcapi_shm_notify can report an error
  Traffic,        \* the sends of the applications: who, to whom, how
  MaxSends        \* bound: how many messages each node sends

ASSUME ShmAssumption ==
  /\ Nodes # {}
  /\ NumBuffers \in Nat \ {0}
  /\ LowPrioLimit \in Nat
  /\ RingSize \in Nat \ {0}
  /\ CountModulus \in Nat /\ CountModulus > NumBuffers
  /\ NotifyMayFail \in BOOLEAN
  /\ Traffic \subseteq [src : Nodes, dst : Nodes, prio : {0, 1}, known : BOOLEAN]
  /\ MaxSends \in [Nodes -> Nat]

Buffers == 0 .. NumBuffers - 1
Slots   == 0 .. RingSize - 1
Prios   == {0, 1}                  \* 0 is the high priority
Threads == Nodes \X {"api", "rx"}
NoBuffer == NumBuffers
Nobody   == <<>>                   \* a lock nobody holds

\* A message: a send of the traffic and its number at the sender.  "known" says
\* whether the port it names is an open endpoint of the destination.
Message(call, k) == [src |-> call.src, dst |-> call.dst, prio |-> call.prio,
                     known |-> call.known, seq |-> k]
Messages == UNION {{Message(call, k) : k \in 1 .. MaxSends[call.src]} :
                     call \in Traffic}
NoMessage == [src |-> Nobody]

Labels == {"idle", "get_lock", "get_scan", "get_mark", "get_unlock",
           "enq_lock", "enq_store", "enq_commit", "enq_unlock", "notify",
           "free_lock", "free_clear", "free_unlock",
           "wait", "asleep", "poll", "cons_lock", "cons_update",
           "cons_unlock", "rx_lock", "rx_drain"}

VARIABLES
  mask,      \* buff_bit_mask: the indices whose bit is set
  used,      \* shm_buff_count
  bufLock,   \* shm_buff_mgmt_blk.lock
  content,   \* what each buffer holds
  ring,      \* pkt_desc_q of each node: buffer and priority per slot
  put, get, count,   \* put_idx, get_idx, count of each node's ring
  ringLock,  \* lock of each node's ring
  irq,       \* a mailbox interrupt is pending at the node's core
  rxQueue,   \* MCAPI_RX_Queue of each node, per priority
  endpQueue, \* mcapi_rx_queue of the endpoint of each node
  mutex,     \* MCAPI_Mutex of each node
  pc, buf, msg, ok,  \* per thread: position, buffer in hand, message, status
  sends,     \* messages each node has tried to send
  received,  \* history: what the receivers of each node were handed
  accepted, refused, discarded  \* history: outcome of each message

poolVars   == <<mask, used, bufLock>>
ringVars   == <<ring, put, get, count, ringLock>>
nodeVars   == <<irq, rxQueue, endpQueue, mutex>>
threadVars == <<pc, buf, msg, ok>>
history    == <<sends, received, accepted, refused, discarded>>
vars == <<poolVars, content, ringVars, nodeVars, threadVars, history>>

Api(n) == <<n, "api">>
Rx(n)  == <<n, "rx">>
Node(t) == t[1]

Goto(t, from, to) == pc[t] = from /\ pc' = [pc EXCEPT ![t] = to]

\* Where a thread resumes once the buffer it gave back is free.
AfterFree(t) == IF t[2] = "rx" THEN "rx_drain" ELSE "idle"

\* The API call returns: the mutex is released, the thread is idle again.
Return(n) ==
  /\ pc' = [pc EXCEPT ![Api(n)] = "idle"]
  /\ buf' = [buf EXCEPT ![Api(n)] = NoBuffer]
  /\ mutex' = [mutex EXCEPT ![n] = Nobody]

-----------------------------------------------------------------------------
(* shm_get_buffer, called by msg_send.                                     *)

\* msg_send is entered with the node's mutex held.
StartSend(call) ==
  LET n == call.src IN
  /\ mutex[n] = Nobody
  /\ sends[n] < MaxSends[n]
  /\ Goto(Api(n), "idle", "get_lock")
  /\ mutex' = [mutex EXCEPT ![n] = Api(n)]
  /\ sends' = [sends EXCEPT ![n] = @ + 1]
  /\ msg' = [msg EXCEPT ![Api(n)] = Message(call, sends[n] + 1)]
  /\ UNCHANGED <<poolVars, content, ringVars, irq, rxQueue, endpQueue,
                 buf, ok, received, accepted, refused, discarded>>

\* (mutant) the lock is taken although somebody holds it
GetLockUnguarded(n) ==
  /\ Goto(Api(n), "get_lock", "get_scan")
  /\ bufLock' = Api(n)
  /\ UNCHANGED <<mask, used, content, ringVars, nodeVars, buf, msg, ok, history>>

GetLock(n) ==
  /\ bufLock = Nobody
  /\ Goto(Api(n), "get_lock", "get_scan")
  /\ bufLock' = Api(n)
  /\ UNCHANGED <<mask, used, content, ringVars, nodeVars, buf, msg, ok, history>>

\* A low priority sender is served while at most LowPrioLimit buffers are in use.
MayAllocate(prio) == prio = 0 \/ used <= LowPrioLimit

\* (mutant) the search ignores the bits
FirstIndex == CHOOSE b \in Buffers : \A c \in Buffers : b <= c

\* get_sm_buff_index: the first index whose bit is clear.
FirstFree == CHOOSE b \in Buffers \ mask : \A c \in Buffers \ mask : b <= c

GetScan(n) ==
  LET found == MayAllocate(msg[Api(n)].prio) /\ Buffers \ mask # {} IN
  /\ Goto(Api(n), "get_scan", IF found THEN "get_mark" ELSE "get_unlock")
  /\ buf' = [buf EXCEPT ![Api(n)] = IF found THEN FirstFree ELSE NoBuffer]
  /\ UNCHANGED <<poolVars, content, ringVars, nodeVars, msg, ok, history>>

GetMark(n) ==
  /\ Goto(Api(n), "get_mark", "get_unlock")
  /\ mask' = mask \cup {buf[Api(n)]}
  /\ used' = (used + 1) % CountModulus
  /\ UNCHANGED <<bufLock, content, ringVars, nodeVars, buf, msg, ok, history>>

\* (mutant) the path without a buffer returns without releasing the lock
UnlockOnSuccess(b) == bufLock' = IF b = NoBuffer THEN bufLock ELSE Nobody

UnlockPool(b) == bufLock' = Nobody

\* The lock is released; with a buffer in hand msg_send fills it in, without
\* one it reports MCAPI_ERR_TRANSMISSION.
GetUnlock(n) ==
  LET b == buf[Api(n)] IN
  /\ pc[Api(n)] = "get_unlock"
  /\ UnlockPool(b)
  /\ \/ /\ b # NoBuffer
        /\ pc' = [pc EXCEPT ![Api(n)] = "enq_lock"]
        /\ content' = [content EXCEPT ![b] = msg[Api(n)]]
        /\ UNCHANGED <<buf, mutex, refused>>
     \/ /\ b = NoBuffer
        /\ Return(n)
        /\ refused' = refused \cup {msg[Api(n)]}
        /\ UNCHANGED content
  /\ UNCHANGED <<mask, used, ringVars, irq, rxQueue, endpQueue, msg, ok,
                 sends, received, accepted, discarded>>

-----------------------------------------------------------------------------
(* shm_tx: enqueue_sm_ring_q, then openmcapi_shm_notify.                   *)

EnqLock(n) ==
  LET d == msg[Api(n)].dst IN
  /\ Goto(Api(n), "enq_lock", "enq_store")
  /\ ringLock[d] = Nobody
  /\ ringLock' = [ringLock EXCEPT ![d] = Api(n)]
  /\ UNCHANGED <<poolVars, content, ring, put, get, count, nodeVars,
                 buf, msg, ok, history>>

\* (mutant) the ring takes one descriptor too many
RingOverfull(d) == count[d] > RingSize
RingFull(d) == count[d] = RingSize

\* The descriptor is written at put_idx, unless the ring is full.
EnqStore(n) ==
  LET d == msg[Api(n)].dst
      full == RingFull(d) IN
  /\ Goto(Api(n), "enq_store", IF full THEN "enq_unlock" ELSE "enq_commit")
  /\ ok' = [ok EXCEPT ![Api(n)] = ~full]
  /\ ring' = IF full THEN ring ELSE
               [ring EXCEPT ![d][put[d]] =
                  [buf |-> buf[Api(n)], prio |-> msg[Api(n)].prio]]
  /\ UNCHANGED <<poolVars, content, put, get, count, ringLock, nodeVars,
                 buf, msg, history>>

\* put_idx and count move: from here the receiver can see the descriptor.
EnqCommit(n) ==
  LET d == msg[Api(n)].dst IN
  /\ Goto(Api(n), "enq_commit", "enq_unlock")
  /\ put' = [put EXCEPT ![d] = (@ + 1) % RingSize]
  /\ count' = [count EXCEPT ![d] = @ + 1]
  /\ UNCHANGED <<poolVars, content, ring, get, ringLock, nodeVars,
                 buf, msg, ok, history>>

EnqUnlock(n) ==
  LET t == Api(n) IN
  /\ Goto(t, "enq_unlock", IF ok[t] THEN "notify" ELSE "free_lock")
  /\ ringLock' = [ringLock EXCEPT ![msg[t].dst] = Nobody]
  /\ UNCHANGED <<poolVars, content, ring, put, get, count, nodeVars,
                 buf, msg, ok, history>>

\* The status of the notification becomes the status of the send: when it
\* fails, msg_send takes the descriptor for not queued and frees the buffer.
Notify(n) ==
  LET t == Api(n) IN
  /\ pc[t] = "notify"
  /\ \/ /\ irq' = [irq EXCEPT ![msg[t].dst] = TRUE]
        /\ Return(n)
        /\ accepted' = accepted \cup {msg[t]}
        /\ UNCHANGED ok
     \/ /\ NotifyMayFail
        /\ pc' = [pc EXCEPT ![t] = "free_lock"]
        /\ ok' = [ok EXCEPT ![t] = FALSE]
        /\ UNCHANGED <<irq, buf, mutex, accepted>>
  /\ UNCHANGED <<poolVars, content, ringVars, rxQueue, endpQueue, msg,
                 sends, received, refused, discarded>>

-----------------------------------------------------------------------------
(* shm_free_buffer, called through mcapi_recover_buffer.                   *)

FreeLock(t) ==
  /\ bufLock = Nobody
  /\ Goto(t, "free_lock", "free_clear")
  /\ bufLock' = t
  /\ UNCHANGED <<mask, used, content, ringVars, nodeVars, buf, msg, ok, history>>

\* clear_sm_buff_index toggles the bit (word ^= bit).
Toggle(b) == (mask \ {b}) \cup ({b} \ mask)

FreeClear(t) ==
  /\ Goto(t, "free_clear", "free_unlock")
  /\ mask' = Toggle(buf[t])
  /\ used' = (used - 1) % CountModulus
  /\ UNCHANGED <<bufLock, content, ringVars, nodeVars, buf, msg, ok, history>>

\* Back in the caller: mcapi_rx_data goes on draining; msg_recv returns; a
\* msg_send whose transmission failed returns its error.
FreeUnlock(t) ==
  /\ Goto(t, "free_unlock", AfterFree(t))
  /\ bufLock' = Nobody
  /\ buf' = [buf EXCEPT ![t] = NoBuffer]
  /\ ok' = [ok EXCEPT ![t] = TRUE]
  /\ IF t = Api(Node(t))
     THEN /\ mutex' = [mutex EXCEPT ![Node(t)] = Nobody]
          /\ refused' = IF ok[t] THEN refused ELSE refused \cup {msg[t]}
     ELSE UNCHANGED <<mutex, refused>>
  /\ UNCHANGED <<mask, used, content, ringVars, irq, rxQueue, endpQueue, msg,
                 sends, received, accepted, discarded>>

-----------------------------------------------------------------------------
(* The receive thread.                                                     *)

\* (mutant) sleep first, without looking at the mailbox
RxSleep(n) ==
  /\ Goto(Rx(n), "wait", "asleep")
  /\ UNCHANGED <<poolVars, content, ringVars, nodeVars, buf, msg, ok, history>>

\* wait_event on the mailbox: the count of the node's own ring.
RxWait(n) ==
  /\ Goto(Rx(n), "wait", IF count[n] > 0 THEN "poll" ELSE "asleep")
  /\ ok' = [ok EXCEPT ![Rx(n)] = FALSE]         \* got_data = 0
  /\ UNCHANGED <<poolVars, content, ringVars, nodeVars, buf, msg, history>>

\* mcomm_interrupt: any active mailbox wakes the core's sleepers.
Interrupt(n) ==
  /\ irq[n]
  /\ irq' = [irq EXCEPT ![n] = FALSE]
  /\ pc' = IF pc[Rx(n)] = "asleep" /\ \E m \in Nodes : count[m] > 0
           THEN [pc EXCEPT ![Rx(n)] = "wait"] ELSE pc
  /\ UNCHANGED <<poolVars, content, ringVars, rxQueue, endpQueue, mutex,
                 buf, msg, ok, history>>

\* (mutant) the newest descriptor is taken first
NewestDesc(n) == ring[n][(put[n] + RingSize - 1) % RingSize]

\* The descriptor at get_idx.
NextDesc(n) == ring[n][get[n]]

\* shm_poll: shm_desc_get_next reads the count without the lock.
Poll(n) ==
  LET t == Rx(n)
      desc == NextDesc(n) IN
  /\ pc[t] = "poll"
  /\ \/ /\ count[n] > 0
        /\ pc' = [pc EXCEPT ![t] = "cons_lock"]
        /\ rxQueue' = [rxQueue EXCEPT ![n][desc.prio] = Append(@, desc.buf)]
        /\ ok' = [ok EXCEPT ![t] = TRUE]        \* got_data = 1
     \/ /\ count[n] = 0
        /\ pc' = [pc EXCEPT ![t] = IF ok[t] THEN "rx_lock" ELSE "wait"]
        /\ UNCHANGED <<rxQueue, ok>>
  /\ UNCHANGED <<poolVars, content, ringVars, irq, endpQueue, mutex,
                 buf, msg, history>>

ConsLock(n) ==
  /\ ringLock[n] = Nobody
  /\ Goto(Rx(n), "cons_lock", "cons_update")
  /\ ringLock' = [ringLock EXCEPT ![n] = Rx(n)]
  /\ UNCHANGED <<poolVars, content, ring, put, get, count, nodeVars,
                 buf, msg, ok, history>>

ConsUpdate(n) ==
  /\ Goto(Rx(n), "cons_update", "cons_unlock")
  /\ get' = [get EXCEPT ![n] = (@ + 1) % RingSize]
  /\ count' = [count EXCEPT ![n] = @ - 1]
  /\ UNCHANGED <<poolVars, content, ring, put, ringLock, nodeVars,
                 buf, msg, ok, history>>

ConsUnlock(n) ==
  /\ Goto(Rx(n), "cons_unlock", "poll")
  /\ ringLock' = [ringLock EXCEPT ![n] = Nobody]
  /\ UNCHANGED <<poolVars, content, ring, put, get, count, nodeVars,
                 buf, msg, ok, history>>

\* mcapi_rx_data starts by locking the node.
RxLock(n) ==
  /\ mutex[n] = Nobody
  /\ Goto(Rx(n), "rx_lock", "rx_drain")
  /\ mutex' = [mutex EXCEPT ![n] = Rx(n)]
  /\ UNCHANGED <<poolVars, content, ringVars, irq, rxQueue, endpQueue,
                 buf, msg, ok, history>>

\* The high priority queue is emptied before the low priority one.
NextPrio(n) == IF rxQueue[n][0] # <<>> THEN 0 ELSE 1

\* A packet for an open endpoint joins its queue, any other is recovered.
RxDeliver(n) ==
  LET t == Rx(n)
      p == NextPrio(n)
      b == Head(rxQueue[n][p]) IN
  /\ pc[t] = "rx_drain"
  /\ rxQueue[n][p] # <<>>
  /\ rxQueue' = [rxQueue EXCEPT ![n][p] = Tail(@)]
  /\ \/ /\ content[b].known
        /\ endpQueue' = [endpQueue EXCEPT ![n] = Append(@, b)]
        /\ UNCHANGED <<pc, buf, discarded>>
     \/ /\ ~content[b].known
        /\ pc' = [pc EXCEPT ![t] = "free_lock"]
        /\ buf' = [buf EXCEPT ![t] = b]
        /\ discarded' = discarded \cup {content[b]}
        /\ UNCHANGED endpQueue
  /\ UNCHANGED <<poolVars, content, ringVars, irq, mutex, msg, ok,
                 sends, received, accepted, refused>>

RxDone(n) ==
  /\ rxQueue[n][0] = <<>> /\ rxQueue[n][1] = <<>>
  /\ Goto(Rx(n), "rx_drain", "wait")
  /\ mutex' = [mutex EXCEPT ![n] = Nobody]
  /\ UNCHANGED <<poolVars, content, ringVars, irq, rxQueue, endpQueue,
                 buf, msg, ok, history>>

\* msg_recv with data waiting: copy it out, dequeue, recover the buffer.
Receive(n) ==
  LET b == Head(endpQueue[n]) IN
  /\ mutex[n] = Nobody
  /\ endpQueue[n] # <<>>
  /\ Goto(Api(n), "idle", "free_lock")
  /\ mutex' = [mutex EXCEPT ![n] = Api(n)]
  /\ buf' = [buf EXCEPT ![Api(n)] = b]
  /\ endpQueue' = [endpQueue EXCEPT ![n] = Tail(@)]
  /\ received' = [received EXCEPT ![n] = Append(@, content[b])]
  /\ UNCHANGED <<poolVars, content, ringVars, irq, rxQueue, msg, ok,
                 sends, accepted, refused, discarded>>

-----------------------------------------------------------------------------
\* shm_master_node_init and shm_slave_node_init have run on every node.
Init ==
  /\ mask = {} /\ used = 0 /\ bufLock = Nobody
  /\ content = [b \in Buffers |-> NoMessage]
  /\ ring = [n \in Nodes |-> [s \in Slots |-> [buf |-> NoBuffer, prio |-> 0]]]
  /\ put = [n \in Nodes |-> 0]
  /\ get = [n \in Nodes |-> 0]
  /\ count = [n \in Nodes |-> 0]
  /\ ringLock = [n \in Nodes |-> Nobody]
  /\ irq = [n \in Nodes |-> FALSE]
  /\ rxQueue = [n \in Nodes |-> [p \in Prios |-> <<>>]]
  /\ endpQueue = [n \in Nodes |-> <<>>]
  /\ mutex = [n \in Nodes |-> Nobody]
  /\ pc = [t \in Threads |-> IF t[2] = "api" THEN "idle" ELSE "wait"]
  /\ buf = [t \in Threads |-> NoBuffer]
  /\ msg = [t \in Threads |-> NoMessage]
  /\ ok = [t \in Threads |-> TRUE]
  /\ sends = [n \in Nodes |-> 0]
  /\ received = [n \in Nodes |-> <<>>]
  /\ accepted = {} /\ refused = {} /\ discarded = {}

GetBuffer(n) == GetLock(n) \/ GetScan(n) \/ GetMark(n) \/ GetUnlock(n)
Transmit(n)  == EnqLock(n) \/ EnqStore(n) \/ EnqCommit(n) \/ EnqUnlock(n)
                \/ Notify(n)
Free(t)      == FreeLock(t) \/ FreeClear(t) \/ FreeUnlock(t)
PollRing(n)  == RxWait(n) \/ Poll(n) \/ ConsLock(n) \/ ConsUpdate(n)
                \/ ConsUnlock(n)
RxData(n)    == RxLock(n) \/ RxDeliver(n) \/ RxDone(n)

Next ==
  \/ \E call \in Traffic : StartSend(call)
  \/ \E n \in Nodes : GetBuffer(n) \/ Transmit(n) \/ Interrupt(n)
                      \/ PollRing(n) \/ RxData(n) \/ Receive(n)
  \/ \E t \in Threads : Free(t)

Spec == Init /\ [][Next]_vars

\* A call in progress, the receive thread and the interrupt keep running;
\* nobody is obliged to start a send or to receive.
RunApi(n) == GetBuffer(n) \/ Transmit(n) \/ Free(Api(n))
RunRx(n)  == PollRing(n) \/ RxData(n) \/ Free(Rx(n))

Fairness == \A n \in Nodes : /\ WF_vars(RunApi(n))
                             /\ WF_vars(RunRx(n))
                             /\ WF_vars(Interrupt(n))

FairSpec == Spec /\ Fairness

-----------------------------------------------------------------------------
(* Where the buffers are.                                                  *)

\* The thread is responsible for the buffer in its hand: an allocation whose
\* bit is set and that is not queued yet, or a buffer not yet given back.
InHand(t) ==
  /\ buf[t] # NoBuffer
  /\ \/ pc[t] \in {"get_unlock", "enq_lock", "enq_store", "enq_commit",
                   "free_lock", "free_clear"}
     \/ pc[t] = "enq_unlock" /\ ~ok[t]

\* The receive thread has queued the ring's head but not consumed it yet.
HeadTaken(n) == pc[Rx(n)] \in {"cons_lock", "cons_update"}

\* The descriptors of a node's ring that its receive thread has yet to take.
Pending(n) ==
  LET skip == IF HeadTaken(n) THEN 1 ELSE 0 IN
  [i \in 1 .. count[n] - skip |->
     ring[n][(get[n] + skip + i - 1) % RingSize]]

\* The queues a buffer goes through on its way to node n.
Queue(n, k) == CASE k = "ring"  -> [i \in DOMAIN Pending(n) |-> Pending(n)[i].buf]
                 [] k = "prio0" -> rxQueue[n][0]
                 [] k = "prio1" -> rxQueue[n][1]
                 [] k = "endp"  -> endpQueue[n]
Stages == {"ring", "prio0", "prio1", "endp"}

\* Every place that refers to a buffer.
Indices(s, b) == {i \in DOMAIN s : s[i] = b}
Holders(b) ==
  {t \in Threads : InHand(t) /\ buf[t] = b}
  \cup UNION {{n} \X {k} \X Indices(Queue(n, k), b) : n \in Nodes, k \in Stages}

Contents(s) == [i \in DOMAIN s |-> content[s[i]]]
Elements(s) == {s[i] : i \in DOMAIN s}

\* The messages of priority p among those of s, in their order.
OfPriority(s, p) ==
  LET mine[i \in 0 .. Len(s)] ==
        IF i = 0 THEN <<>>
        ELSE IF s[i].prio = p THEN Append(mine[i - 1], s[i]) ELSE mine[i - 1]
  IN  mine[Len(s)]

\* What a node will still be handed, per priority, in order.
OnTheWay(n, p) ==
  Contents(rxQueue[n][p]) \o OfPriority(Contents(Queue(n, "ring")), p)
Inbox(n)   == Contents(endpQueue[n])
InTransit  == UNION {Elements(Contents(Queue(n, k))) : n \in Nodes, k \in Stages}
Received   == UNION {Elements(received[n]) : n \in Nodes}

-----------------------------------------------------------------------------
(* Properties.                                                             *)

\* Between critical sections put_idx is count places ahead of get_idx.
PutAhead == \A n \in Nodes :
  ringLock[n] = Nobody => put[n] = (get[n] + count[n]) % RingSize

\* Every variable stays within the values the driver's types allow, and the
\* indices of a ring agree whenever its lock is free.
PoolTypes ==
  /\ mask \subseteq Buffers
  /\ used \in 0 .. CountModulus - 1
  /\ bufLock \in Threads \cup {Nobody}
  /\ content \in [Buffers -> Messages \cup {NoMessage}]
RingTypes ==
  /\ ring \in [Nodes -> [Slots -> [buf : Buffers \cup {NoBuffer}, prio : Prios]]]
  /\ put \in [Nodes -> Slots] /\ get \in [Nodes -> Slots]
  /\ count \in [Nodes -> 0 .. RingSize]
  /\ ringLock \in [Nodes -> Threads \cup {Nobody}]
NodeTypes ==
  /\ irq \in [Nodes -> BOOLEAN]
  /\ rxQueue \in [Nodes -> [Prios -> Seq(Buffers)]]
  /\ endpQueue \in [Nodes -> Seq(Buffers)]
  /\ mutex \in [Nodes -> Threads \cup {Nobody}]
ThreadTypes ==
  /\ pc \in [Threads -> Labels]
  /\ buf \in [Threads -> Buffers \cup {NoBuffer}]
  /\ msg \in [Threads -> Messages \cup {NoMessage}]
  /\ ok \in [Threads -> BOOLEAN]
HistoryTypes ==
  /\ sends \in [Nodes -> Nat] /\ \A n \in Nodes : sends[n] <= MaxSends[n]
  /\ received \in [Nodes -> Seq(Messages)]
  /\ accepted \subseteq Messages
  /\ refused \subseteq Messages
  /\ discarded \subseteq Messages
TypeOK == PoolTypes /\ RingTypes /\ NodeTypes /\ ThreadTypes /\ HistoryTypes
          /\ PutAhead

\* shm_get_buffer and shm_free_buffer: a buffer whose bit is set is referred
\* to from exactly one place (a thread, a ring, a receive queue, an endpoint),
\* a buffer whose bit is clear from none: nothing is shared, nothing leaks.  The
\* count that is compared with the limit is the number of bits set.
BufferOwnedOnce ==
  /\ \A b \in Buffers : Cardinality(Holders(b)) = IF b \in mask THEN 1 ELSE 0
  /\ used = Cardinality(mask)

\* Messages of one sender and one priority are received in the order in which
\* they were sent, and none is received twice.
FifoPerSender ==
  \A n \in Nodes : \A i, j \in DOMAIN received[n] :
    LET a == received[n][i]
        b == received[n][j] IN
    i < j /\ a.src = b.src /\ a.prio = b.prio => a.seq < b.seq

\* The status of a send tells the truth.  The message of a successful one is
\* under way, received, or was discarded for want of an endpoint, neither lost
\* nor repeated; that of a failed one, for which msg_snd.c records that no data
\* was sent, is not delivered to anybody.
StatusTruthful ==
  /\ accepted \subseteq InTransit \cup Received \cup discarded
  /\ Received \cap InTransit = {}
  /\ refused \cap (InTransit \cup Received) = {}

\* The driver implements the transport of module Transport: with its locks,
\* its ring and its receive thread it is still one FIFO queue per destination
\* and priority that loses, repeats and reorders nothing.
Abstract == INSTANCE Transport WITH
  Capacity <- NumBuffers,
  net <- [n \in Nodes |-> [p \in Prios |-> OnTheWay(n, p)]],
  inbox <- [n \in Nodes |-> Inbox(n)]
ImplementsTransport == Abstract!Spec

\* A message accepted by the driver reaches the endpoint it names (or is
\* discarded there): the interrupt that announces it is never lost between
\* the test of the mailbox and the sleep.
Arrived == UNION {Elements(Inbox(n)) : n \in Nodes} \cup Received \cup discarded
AcceptedArrives ==
  \A n \in Nodes : \A k \in 1 .. MaxSends[n] :
    (\E m \in accepted : m.src = n /\ m.seq = k)
      ~> (\E m \in Arrived : m.src = n /\ m.seq = k)

\* Every msg_send and msg_recv returns: mutex, pool lock and ring locks are
\* never waited for in a circle.
CallsReturn == \A n \in Nodes : pc[Api(n)] # "idle" ~> pc[Api(n)] = "idle"
=============================================================================
