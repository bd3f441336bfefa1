# A TLA+ model of OpenMCAPI

OpenMCAPI implements the Multicore Communications API: endpoints on the nodes of a
system exchange messages, packets and scalars over an interface, which here is a block
of shared memory with mailbox interrupts. The program is the C library under
`src/libmcapi`; paths below are relative to it. The modules in this directory model its
core, TLC checks them on small instances, and TLAPS proves theorems about them for all
values of their constants.

Run everything in this directory:

    tlc -workers 2 -config MCEndpointTable.cfg MCEndpointTable
    tlapm EndpointTable_proofs.tla
    tlapm ShmTransport_proofs.tla
    tlapm ShmTransport_delivery.tla
    tlapm NodeLifecycle_proofs.tla
    tlapm GetEndpoint_proofs.tla
    tlapm Connection_proofs.tla
    tlapm Connection_agreement.tla
    tlapm Requests_proofs.tla

## 1. Inventory

| part | code | state | operations |
|---|---|---|---|
| Shared memory transport | `shm/shm.c`, `mcapi/msg_snd.c`, `mcapi/cntrl_msg.c` | buffer bit mask and count; per node a ring of descriptors with `put_idx`, `get_idx`, `count`; spin locks; receive queues | `shm_get_buffer`, `shm_tx`, `shm_free_buffer`, `shm_poll`, `mcapi_rx_data` |
| Shared memory set-up | `shm/shm.c`, `shm/linux/shm_os.c` | routes, descriptor of the management block, receive thread | `openmcapi_shm_init`, `shm_finalize`, route lookup |
| Mailbox kernel module | `shm/linux/kmod` | reference count, mappings and interrupt of the device, wait queue | interrupt, wait, notify, open, release, mmap |
| Endpoint table | `mcapi/endpoint.c`, `create_endpoint.c`, `mcapi_delete_endp.c` | array of entries, count in use, next port | create, delete, find |
| Channel connection | `mcapi/connect.c`, `cntrl_msg.c` | state bits, type and peer of an endpoint; control messages | `mcapi_connect`, `mcapi_open`, `mcapi_close`, handlers of the control task |
| Get-endpoint protocol | `mcapi/get_endp.c`, `cntrl_msg.c`, `request.c` | foreign requests | request, response, cancellation |
| Requests | `mcapi/suspend.c`, `mcapi_wait*.c`, `mcapi_test.c`, `mcapi_cancel.c`, `queue.c` | request queue of a node, request pools | suspend, resume, wait, test, cancel |
| Connectionless messages | `mcapi/msg_snd.c`, `msg_rcv.c`, `data_avail.c` | receive queue of an endpoint | send, receive, available |
| Packet, scalar channels | `mcapi/pkt_*.c`, `scal_*.c` | the same, on an open channel | send, receive, free |
| Node life cycle | `mcapi/mcapi_init.c`, `mcapi_finalize.c`, `node*.c` | node data, interfaces | initialize, finalize |
| Attributes, handles | `mcapi/mcapi_*_endp_attrib.c`, `handle.c` | single fields | get, set |
| OS layer | `mcapi/linux/mcapi_os.c` | mutex, condition variables, threads | lock, suspend, resume |

**How they interact.** An API call takes the node's only mutex, `MCAPI_Mutex`, works on
the node's data, and possibly sends a message through an interface: the driver takes a
buffer out of the shared pool, which all nodes share under one spin lock, puts its index
into the ring of the destination under that ring's spin lock, and rings the mailbox of
the destination's core. There a kernel module wakes the *receive thread*. It polls the
ring into two local queues, by priority, then takes the mutex and hands every buffer to
the endpoint named in it, waking the request that waits for it. One endpoint of each
node is the control endpoint: the *control task* receives from it and runs the
protocols between nodes (finding an endpoint, connecting, opening, closing). A call that
must wait suspends on a condition variable of its request, which a later
`mcapi_check_resume` signals.

**What is hard.** Cores that share memory with nothing but spin locks, and a receiver
that reads the ring without one; an interrupt that may come between the last poll and the
sleep; pools and rings at their limit; open addressing with deletions; a connection
handshake of up to nine message kinds over FIFO queues, with opens, closes, cancellations
and deletions at any point of it, at either end; requests woken by a match that is too
wide, or not at all; finalization while others go on. `PROJECT.json` lists each of these
hazards at its line, with the property that would catch it.

**What makes each part correct.**
Transport: no buffer is shared or leaked, and each destination gets what was accepted for
it, in order, once. Endpoint table: a port number always leads to its open endpoint, and
to no other. Connection: both ends agree on who is connected to whom, an open returns
only when both ends are open, and every caller is answered. Requests: a request whose
condition holds is completed, once, with its own result. Life cycle: whoever depends on
something that goes away is told.

## 2. Modules

    Transport        what the driver promises             abstract
    ShmTransport     the driver, step by step             implements Transport
    Endpoints        a set of endpoints                   abstract
    EndpointTable    the array that represents it         implements Endpoints
    EndpointTable_proofs                                  theorems about it
    ShmTransport_proofs, ShmTransport_delivery            theorems about ShmTransport
    NodeLifecycle_proofs                                  theorems about Mcomm and NodeLifecycle
    GetEndpoint_proofs                                    theorems about GetEndpoint
    Connection_proofs, Connection_agreement               theorems about Connection
    Requests_proofs                                       theorems about Requests
    Connection       mcapi_connect, mcapi_open, mcapi_close and the control task
    Channels         Connection with packets and scalars on the channels it makes
    Requests         receiving, waiting, cancelling, and the list of pending requests
    GetEndpoint      mcapi_get_endpoint between nodes, with nodes that come and go
    Mcomm            the device of the kernel module
    NodeLifecycle    Mcomm with the nodes that are initialized, send, and are finalized
    MC...            instances for TLC

Operators marked `(mutant)` are variants of the definition below them, with the kind of
mistake the code could have had; they are used by nothing. Each one breaks the property
`PROJECT.json` pairs it with, which shows that the property depends on the code.

### ShmTransport

A step is one access to shared state of a thread whose position is `pc`. Each node has two
threads: `<<n, "api">>`, a call of the application or of the control task that holds the
node's mutex, and `<<n, "rx">>`, the receive thread.

| actions | code |
|---|---|
| `StartSend`, `GetLock` ... `GetUnlock` | `msg_send` and `shm_get_buffer`: search the bit mask, set the bit, count |
| `EnqLock` ... `EnqUnlock`, `Notify` | `shm_tx`, `enqueue_sm_ring_q`, `openmcapi_shm_notify` |
| `FreeLock`, `FreeClear`, `FreeUnlock` | `shm_free_buffer` |
| `RxWait`, `Interrupt` | the receive thread's wait and the handler in the kernel that wakes it |
| `Poll`, `ConsLock` ... `ConsUnlock` | `shm_poll`: looks at count and head *without* the ring's lock, queues the buffer, then consumes the descriptor under the lock |
| `RxLock`, `RxDeliver`, `RxDone` | `mcapi_rx_data`: under the mutex, high priority first, to the endpoint or back to the pool |
| `Receive` | `msg_recv` when a message waits |

`accepted`, `refused`, `discarded` and `received` are histories; no action reads them
but to extend them. Data are message ids. Sequential consistency is assumed: the code has no barriers of
its own beyond the spin locks, so reordering by the processor is outside the model.
`CountModulus` stands for the width of the unsigned `shm_buff_count`.

### EndpointTable

Each call holds the mutex, so it is one step. `port`, `state`, `queued` are fields of the
entries, `inUse` is `mcapi_endpoint_count`, `nextPort` is `MCAPI_Next_Port`, and `waiting`
holds the ports of pending `MCAPI_REQ_CREATED` requests. The search is stated by what it
finds: the first entry on the port's way that carries its number (`StopsAt`), or the first
closed one (`FirstClosed`). A deleted entry keeps its number, as in the code.
`NumPorts` is 2^16 in the code. The model needs the table to be smaller than the range of
ports (`TableAssumption`), as it is in the code.

### Connection

`flags` is `mcapi_state`. Calls and handlers hold the mutex and are one step each.
Receipt and handling of a control message are one step too, because the control task of a
node is the only reader of its queue; what the messages of the queue meet is the state at
the time they are handled, and calls come in between. `sent` in an action is the outcome
of `msg_send`: FALSE when the driver has no buffer. `opening` and `connect` hold the
requests and how they ended. Resuming is type-blind as in `mcapi_check_resume`
(`suspend.c`): `Resume(e, ...)` also wakes calls of `mcapi_connect` that
named `e`. `early` notes that a sender was closed while its SYN or ACK was under way, `stray` that a FIN, which names its target by port only, ended
something else than the channel it was sent for: a channel with another peer, or a handshake of the endpoint as a sender. Both are histories.

### Channels

`Channels` extends `Connection` and keeps its actions. Data go through the queues in `control`,
between the control messages, because endpoints and the control endpoint send with the same default priority
(`create_endpoint.c:185`) into the one ring of the receiving node. Were the priority of an endpoint
changed, its FIN could overtake its data or the reverse, and the model would not apply.

| actions | code |
|---|---|
| `SendPacket`, `SendScalar` | `pkt_send`, `scal_send`: the checks of the handle, and the message; a send without a buffer changes nothing and is left out |
| `Deliver` | `mcapi_rx_data` in the receive thread: the first packet under way to a node is queued at its endpoint, whatever the endpoint's state, past control messages that wait for the control task |
| `ReceivePacket`, `ReceiveScalar` | `pkt_rcv`, `scal_rcv` with data in the queue; waiting is in `Requests` |
| `OpenChannel`, `CloseSend`, `CloseReceive`, `CancelOpen`, `DeleteEndpoint` | those of `Connection`, and the queue, which a close of the receive side and a deletion empty and the others leave |
| `Control` | the control task; data are not its business |

A control message is handled only when no packet is before it, since whatever was before it in the ring has
been sorted out when it reaches the queue of the control endpoint. `sent` and `taken` number the data of one
open. `cut` and `reused` are histories: receivers that closed, cancelled or were deleted while their
sender had not sent its FIN, and receivers that were given the next channel before they closed.

### GetEndpoint

Each call and each handler holds the mutex of its node and is one step. `local` and `foreign` are the two
lists of requests of a node, `struct` its pool of structures. `status` says how each request ended.
A call whose request finds no buffer sleeps and tries again (`Retry`); the code does this only
in the blocking variant, whose request is on the stack (`blocked`).

| actions | code |
|---|---|
| `GetRemote`, `GetLocal`, `Retry`, `TestLocal` | `mcapi_get_endpoint`, `mcapi_get_endpoint_i`, `mcapi_test` |
| `Cancel` | `mcapi_cancel`, and `mcapi_tx_response`, whose cancel message is addressed to port 0 of the own node |
| `HandleRequest` (`AnswerNow`, `CountRequest`, `ListRequest`, `RefuseRequest`), `HandleResponse` | the control task |
| `Create`, `Delete` | `create_endpoint` with `mcapi_check_foreign_resume`, `mcapi_delete_endpoint` |
| `Initialize`, `BeginFinalize`, `EndFinalize` | `mcapi_initialize`, `mcapi_finalize` as far as endpoints and requests go; the deletions of the two control endpoints are one step |

`unanswered` is a history of requests whose answer was lost for want of a buffer, or
named another port because the pool was empty (section 5). The handler of `MCAPI_CANCEL_MSG` is not modelled: no message reaches it.

### Mcomm and NodeLifecycle

`Mcomm` has the steps of `mcomm_dev_ioctl_init` and `mcomm_fd_release` between two of which another
process may run: the count of references is atomic, and nothing else is. `NodeLifecycle` extends it with what
the processes do. `pc` is where the application's thread of a node is, `rx` where its receive thread is.

| actions | code |
|---|---|
| `Initialize`, `InKernel`, `Mapped`, `NotInitialized`, `MapFails` | `openmcapi_shm_map`: the device, the mapping, the start of the receive thread |
| `TakeLock` ... `ReleaseLock` | `openmcapi_shm_init`, `shm_master_node_init`, `shm_slave_node_init`: a route's number is written before its unit |
| `Send`, `Notify` | `shm_tx`: route, message, notification; `mcomm_interrupt` wakes all sleepers if any mailbox is active |
| `LookAtMailbox`, `Sleep`, `Poll`, `Signal` | `mcapi_receive_thread` and `wait_event_interruptible` |
| `Finalize`, `Join`, `JoinFails`, `ClearNode`, `ClearUnit`, `Unmap`, `Unmapped` | `mcapi_finalize` down to `shm_finalize`, which clears a route without the lock, and `openmcapi_shm_os_finalize` |

The model has one kernel and the loop platform, on which every process is on the same core: a notification calls the
interrupt handler directly, and one for a unit that does not exist is a `BUG()` of the kernel (`missed`, after which
nothing is asked of wake-ups). `NO_IRQ` devices, and a `pthread_create` that fails, are left out.
After an initialization that failed with its receive thread running the application does not try again.
Whether `pthread_cancel` reports a thread that has exited is up to the C library: both happen (`JoinFails`).
Three steps are coarser than the code: `Send` looks up the route (`shm.c:278`, `:280`, without the lock) and enqueues in one step,
`FreeDevice` frees the interrupt and unmaps in one, and the interrupt and the look at the mailbox (`WakeAll`, `LookAtMailbox`) do not ask
whether the mailboxes are still mapped. What this skips either is marked by `missed`, or needs a set-up and a take-down at once (`overlap`),
and no property depends on it.
The rings survive their nodes, as in the code. Histories: `overlap` (a set-up began while another or a take-down ran),
`leaked` (references without a descriptor), `torn` (a unit overwritten by a finalizing node), `abandoned` (a node that did not clear its route).

### Requests

Calls hold the mutex and are one step, but where they give it up: at `MCAPI_Suspend_Task`
(`SleepsOn` says on which structures a thread is suspended, `awake` that its condition was
signalled), and in `mcapi_wait_any` between its tests and before it replicates the requests.
`status` is the `mcapi_status` of every structure: of each operation's request, of the copy
`mcapi_wait` has on its stack (named by its thread), and of the entries of
`MCAPI_Free_Request_Structs` (`Pool`), which are in use when `copyOf` says for what.

| actions | code |
|---|---|
| `Arrive`, `ArriveNowhere` | `mcapi_rx_data` and, in the same step, `mcapi_check_resume(MCAPI_REQ_RX_FIN)`: all requests at the endpoint are served from the head of its queue, then the head is removed if one of them took it |
| `ReceiveNow`, `ReceiveLater`, `ReceiveReturns` | `msg_recv`, `pkt_rcv`, `scal_rcv`: with data, without, and after suspension |
| `FreePacket` | `mcapi_pktchan_free` |
| `Wait`, `WaitReturns` | `mcapi_wait`, timed out or not |
| `WaitAny`, `TestNext`, `AttachAll`, `AttachFails`, `WaitAnyReturns` | `mcapi_wait_any` |
| `Cancel` | `mcapi_cancel`, which cancels every receive at the endpoint, as `mcapi_find_request` matches them all |
| `Shut`, `Close`, `Delete` | a FIN, `mcapi_close`, `mcapi_delete_endpoint`, reduced to what they do to receives |

`given`, `arrived`, `dropped`, `freed` and `late` are histories. `late` notes that
`mcapi_wait_any` has replicated an operation that ended after its test: such a replica is on the
list with a final status, takes the endpoint's next data into the buffer of the ended
operation, and may overwrite its status. `SuccessHasData` and `PacketKept`
are stated up to that.

## 3. Runs

| run | instance | shows |
|---|---|---|
| `shm_safety` | 2 nodes, 3 buffers, low priority limit 0, ring of 2; both send twice to one node, itself included, at both priorities and once to an unknown port | single ownership of buffers, order, and that the status of a send is the truth |
| `shm_live` | 2 nodes, 2 buffers, ring of 1, crossing traffic | the driver implements `Transport`; under fairness whatever is accepted arrives and every call returns |
| `endpoint_table` | 3 entries, 4 ports, numbering starts at the last one, 1 message per endpoint | the table's invariants, and that it implements `Endpoints` |
| `connection_establish` | 2 nodes, 4 endpoints, 3 callers contending for a sender and for a receiver, opens at any time, datagrams | pairing, truthful answers, and that channels complete |
| `connection_teardown` | 2 endpoints, 2 connects, the sender opens twice, closes, cancellations, deletions, and 1 mishap | agreement of the ends, no forgotten open, no lost answer |
| `channel_data` | 3 endpoints: a sender of 2 packets and a sender of 1 scalar, and one receiver that opens twice; closes, and 1 mishap | a receiver gets all and only what its sender sent, in order, before it is told that the channel has ended |
| `channel_pending` | the same without mishaps | **violation**, finding 3 |
| `requests_receive` | 2 threads, messages or scalars at one endpoint, packets at the other, 3 receives, 3 packets (one too large, or of another width), 2 waits or cancellations, a pool of 3 | the list, the pool and the data of receives |
| `requests_wait_any` | the same with messages only, one call of `mcapi_wait_any` on two receives | **violation**, finding 2 |
| `connection_stale_fin` | 3 endpoints, two connects of one sender, both ends may close | **violation**, finding 1 |
| `getendp_pending` | 3 nodes, 4 calls for one endpoint (2 of one node, 1 of another, 1 of the endpoint's own), a pool of 1, 1 send without a buffer, 1 deletion; the node starts late and may be finalized | nobody who waits is forgotten, the pool of foreign requests, final results, and answers |
| `node_lifecycle` | 2 nodes, 2 routes, 3 initializations, 1 message, 1 signal, 1 fault of the kernel | the device is there while needed, routes belong to nodes that are up, no sleep over a message, and that initialization and finalization return |

**Bounds, and why they suffice.** Three buffers with limit 0 leave one buffer inside and
two beyond the reserve, so the low priority limit bites, and so does the empty pool with
four sends and a slow receiver. A ring of 2 fills and its indices wrap with three
messages; a ring of 1 is full and empty by turns. Two nodes suffice for the driver, since rings do
not know who sends; the node that sends to itself adds the case where sender and receiver
share a mutex. Three entries with four ports are the least for two ports with the same
home entry, a chain that wraps, and a draw that starts behind a port in use. Contention in the handshake
needs two callers for one sender and two senders for one receiver, hence four endpoints and three
calls. Reconnection needs two calls and a second open. `MaxMishaps` counts cancelled
opens, deletions and control messages that could not be sent, together; one of them at
every possible place is explored. For receives, two threads allow a waiter for a waiter's
operation, and two calls of `mcapi_wait_any` on lists that overlap exhaust a pool of three; the threads
are interchangeable, hence the symmetry. Two receives may be pending at an
endpoint for messages, one at a channel (`MaxPending`), and buffers at an endpoint are of one size: with more, the
code answers two receives with the same packet, and a request that is too small makes the next one report
truncation while the message is gone (`suspend.c:207`-`213`); see section 5.
Two packets of one sender can change places or leave a gap, and a receiver that opens twice has the second
sender's channel after the first one's; both senders live on one node, so that their connection requests go through remote checks.
In `getendp_pending` a pool of one is full with the first node that waits, two calls of one node share its structure, and a
node that starts late meets calls that find nobody there. In `node_lifecycle` two nodes are a master and a slave, and three initializations
let one of them come back while the other goes.
`MaxSends`, `MaxOpens`, `MaxData`, `MaxQueued`, `MaxWaits`, `MaxDeletes`, `MaxStarts`, `MaxSignals` bound what applications do and what
happens to them, `MaxMishaps`, `MaxFailures`, `MaxFaults` what goes wrong. No state constraint is used.

**Deadlock.** It is checked for the endpoint table. The other instances come to rest when
the bounded traffic is done, so the check is off there; that nothing rests too early is what
the liveness properties say.

**Fairness.** `ShmTransport`: weak fairness of a call in progress, of the receive thread and
of the interrupt, per node. The operating system runs runnable threads, and the
mailbox hardware delivers. Weak fairness is enough even for the spin locks because the traffic
is bounded: no lock can be taken for ever by others. With unbounded traffic the code, whose
spin locks are not queued, promises no more. Nobody is obliged to send or receive.
`Connection`: weak fairness of each control task; the applications owe nothing.
`Requests`: weak fairness of a thread that can go on; a time-out is not owed, as timeouts may be infinite.
`GetEndpoint`: weak fairness of each control task and of the retry after a sleep, which is a timed one.
`NodeLifecycle`: weak fairness of a call of the driver that has begun and of each receive thread, both of which the
operating system runs; nobody owes an initialization, a finalization, a send or a signal.
`Channels` has no fairness: its properties are invariants.

## 4. What is proved

### The endpoint table

`EndpointTable_proofs` proves, for any table size, range of ports, first port and bound on
queues that satisfy `TableAssumption`:

* `TypeCorrect`: the fields keep their ranges; `MCAPI_Next_Port` is always a port;
* `OpenEndpointsFound`: `mcapi_find_endpoint` finds every open endpoint, whatever was
  deleted and reused before;
* `CountAndDataCorrect`: the count is exact, and no data lie in closed entries;
* `NoWaiterForgotten`: nobody waits for an endpoint that exists.

They follow from `TableInvariant`, that `TableInv` is invariant. `OpenIsFound` itself is not
inductive: that the search finds what is open *now* does not say that it still will after the
entry is reused. `ProbeOrder` does: on the way of an open endpoint's port its entry comes
before every other entry with the same number, open or closed. A creation keeps it because
the new entry is the first closed one on the way while every open one has another number;
a deletion because it only removes obligations. `CountIsExact` is needed with it for the
creation of an endpoint at a table that is full. `NoOpenPortAwaited` replaces
`WaitersAnswered`, to which `FindFails` relates it. Steps that leave the numbers alone are
treated together in `LookupEffect` and `LookupKeepsInv`.

The section on the refinement proves `TableImplementsEndpoints`, under the same assumption: the array implements
the set of endpoints of module `Endpoints`. It rests on `TableInvariant`. `FindMeans` says what the invariant gives a
lookup: it finds an entry exactly for the ports of open entries, and that entry. `FindMeansNext` is the same
in the next state, by PTL from the invariance. `OccupyFinds`, `DeleteFinds` and `LookupFinds` then say what each
kind of step does to the mapped sets, `PortsCounted` relates the count of entries to that of ports (open entries have
different ones), and `NextRefines` has one case per action.

### The driver

`ShmTransport_proofs` and `ShmTransport_delivery` are about any number of nodes, buffers, descriptors, sends and any low
priority limit. Three inductive invariants rest on each other:

* `DriverInv`, the control: types, where each thread can be, which lock whoever is in a section holds (`LocksHeld`), what a call
  relies on between two of its steps (`CallsSound`), and the rings (`RingSound`): `put_idx` is `count` places ahead of `get_idx`,
  and what is visible names a buffer that was filled in. The last part holds although `shm_poll` reads count and head without
  the lock: the receive thread is the only one that takes, so what it has seen stays until it consumes it (`HeadTaken`).
  `TypeCorrect` follows.
* `PoolInv`: hands and queues, as the functions `Hands` and `Queues`, share no buffer, and together hold those whose bit is set.
  `Owned` says so of a pair of functions, and each lemma about it says what one kind of move does (a head to the end of another
  queue, a head into a hand, ...); the lemmas about the steps then say which move each step is. `PoolCorrect` follows:
  `BufferOwnedOnce`, and with it that `shm_buff_count` does not wrap.
* `HistoryInv`: the messages in those buffers as lines, one for each stage of each node and one for what was received, in the order of
  their numbers in each line and from stage to stage (`InOrder`); a call carries the last number of its node, its message
  is in its buffer (`Loaded`), and a descriptor names the priority of the message it points to (`PriosTrue`). That nobody writes to a buffer
  under way is what `PoolInv` gives. `DeliveryInOrder` (`FifoPerSender`) and `StatusesTrue` (`StatusTruthful`) follow.

`DriverImplementsTransport` is the refinement `ImplementsTransport`: the driver is one FIFO queue per destination and priority. The mapping takes the
messages in the ring of a node apart by priority (`OfPriority`, a recursive function) and puts them behind those that the receive thread has
queued already. `NetOf` and `InboxOf` say the same as functions of the lines, so that what a step does to a line says what it does to the
transport: a commit appends to one queue (`NetAccepts`), `shm_poll` changes none (`NetKeeps`), `mcapi_rx_data` takes the head of one (`NetHandsOver`). What the sequence of one
priority does when a message comes or goes (`OfPriorityAppend`, `OfPriorityTail`) is shown without induction over data, by `Climb`, from the least place where it would fail.
The commit also owes that it exceeds no capacity: the caller holds a buffer, so the other `NumBuffers - 1` hold all that is under way (`TransitFits`), and that the
message is newer than all the transport has seen of its sender: `HistoryInv` says so of the lines and `WastePast` of what was discarded.

The theorems of `ShmTransport_delivery` assume `NotifyMayFail = FALSE`, as the runs do, and say so in their statements: the kernel of the
repository does not report such failures, and where one occurs the properties fail (section 5). `DriverInvariant` and `TypeCorrect` need no
such assumption.

### Nodes

`NodeLifecycle_proofs` is about any number of processes, routes, failures and signals.

* `DeviceCorrect` (`DeviceReady`): `CountInv` relates the reference count to the descriptors that are open, to the processes that
  are setting up and to the references that a failed `anon_inode_getfd` leaks; `DeviceInv` says how far each set-up and take-down has
  come while none overlaps another.
* `WakesSafe` (`NoLostWake`): not inductive, since a thread that has looked at its ring and is about to sleep owes the wake-up to a mark that the
  interrupt leaves; `WakeInv` includes it (`rx = "empty"` without `woken`).
* `RoutesCorrect` (`RouteWhileUp`): `RouteInv` adds the lock under which routes are claimed, that nothing is claimed before the master has
  laid out the region, and the route each stage of `openmcapi_shm_init` and `shm_finalize` has.
* `TypeCorrect`, and `LifeInvariant` for the conjunction of the last two with the types.

### Finding endpoints

`GetEndpoint_proofs` is about any nodes, ports, calls, pool of structures, and any order of starts and finalizations. `Inv` has four parts,
which need one another only in this order:

* `TypeInv`: `TypeOK`, and that the messages under way are of the protocol. That the cancellation reaches nobody is a lemma (`NotSent`), from
  the port it is sent to.
* `ListInv`: a request is on the list of its own node only, exactly while it waits. `ResultsFinal` (`ResultIsFinal`) follows: an answer only touches
  what is listed.
* `ForeignInv`: `ForeignConsistent`, and that a node that does not run lists nothing. `ForeignCorrect` follows.
* `WaitInv`: whoever waits has an entry at the other node or a message under way, and neither of the two nodes is yet to start; without that,
  a node that starts would find waiters nobody knows of. `WaitersRemembered` follows. Answers that are lost for want of a buffer, and requests
  that are refused because the pool is empty, are excepted (`unanswered`), as in the property.

### Connections

`Connection_proofs` is about any nodes, endpoints and calls, any pairs that are to be connected, whoever closes, cancels and deletes what, and any number
of messages lost. `Inv` is inductive and has three parts:

* `Local` is what calls and handlers do to the entries and the requests: types, and `OpenInv`, that an endpoint somebody waits for to open exists, was
  opened and is not connected. The model checked `OpenWaitsForPeer` alone; that the endpoint exists has to be added, or creating its port again would take the
  open back without an answer. `OpensWait` (`OpenWaitsForPeer`) follows. One lemma says what changes of bits and requests keep it (`LocalKept`, `LocalEnded`,
  `LocalSame`), one lemma per group of actions which of them it makes.
* `NetInv` is about the messages under way: they are of the protocol, a response is on its way to the node that called (`AllAddressed`; without it
  a response could be taken where nobody waits), and as long as `mishaps = 0` every call of `mcapi_connect` that waits has one of the messages that bring its answer.
  `Posted`, `TakenAway` and `Replied` say what sending, taking and sending back do to that. `AnswersUnderWay` (`AnswerUnderWay`) follows.
* `TypeCorrect` needs both parts, as the fields of the entries are filled in from messages.

`EndsAgreed` (`EndsAgree`), in the same module and with no hypothesis, is about the two ends of a channel, whoever opens, closes and competes. At rest the ends agree, in
between they do not: what is inductive (`EndsInv`) is what is owed. An endpoint that is taken and is not a sender in its handshake (`Bound`) has a peer that is bound to it, or a FIN of
that peer is on its way, or its acceptance is on its way to the sender (`Answered`); an acceptance finds its receiver still bound and no FIN between the two, or is followed
by the FIN that takes it back (`Confirmed`); and no FIN is under way between endpoints that agree (`Undisturbed`). That a FIN comes after what was sent before it is the order in the queues:
`HasIn` says that a queue has a message of a set, `Follows` that it has one of a set behind one of another, and the lemmas about the steps need no more of a queue than what taking and posting do to the two. It
is stated up to `early` and `stray`, since there the ends do disagree (section 5), and up to mishaps, as the property always was.

`Connection_agreement` is about channels that nobody closes (`Closers = {}`), between endpoints of which the application uses each in one direction (`RolesApart`). Both hold
in the run `connection_establish`; the code enforces neither. While a channel is closed one end is connected and the other not, so that `Paired` and `BothOpen` are
about channels nobody closes; without the second hypothesis they fail (section 5).

* `PairsInvariant`: `PairsInv` says what each message of a handshake promises of the entries it names (`MessageFine`): that a sender whose SYN is under way is taken and has no
  receiver yet, that the receiver which acknowledged is set up for it, that an open, or its acknowledgement, is from an end that has been opened. With `Single`, that a sender has at most one SYN or ACK under way, the
  promises hold until the message is handled. `ConnectedPaired` (`Paired`) and `ConnectedOpen` (`BothOpen`) follow, also when control messages are lost.
* `AnsweredTruthfully`: as long as nothing is lost, a successful `mcapi_connect` has connected the endpoints it named (`AnswersTruthful`). A call is not only woken by its own response but by all that
  connects its sender, because `mcapi_check_resume` does not look at the type of a request. `AnswersInv` therefore has to say where responses and acknowledgements are in the queue
  of the sender's node (`Ordered`): all answers to the calls of that node come before the message that would wake them with somebody else's success. A third hypothesis,
  `OneTarget`, excludes calls of one node that name one sender and different receivers: a response does not say which call it answers. `AnswersAlwaysTruthful` is the invariant itself where `MaxMishaps = 0`.

### Requests

`Requests_proofs` is about any endpoints, threads, operations, packets and lists of `mcapi_wait_any`, and any size of the pool. Three invariants
rest on each other:

* `ControlInv` is about the list and who is on it, without the data. `ListInv`: what is pending is on the list, once; but a replica of
  `mcapi_wait_any` may be there with a final status (`late`). `ReplicaInv`: a replica is pending exactly while its operation is, which is
  what makes `mcapi_wait` right. `CallInv`: what each suspended call relies on, as that an operation in a blocked receive has ended exactly
  if its thread was signalled. `PoolInv`: a structure of the pool is in use in one place of one call. `ListHoldsOnce` (`ListedOnce`),
  `PoolInBalance` (`PoolBalanced`) and `EndedWakes` (`WaiterWoken`) follow.
* `WaitInv` adds types of the data and that an operation only waits where there is no data and the endpoint is open (`NoDataOps`). `NobodyMissesData`
  (`NoDataWhileWaiting`, which is about the replicas too) and `TypeCorrect` follow.
* `SuccessInv` and `PacketInv` are about statuses and buffers. Until `mcapi_wait_any` replicates too late a replica has the very status of its operation
  (`ReplicasSame`), a buffer is filled once and only with success (`OneBuffer`), and a blocked receive of a scalar has nothing yet, in the hands of one
  thread (`BlockedOnce`). `Kept` says where each packet is; `PacketOnce` that no buffer was given twice, so that
  freeing one takes one off `MCAPI_Buf_Wait_List`. `DataWithSuccess` (`SuccessHasData`) and `PacketsKept` (`PacketKept`) follow.

The first two need nothing but `RequestsAssumption`. `DataWithSuccess` assumes `EqualBuffers`, that the operations for messages of one endpoint have buffers
of one size, and `PacketsKept` also `OneReceive`, that one packet receive is pending at an endpoint at a time; the statements say so, and the instance `requests_receive`
satisfies both. The code does not ask for either, and without them the properties fail, as section 5 explains: the status of a receive that
is too small goes to the later ones, and several receives are given one packet.

`Without` and `FreeStruct` are searches. What they compute is proved without induction over data: `LeastNat` and `Climb` derive what is needed from the least
natural number of a set. `Without` is a recursive function, not `SelectSeq`, of which `tlapm` knows no definition.

### Only model-checked

The invariants of `Channels`, `EndIsEnd` and `StreamIntact`: data and control messages share a queue there, so that the invariants of `Connection` do not carry over as they stand. All liveness (`AcceptedArrives`, `CallsReturn`, `GetAnswered`, `CallsEnd` and the
others): liveness under fairness and ENABLED are beyond the prover and remain with TLC.

## 5. Findings

1. `FinFromPeer`. A FIN is matched by the receiver's port alone. One that belongs to a former
   peer ends a newer connection, "since the other side has shutdown" (`cntrl_msg.c:674`), which it has not.
2. `AnyGoesOn`. `mcapi_wait_any` tests its requests, each under the mutex, and only then takes the mutex
   to replicate them. One that ends in between is not on the list any more; its replica is, but nobody
   will signal it. With an infinite timeout the call never returns although "any of the specific
   operations has completed" (`mcapi_wait_any.c:43`).
3. `PendingReadable`. A SYN is accepted by any endpoint without MCAPI_ENDP_CONNECTING (`cntrl_msg.c:840`), and the
   sender's FIN clears that bit at a receiver that is open and has unread packets. The new channel changes the type of
   the endpoint, and the packets are refused to the application that wants to receive them, although "pending packets at
   the receiver are not discarded until the receive side is closed" (`mcapi_pktchan_snd_close_i.c:45`). With a channel of the same type
   the receiver goes on, unaware, with the data of another sender (`reused`).

Proving brought up more of them. With three calls of `mcapi_connect` a FIN that is late can end the handshake of a sender which is already connecting again, and
the ends of the new channel disagree although no message was lost; `stray` marks such behaviours, and `EndsAgree` excludes them since. An endpoint that is the sender of one call and the receiver of another can be
acknowledged by the wrong channel (`BothOpen`). A response names the sender only (`cntrl_msg.c:641`), so that calls of one node which name the same sender and different
receivers are answered together, one of them with the result of the other. And a call of the sender's own node whose response is lost is told "ok" by whatever connects
that sender next. The theorems exclude these by their hypotheses.

Seen on the way, without a run of their own: a cancelled open sends no FIN, so that the peer keeps
half a connection (`EndsAgree` excludes it as a mishap); a sender closed before the ACK arrives can be
connected twice (`early`); a SYN or ACK that cannot be sent leaves the CONNECTING mark for
good; acknowledgement bits survive a FIN; `mcapi_setup_connection` compares neither types nor attributes of
the two ends; a SYN that is refused is still followed by the OPEN_RX of the endpoint.
In `mcapi_check_resume` a request whose buffer is too small sets `status` for every later
request as well, and a larger one behind it has the message removed but is told it was truncated;
several pending receives at an endpoint all get the same message or packet, so that the second
`mcapi_pktchan_free` fails; `mcapi_cancel` cancels every receive at the endpoint; a scalar receive of the
wrong width subtracts the header from `buf_size` for good, after which no width fits;
`MCAPI_Suspend_Task` has no predicate, so that a spurious wake-up would leave a local request on the list.
A blocked `scal_rcv` that is woken keeps the success of its request even if another thread has taken the scalar
before it has the mutex again, and returns without having filled in anything (`scal_rcv.c:109`).

`shm_tx` returns the status of the notification after the descriptor is in the ring (`shm.c:413`): if it fails,
`msg_send` records "no data was sent" and gives a buffer back that the receiver will find in the ring. With `NotifyMayFail` set to
TRUE in `shm_safety`, `StatusTruthful` and `BufferOwnedOnce` fail; the platforms in the repository do not report such failures.

Acknowledgements of opens that were under way when `mcapi_close` ran mark the closed endpoint as connected (`cntrl_msg.c:614`);
`mcapi_open` then refuses it as "already open and connected" (`connect.c:299`), and `mcapi_close` because neither side is open.
Packets that are under way when a receiver closes before its sender are queued at the closed endpoint, where the next open finds
them (`cut`).

The cancellation of a get-endpoint request is sent to port 0 of the own node (`cntrl_msg.c:1027`), so that the other node's entry stays;
it cancels every request of the node for that endpoint. A request that finds the pool of the other node empty is answered with
`MCAPI_ERR_REQUEST_LIMIT` to "send an error to the caller" (`cntrl_msg.c:191`), but by then `port_id` holds the port of the requester's control
endpoint (`cntrl_msg.c:133`), and the answer names that port (`cntrl_msg.c:207`). No request matches it (`suspend.c:255`): the caller waits on. In
`getendp_pending` with `MaxFailures`, `MaxDeletes` 0 and `Late`, `Leaving` empty, `\A r \in Requests : r \in unanswered ~> ~Waits(r)` fails, and holds once the answer names the
port that was asked for. Answers that find no buffer when the
endpoint is created are lost, and a later request is needed (`create_endpoint.c:279`). `mcapi_finalize` means to "inform all foreign nodes"
(`mcapi_finalize.c:160`), but has deleted the control endpoint from which it would (`mcapi_finalize.c:77`).
The control task of a node is never stopped (`MCAPI_Exit_OS` is empty), and a second initialization starts another.

In `mcomm_dev_ioctl_init` a process that comes second while the first has not yet noted the configuration is told EBUSY, though its
configuration is the same; a failure of `anon_inode_getfd` keeps the reference (`common.c:436`), after which the device is never freed;
and a set-up that runs into a take-down leaves a device without mailboxes. `shm_finalize` clears the unit of its route after the number and without the
lock, so that it can clear the unit of the slave that has just claimed the route (`torn`). If `pthread_cancel` fails because a signal
had ended the receive thread, the route is never cleared (`abandoned`), and the number is refused ever after. Messages that were in the
ring of a finalized node are read by its next incarnation.

## 6. Not modelled

Forwarding (`MCAPI_ENABLE_FORWARDING` is 0 by default), attributes and handle encoding (single fields under the lock),
platform code of the boards, tests and demos: nothing there for an interleaving to disturb. Weak
memory, see above. The closing of open channels and the freeing of buffers in `mcapi_finalize`, which repeat what closing an endpoint does.
The file operations and the anonymous inode compatibility code of the kernel module, which keep no state. Failures of
thread creation. The handler of a cancel message, which nothing reaches.

## 7. Plan

Modules: an abstract specification for `Requests`, that a request is completed once with the
result of its own condition; the requests of the other protocols (open, connect, get endpoint) on the same list. The first-zero-bit search of the
driver, against its definition, by TLC only.

Proofs: `EndIsEnd` and `StreamIntact` of `Channels`, over a refinement of `Connection` that leaves the data out of the queues.
