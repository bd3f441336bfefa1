---------------------------- MODULE NodeLifecycle ----------------------------
(***************************************************************************)
(* The life of the nodes that share a block of memory under one kernel:    *)
(* mcapi_initialize down to openmcapi_shm_init, with its master and its    *)
(* slaves, the routes they publish, the receive thread each starts and the *)
(* device it sleeps on (module Mcomm), sends along the routes with the     *)
(* notification of the receiver, and mcapi_finalize, after which a node    *)
(* may be initialized again.  A node is a process.  A step is one access   *)
(* to shared memory or one call of the kernel.  Unlike the buffers of a    *)
(* ring (module ShmTransport), routes are written without a lock by        *)
(* shm_finalize, and read without one by every sender.                     *)
(***************************************************************************)
EXTENDS Mcomm

CONSTANTS
  NumSlots,     \* CONFIG_SHM_NR_NODES
  MaxStarts,    \* bound: calls of mcapi_initialize
  MaxSends,     \* bound: messages
  MaxSignals,   \* bound: signals that interrupt a sleeping receive thread
  Nobody        \* SHM_INVALID_NODE, and the owner of a free lock

Slots == 1 .. NumSlots

ASSUME LifecycleAssumption ==
  /\ IsFiniteSet(Processes) /\ Nobody \notin Processes
  /\ NumSlots \in Nat /\ Cardinality(Processes) <= NumSlots
  /\ MaxStarts \in Nat /\ MaxSends \in Nat /\ MaxSignals \in Nat /\ MaxFaults \in Nat

VARIABLES
  pc,         \* where the application of each process is
  slot,       \* the route it is writing
  target,     \* the unit it will notify
  rx,         \* the receive thread of each process
  woken,      \* it was woken since it joined the wait queue
  complete,   \* shm_init_field
  initLock,   \* shm_init_lock
  routes,     \* shm_routes
  mail,       \* count in the ring of each node, which is its mailbox
  starts, sends, signals,   \* how much of the bounds is used up
  torn,       \* history: nodes whose unit a finalizing node has overwritten
  abandoned,  \* history: nodes whose finalization could not join its thread
  missed      \* history: a notification went to no unit

shared == <<complete, initLock, routes>>
threads == <<rx, woken>>
history == <<torn, abandoned, missed>>
counters == <<starts, sends, signals>>
vars == <<kernel, pc, slot, target, threads, shared, mail, counters, history>>

NoRoute == [node |-> Nobody, unit |-> "none"]

Init ==
  /\ KernelInit
  /\ pc = [p \in Processes |-> "off"]
  /\ slot = [p \in Processes |-> 0]
  /\ target = [p \in Processes |-> "none"]
  /\ rx = [p \in Processes |-> "none"]
  /\ woken = [p \in Processes |-> FALSE]
  /\ complete = FALSE
  /\ initLock = Nobody
  /\ routes = [i \in Slots |-> NoRoute]
  /\ mail = [p \in Processes |-> 0]
  /\ starts = 0 /\ sends = 0 /\ signals = 0
  /\ torn = {} /\ abandoned = {} /\ missed = FALSE

Goto(p, here, there) == pc[p] = here /\ pc' = [pc EXCEPT ![p] = there]
SlotsOf(p) == {i \in Slots : routes[i].node = p}

Driver == {"mapping", "unmapping", "lock", "register", "master", "search", "claim", "unit",
           "unlock", "refused", "notify"}

\* (mutant) mcapi_finalize keeps the mutex while it stops the driver
HoldsMutexLonger(p) == pc[p] \in Driver \cup {"join"}

\* The application's thread has MCAPI_Mutex, which the receive thread needs to
\* hand out what it polled, inside the driver, but not while it stops the driver.
HoldsMutex(p) == pc[p] \in Driver

-----------------------------------------------------------------------------
(* mcapi_initialize.                                                       *)

\* The process asks for the device.  After an attempt that failed with its
\* receive thread running the application does not try again.
Initialize(p) ==
  /\ Goto(p, "off", "mapping") /\ rx[p] = "none"
  /\ starts < MaxStarts /\ starts' = starts + 1
  /\ InitEnter(p)
  /\ UNCHANGED <<slot, target, threads, shared, mail, sends, signals, history>>

\* openmcapi_shm_map has the descriptor and maps the memory; the receive thread
\* is started at once, before the block is known to be initialized.
Mapped(p) ==
  /\ Goto(p, "mapping", "lock") /\ KernelReturns(p, "done")
  /\ rx' = [rx EXCEPT ![p] = "queued"]
  /\ woken' = [woken EXCEPT ![p] = FALSE]
  /\ UNCHANGED <<refcount, mapped, configured, irq, fds, overlap, leaked, faults,
                 slot, target, shared, mail, counters, history>>

NotInitialized(p) ==
  /\ Goto(p, "mapping", "off") /\ KernelReturns(p, "error")
  /\ UNCHANGED <<refcount, mapped, configured, irq, fds, overlap, leaked, faults,
                 slot, target, threads, shared, mail, counters, history>>

\* mmap fails: the descriptor is closed again.
MapFails(p) ==
  /\ pc[p] = "mapping" /\ kpc[p] = "done" /\ faults < MaxFaults
  /\ pc' = [pc EXCEPT ![p] = "unmapping"]
  /\ kpc' = [kpc EXCEPT ![p] = "user"]
  /\ faults' = faults + 1
  /\ UNCHANGED <<refcount, mapped, configured, irq, fds, overlap, leaked,
                 slot, target, threads, shared, mail, counters, history>>

\* (mutant) the lock is not waited for
TakeLockAnyway(p) ==
  /\ Goto(p, "lock", "register")
  /\ initLock' = p
  /\ UNCHANGED <<kernel, slot, target, threads, complete, routes, mail, counters, history>>

TakeLock(p) ==
  /\ Goto(p, "lock", "register")
  /\ initLock = Nobody /\ initLock' = p
  /\ UNCHANGED <<kernel, slot, target, threads, complete, routes, mail, counters, history>>

\* openmcapi_shm_init: the first to come is the master; a slave must not find its
\* number among the routes.
Register(p) ==
  /\ Goto(p, "register", IF ~complete THEN "master"
                         ELSE IF SlotsOf(p) # {} THEN "refused" ELSE "search")
  /\ UNCHANGED <<kernel, slot, target, threads, shared, mail, counters, history>>

\* shm_master_node_init.  The rings are not touched.
InitMaster(p) ==
  /\ Goto(p, "master", "unlock")
  /\ routes' = [i \in Slots |-> IF i = 1 THEN [node |-> p, unit |-> "cpu"] ELSE NoRoute]
  /\ complete' = TRUE
  /\ UNCHANGED <<kernel, slot, target, threads, initLock, mail, counters, history>>

\* (mutant) the loop counter is advanced before it is used
FindRouteNext(p) ==
  /\ Goto(p, "search", "claim")
  /\ \E i \in SlotsOf(Nobody) :
       /\ \A j \in SlotsOf(Nobody) : i <= j
       /\ slot' = [slot EXCEPT ![p] = i + 1]
  /\ UNCHANGED <<kernel, target, threads, shared, mail, counters, history>>

\* shm_slave_node_init: the first free route is found, ...
FindRoute(p) ==
  /\ Goto(p, "search", "claim")
  /\ \E i \in SlotsOf(Nobody) :
       /\ \A j \in SlotsOf(Nobody) : i <= j
       /\ slot' = [slot EXCEPT ![p] = i]
  /\ UNCHANGED <<kernel, target, threads, shared, mail, counters, history>>

\* ... claimed, ...
ClaimRoute(p) ==
  /\ Goto(p, "claim", "unit")
  /\ routes' = [routes EXCEPT ![slot[p]].node = p]
  /\ UNCHANGED <<kernel, slot, target, threads, complete, initLock, mail, counters, history>>

\* ... and its unit filled in afterwards.
SetUnit(p) ==
  /\ Goto(p, "unit", "unlock")
  /\ routes' = [routes EXCEPT ![slot[p]].unit = "cpu"]
  /\ torn' = torn \ {p}
  /\ UNCHANGED <<kernel, slot, target, threads, complete, initLock, mail, counters,
                 abandoned, missed>>

ReleaseLock(p) ==
  /\ Goto(p, "unlock", "up") \/ Goto(p, "refused", "failed")
  /\ initLock' = Nobody
  /\ UNCHANGED <<kernel, slot, target, threads, complete, routes, mail, counters, history>>

-----------------------------------------------------------------------------
(* Sending, and the receive thread.                                        *)

\* shm_tx: the route is looked up, the message enqueued.
Send(p, n) ==
  /\ sends < MaxSends /\ sends' = sends + 1
  /\ Goto(p, "up", "notify")
  /\ \E i \in SlotsOf(n) : target' = [target EXCEPT ![p] = routes[i].unit]
  /\ mail' = [mail EXCEPT ![n] = @ + 1]
  /\ UNCHANGED <<kernel, slot, threads, shared, starts, signals, history>>

\* mcomm_interrupt: if any mailbox is active everybody on the wait queue wakes.
Active == \E n \in Processes : mail[n] > 0
WakeAll ==
  /\ rx' = [p \in Processes |-> IF Active /\ rx[p] = "asleep" THEN "queued" ELSE rx[p]]
  /\ woken' = [p \in Processes |-> woken[p] \/ (Active /\ rx[p] \in {"queued", "empty"})]

\* MCOMM_NOTIFY.  The processes share a core, for which the interrupt handler is
\* called directly; there is no other to notify.
Notify(p) ==
  /\ Goto(p, "notify", "up")
  /\ \/ target[p] = "cpu" /\ WakeAll /\ UNCHANGED missed
     \/ target[p] = "none" /\ missed' = TRUE /\ UNCHANGED threads
  /\ UNCHANGED <<kernel, slot, target, shared, mail, counters, torn, abandoned>>

RxGoto(p, here, there) == rx[p] = here /\ rx' = [rx EXCEPT ![p] = there]

\* MCOMM_WAIT_READ: the thread is on the wait queue, looks at its mailbox, ...
LookAtMailbox(p) ==
  /\ RxGoto(p, "queued", IF mail[p] > 0 THEN "poll" ELSE "empty")
  /\ UNCHANGED <<kernel, pc, slot, target, woken, shared, mail, counters, history>>

\* (mutant) a wake-up between the look at the mailbox and the sleep is missed
SleepAnyway(p) ==
  /\ RxGoto(p, "empty", "asleep")
  /\ UNCHANGED <<kernel, pc, slot, target, woken, shared, mail, counters, history>>

\* ... and sleeps unless it was woken meanwhile.
Sleep(p) ==
  /\ RxGoto(p, "empty", IF woken[p] THEN "queued" ELSE "asleep")
  /\ woken' = [woken EXCEPT ![p] = FALSE]
  /\ UNCHANGED <<kernel, pc, slot, target, shared, mail, counters, history>>

\* shm_poll and what follows it, with the mutex.
Poll(p) ==
  /\ ~HoldsMutex(p)
  /\ RxGoto(p, "poll", "queued")
  /\ mail' = [mail EXCEPT ![p] = 0]
  /\ woken' = [woken EXCEPT ![p] = FALSE]
  /\ UNCHANGED <<kernel, pc, slot, target, shared, counters, history>>

\* The wait is interrupted: the thread leaves its loop.
Signal(p) ==
  /\ signals < MaxSignals /\ signals' = signals + 1
  /\ RxGoto(p, "asleep", "exited")
  /\ UNCHANGED <<kernel, pc, slot, target, woken, shared, mail, starts, sends, history>>

-----------------------------------------------------------------------------
(* mcapi_finalize, from where it stops the driver.                         *)

Finalize(p) ==
  /\ Goto(p, "up", "join")
  /\ UNCHANGED <<kernel, slot, target, threads, shared, mail, counters, history>>

\* The receive thread is cancelled in its wait, and joined.
Join(p) ==
  /\ Goto(p, "join", "clear")
  /\ rx[p] \in {"queued", "empty", "asleep", "exited"}
  /\ rx' = [rx EXCEPT ![p] = "none"]
  /\ UNCHANGED <<kernel, slot, target, woken, shared, mail, counters, history>>

\* pthread_cancel may report that a thread that has exited does not exist: then
\* neither the route is cleared nor the device closed.
JoinFails(p) ==
  /\ Goto(p, "join", "off")
  /\ RxGoto(p, "exited", "none")
  /\ abandoned' = abandoned \cup {p}
  /\ UNCHANGED <<kernel, slot, target, woken, shared, mail, counters, torn, missed>>

\* shm_finalize: first the number, then the unit, without the lock.
ClearNode(p) ==
  /\ Goto(p, "clear", "clearunit")
  /\ \E i \in SlotsOf(p) :
       /\ routes' = [routes EXCEPT ![i].node = Nobody]
       /\ slot' = [slot EXCEPT ![p] = i]
  /\ torn' = torn \ {p}
  /\ UNCHANGED <<kernel, target, threads, complete, initLock, mail, counters,
                 abandoned, missed>>

ClearUnit(p) ==
  /\ Goto(p, "clearunit", "unmapping")
  /\ routes' = [routes EXCEPT ![slot[p]].unit = "none"]
  /\ torn' = torn \cup ({routes[slot[p]].node} \ {Nobody})
  /\ UNCHANGED <<kernel, slot, target, threads, complete, initLock, mail, counters,
                 abandoned, missed>>

\* openmcapi_shm_unmap.
Unmap(p) ==
  /\ Goto(p, "unmapping", "closing") /\ ReleaseFd(p)
  /\ UNCHANGED <<slot, target, threads, shared, mail, counters, history>>

Unmapped(p) ==
  /\ Goto(p, "closing", "off") /\ KernelReturns(p, "done")
  /\ UNCHANGED <<refcount, mapped, configured, irq, fds, overlap, leaked, faults,
                 slot, target, threads, shared, mail, counters, history>>

-----------------------------------------------------------------------------
\* The process is in the kernel.
InKernel(p) ==
  /\ KernelStep(p)
  /\ UNCHANGED <<pc, slot, target, threads, shared, mail, counters, history>>

\* A call that has begun goes on.
Proceed(p) ==
  \/ InKernel(p)
  \/ Mapped(p) \/ NotInitialized(p) \/ MapFails(p)
  \/ TakeLock(p) \/ Register(p) \/ InitMaster(p) \/ FindRoute(p) \/ ClaimRoute(p)
  \/ SetUnit(p) \/ ReleaseLock(p)
  \/ Notify(p)
  \/ Join(p) \/ JoinFails(p) \/ ClearNode(p) \/ ClearUnit(p) \/ Unmap(p) \/ Unmapped(p)

Receive(p) == LookAtMailbox(p) \/ Sleep(p) \/ Poll(p)

Next ==
  \E p \in Processes :
    \/ Proceed(p) \/ Receive(p)
    \/ Initialize(p) \/ Finalize(p) \/ Signal(p)
    \/ \E n \in Processes : Send(p, n)

Spec == Init /\ [][Next]_vars

\* Threads that can run do; nobody is obliged to call, to send or to signal.
FairSpec == Spec /\ \A p \in Processes : WF_vars(Proceed(p)) /\ WF_vars(Receive(p))

-----------------------------------------------------------------------------
(* Properties.                                                             *)

Registered == {"unit", "unlock", "up", "notify", "join", "clear"}

NodeTypes ==
  /\ pc \in [Processes -> Registered \cup {"off", "closing", "clearunit", "failed"} \cup Driver]
  /\ slot \in [Processes -> Slots \cup {0}]
  /\ target \in [Processes -> {"cpu", "none"}]
  /\ rx \in [Processes -> {"none", "queued", "empty", "asleep", "poll", "exited"}]
  /\ woken \in [Processes -> BOOLEAN]
  /\ initLock \in Processes \cup {Nobody}
  /\ routes \in [Slots -> [node : Processes \cup {Nobody}, unit : {"cpu", "none"}]]
  /\ mail \in [Processes -> 0 .. MaxSends]
  /\ starts \in 0 .. MaxStarts
  /\ torn \subseteq Processes /\ abandoned \subseteq Processes

\* The variables keep to what the structures hold.
TypeOK == KernelTypeOK /\ NodeTypes

\* The references are those of the descriptors, of the set-ups under way, and of
\* the descriptors that could not be made (mcomm_dev_ioctl_init, mcomm_fd_release).
Entering(p) == kpc[p] \in {"compare", "map", "irq", "getfd", "undo"}
Descriptors == UNION {{p} \X (1 .. fds[p]) : p \in Processes}
RefcountBalanced ==
  refcount = Cardinality(Descriptors) + Cardinality({p \in Processes : Entering(p)}) + leaked

\* While a process has a descriptor the mailboxes are mapped, described, and
\* their interrupt handled; once nobody has, they are not, and the next set-up
\* finds the interrupt free.  That is so until a set-up comes while another, or
\* the take-down, runs.
DeviceReady ==
  /\ RefcountBalanced
  /\ ~overlap =>
       /\ (\E p \in Processes : fds[p] > 0) => mapped /\ configured /\ irq
       /\ refcount = 0 /\ (\A p \in Processes : kpc[p] # "free") => ~mapped /\ ~irq

\* A node that is up has one route, with a unit unless a finalizing node has
\* overwritten it; one that is not has none, unless it could not finalize.
RouteWhileUp ==
  \A p \in Processes :
    /\ pc[p] \in Registered => Cardinality(SlotsOf(p)) = 1
    /\ pc[p] \notin Registered /\ SlotsOf(p) # {} => p \in abandoned
    /\ pc[p] \in Registered \ {"unit"} /\ p \notin torn
         => \A i \in SlotsOf(p) : routes[i].unit = "cpu"

\* No receive thread sleeps over a message, unless who sent it is about to notify
\* it, or has found no unit to notify.
NoLostWake ==
  \A p \in Processes :
    rx[p] = "asleep" /\ mail[p] > 0 => missed \/ \E q \in Processes : pc[q] = "notify"

\* mcapi_initialize and mcapi_finalize return, whatever the other nodes do.
Settled(p) == pc[p] \in {"off", "up", "failed"}
CallsEnd == \A p \in Processes : ~Settled(p) ~> Settled(p)
=============================================================================
