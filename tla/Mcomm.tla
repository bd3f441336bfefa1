-------------------------------- MODULE Mcomm --------------------------------
(***************************************************************************)
(* The kernel module of the shared memory driver (kmod/common.c): one       *)
(* device for all processes of a system, set up when the first of them asks *)
(* for a descriptor and taken down when the last descriptor is closed.  The *)
(* count of references is atomic, what is done about it is not.  The steps  *)
(* say nothing of the processes themselves: NodeLifecycle composes them.    *)
(***************************************************************************)
EXTENDS Naturals, FiniteSets

CONSTANTS
  Processes,
  MaxFaults   \* bound: calls of the kernel that fail for want of resources

VARIABLES
  refcount,
  mapped,      \* whether mbox_mapped is a mapping of the mailboxes
  configured,  \* whether nr_mboxes and the others have been set, ever
  irq,         \* whether the handler of the interrupt is installed
  fds,         \* open descriptors of each process
  kpc,         \* where each process is in the kernel: "user" if it is not
  overlap,     \* history: a set-up began while another, or a take-down, ran
  leaked,      \* history: references without a descriptor
  faults       \* how much of the bound is used up

kernel == <<refcount, mapped, configured, irq, fds, kpc, overlap, leaked, faults>>

KernelInit ==
  /\ refcount = 0
  /\ mapped = FALSE /\ configured = FALSE /\ irq = FALSE
  /\ fds = [p \in Processes |-> 0]
  /\ kpc = [p \in Processes |-> "user"]
  /\ overlap = FALSE
  /\ leaked = 0
  /\ faults = 0

At(p, here, there) == kpc[p] = here /\ kpc' = [kpc EXCEPT ![p] = there]
Fault == faults < MaxFaults /\ faults' = faults + 1

\* Another process is setting the device up, or taking it down.
Changing(p) == \E q \in Processes \ {p} : kpc[q] \in {"map", "irq", "undo", "free"}

\* MCOMM_INIT: the reference is taken before anything else.
InitEnter(p) ==
  /\ At(p, "user", IF refcount > 0 THEN "compare" ELSE "map")
  /\ refcount' = refcount + 1
  /\ overlap' = (overlap \/ Changing(p))
  /\ UNCHANGED <<mapped, configured, irq, fds, leaked, faults>>

\* Not the first: the configuration, the same for every process, is compared.
Compare(p) ==
  /\ At(p, "compare", IF configured THEN "getfd" ELSE "undo")
  /\ UNCHANGED <<refcount, mapped, configured, irq, fds, overlap, leaked, faults>>

\* The first maps the mailboxes ...
MapMailboxes(p) ==
  /\ \/ At(p, "map", "irq") /\ mapped' = TRUE /\ UNCHANGED faults
     \/ At(p, "map", "undo") /\ mapped' = FALSE /\ Fault
  /\ UNCHANGED <<refcount, configured, irq, fds, overlap, leaked>>

\* ... notes the configuration, and installs the handler, unless there is one.
RequestIrq(p) ==
  /\ configured' = TRUE
  /\ \/ ~irq /\ At(p, "irq", "getfd") /\ irq' = TRUE /\ UNCHANGED <<mapped, faults>>
     \/ /\ At(p, "irq", "undo") /\ mapped' = FALSE /\ UNCHANGED irq
        /\ (irq /\ UNCHANGED faults) \/ (~irq /\ Fault)
  /\ UNCHANGED <<refcount, fds, overlap, leaked>>

\* The new descriptor.  Without one the reference stays.
GetFd(p) ==
  /\ \/ /\ At(p, "getfd", "done")
        /\ fds' = [fds EXCEPT ![p] = @ + 1]
        /\ UNCHANGED <<leaked, faults>>
     \/ At(p, "getfd", "error") /\ Fault /\ leaked' = leaked + 1 /\ UNCHANGED fds
  /\ UNCHANGED <<refcount, mapped, configured, irq, overlap>>

Undo(p) ==
  /\ At(p, "undo", "error")
  /\ refcount' = refcount - 1
  /\ UNCHANGED <<mapped, configured, irq, fds, overlap, leaked, faults>>

\* (mutant) the device is taken down with one descriptor left
ReleaseEarly(p) ==
  /\ fds[p] > 0
  /\ At(p, "user", IF refcount <= 2 THEN "free" ELSE "done")
  /\ fds' = [fds EXCEPT ![p] = @ - 1]
  /\ refcount' = refcount - 1
  /\ UNCHANGED <<mapped, configured, irq, overlap, leaked, faults>>

\* mcomm_fd_release, when a descriptor and what was mapped from it are closed.
ReleaseFd(p) ==
  /\ fds[p] > 0
  /\ At(p, "user", IF refcount = 1 THEN "free" ELSE "done")
  /\ fds' = [fds EXCEPT ![p] = @ - 1]
  /\ refcount' = refcount - 1
  /\ UNCHANGED <<mapped, configured, irq, overlap, leaked, faults>>

FreeDevice(p) ==
  /\ At(p, "free", "done")
  /\ irq' = FALSE /\ mapped' = FALSE
  /\ UNCHANGED <<refcount, configured, fds, overlap, leaked, faults>>

\* A process in the kernel goes on.
KernelStep(p) ==
  \/ Compare(p) \/ MapMailboxes(p) \/ RequestIrq(p)
  \/ GetFd(p) \/ Undo(p) \/ FreeDevice(p)

KernelReturns(p, result) == At(p, result, "user")

-----------------------------------------------------------------------------
\* The variables keep to what the structures hold.
KernelTypeOK ==
  /\ refcount \in Nat /\ leaked \in Nat /\ faults \in 0 .. MaxFaults
  /\ mapped \in BOOLEAN /\ configured \in BOOLEAN /\ irq \in BOOLEAN
  /\ overlap \in BOOLEAN
  /\ fds \in [Processes -> Nat]
  /\ kpc \in [Processes -> {"user", "compare", "map", "irq", "getfd", "undo", "free",
                            "done", "error"}]
=============================================================================
