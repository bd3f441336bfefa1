------------------------ MODULE NodeLifecycle_proofs ------------------------
(***************************************************************************)
(* Proofs about the nodes under one kernel, for every number of processes, *)
(* routes, failures and signals.  Three invariants, each inductive of its  *)
(* own: the references to the device (module Mcomm), the wake-ups of the   *)
(* receive threads, and the routes with the lock they are claimed under.   *)
(***************************************************************************)
EXTENDS NodeLifecycle, FiniteSetTheorems, TLAPS

-----------------------------------------------------------------------------
(* The device.                                                             *)

\* A call of the kernel is over.
Leaves(p) ==
  /\ kpc[p] \in {"done", "error"} /\ kpc' = [kpc EXCEPT ![p] = "user"]
  /\ faults' \in 0 .. MaxFaults
  /\ UNCHANGED <<refcount, mapped, configured, irq, fds, overlap, leaked>>

\* What any step does to the kernel.
LEMMA KernelMoves ==
  ASSUME Next, faults \in 0 .. MaxFaults
  PROVE  \/ UNCHANGED kernel
         \/ \E p \in Processes : InitEnter(p) \/ KernelStep(p) \/ ReleaseFd(p) \/ Leaves(p)
<1>1. PICK p \in Processes : \/ Proceed(p) \/ Receive(p)
                             \/ Initialize(p) \/ Finalize(p) \/ Signal(p)
                             \/ \E n \in Processes : Send(p, n)
  BY DEF Next
<1>2. CASE Proceed(p)
  <2>1. CASE InKernel(p)
    BY <2>1 DEF InKernel
  <2>2. CASE Mapped(p) \/ NotInitialized(p) \/ Unmapped(p)
    BY <2>2 DEF Mapped, NotInitialized, Unmapped, KernelReturns, At, Leaves
  <2>3. CASE MapFails(p)
    <3>1. faults' \in 0 .. MaxFaults
      BY <2>3, LifecycleAssumption DEF MapFails
    <3>2. QED
      BY <2>3, <3>1 DEF MapFails, Leaves
  <2>4. CASE Unmap(p)
    BY <2>4 DEF Unmap
  <2>5. CASE \/ TakeLock(p) \/ Register(p) \/ InitMaster(p) \/ FindRoute(p) \/ ClaimRoute(p)
             \/ SetUnit(p) \/ ReleaseLock(p)
    BY <2>5 DEF TakeLock, Register, InitMaster, FindRoute, ClaimRoute, SetUnit,
       ReleaseLock
  <2>6. CASE Notify(p) \/ Join(p) \/ JoinFails(p) \/ ClearNode(p) \/ ClearUnit(p)
    BY <2>6 DEF Notify, Join, JoinFails, ClearNode, ClearUnit
  <2>7. QED
    BY <1>2, <2>1, <2>2, <2>3, <2>4, <2>5, <2>6 DEF Proceed
<1>3. CASE Initialize(p)
  BY <1>3 DEF Initialize
<1>4. CASE Receive(p) \/ Finalize(p) \/ Signal(p) \/ \E n \in Processes : Send(p, n)
  BY <1>4 DEF Receive, LookAtMailbox, Sleep, Poll, Finalize, Signal, Send
<1>5. QED
  BY <1>1, <1>2, <1>3, <1>4

\* The processes that have a reference without a descriptor.
EnteringSet == {p \in Processes : Entering(p)}

\* Everything the count of references depends on is what it may be, and finite.
CountInv ==
  /\ KernelTypeOK
  /\ IsFiniteSet(Descriptors)
  /\ RefcountBalanced

\* The processes that set the device up, while it is not known to be there.
SettingUp == {"map", "irq", "undo"}

\* What the device is while no set-up has come during another, or during a
\* take-down: who sets it up has the only reference, who takes it down has given
\* back the last, and otherwise it is there just when there are references.
DeviceInv ==
  ~overlap =>
    /\ \A p \in Processes :
         /\ kpc[p] \in SettingUp => refcount = 1 /\ ~irq
         /\ kpc[p] \in {"map", "undo"} => ~mapped
         /\ kpc[p] = "irq" => mapped
         /\ kpc[p] = "free" => refcount = 0
    /\ refcount > 0 /\ (\A p \in Processes : kpc[p] \notin SettingUp)
         => mapped /\ configured /\ irq
    /\ refcount = 0 /\ (\A p \in Processes : kpc[p] # "free") => ~mapped /\ ~irq

\* The sets that are counted are finite.
LEMMA Finite ==
  ASSUME CountInv
  PROVE  /\ IsFiniteSet(EnteringSet) /\ Cardinality(EnteringSet) \in Nat
         /\ Cardinality(Descriptors) \in Nat
  BY LifecycleAssumption, FS_Subset, FS_CardinalityType DEF EnteringSet, CountInv

\* A process gets into the kernel, goes out of it, or goes on there.
LEMMA EnteringMoves ==
  ASSUME KernelTypeOK, NEW p \in Processes, NEW here, NEW there, At(p, here, there)
  PROVE  EnteringSet' = IF there \in {"compare", "map", "irq", "getfd", "undo"}
                        THEN EnteringSet \cup {p} ELSE EnteringSet \ {p}
  BY DEF EnteringSet, Entering, At, KernelTypeOK

\* Opening or closing a descriptor adds it to the open ones or takes it away.
LEMMA DescriptorsMove ==
  ASSUME KernelTypeOK, NEW p \in Processes
  PROVE  /\ fds' = [fds EXCEPT ![p] = @ + 1] =>
              /\ <<p, fds[p] + 1>> \notin Descriptors
              /\ Descriptors' = Descriptors \cup {<<p, fds[p] + 1>>}
         /\ fds[p] > 0 /\ fds' = [fds EXCEPT ![p] = @ - 1] =>
              /\ <<p, fds[p]>> \in Descriptors
              /\ Descriptors' = Descriptors \ {<<p, fds[p]>>}
<1>1. Descriptors = {d \in Processes \X Nat : d[2] \in 1 .. fds[d[1]]}
  BY DEF Descriptors, KernelTypeOK
<1>2. ASSUME fds' = [fds EXCEPT ![p] = @ + 1]
      PROVE  /\ <<p, fds[p] + 1>> \notin Descriptors
             /\ Descriptors' = Descriptors \cup {<<p, fds[p] + 1>>}
  <2>1. Descriptors' = {d \in Processes \X Nat : d[2] \in 1 .. fds'[d[1]]}
    BY <1>2 DEF Descriptors, KernelTypeOK
  <2>2. QED
    BY <1>1, <1>2, <2>1 DEF KernelTypeOK
<1>3. ASSUME fds[p] > 0, fds' = [fds EXCEPT ![p] = @ - 1]
      PROVE  /\ <<p, fds[p]>> \in Descriptors
             /\ Descriptors' = Descriptors \ {<<p, fds[p]>>}
  <2>1. Descriptors' = {d \in Processes \X Nat : d[2] \in 1 .. fds'[d[1]]}
    BY <1>3 DEF Descriptors, KernelTypeOK
  <2>2. QED
    BY <1>1, <1>3, <2>1 DEF KernelTypeOK
<1>4. QED
  BY <1>2, <1>3

\* Nobody is in the kernel, and nobody has a descriptor, at first.
LEMMA CountInit == Init => CountInv /\ DeviceInv
<1> SUFFICES ASSUME Init PROVE CountInv /\ DeviceInv
  OBVIOUS
<1>1. Descriptors = {} /\ {p \in Processes : Entering(p)} = {}
  BY DEF Init, KernelInit, Descriptors, Entering
<1>2. IsFiniteSet(Descriptors) /\ RefcountBalanced
  BY <1>1, FS_EmptySet DEF RefcountBalanced, Init, KernelInit
<1>3. KernelTypeOK
  <2>1. MaxFaults \in Nat
    BY LifecycleAssumption
  <2>2. QED
    <3>1. refcount \in Nat /\ leaked \in Nat /\ faults \in 0 .. MaxFaults
      BY <2>1 DEF Init, KernelInit
    <3>2. /\ mapped \in BOOLEAN /\ configured \in BOOLEAN /\ irq \in BOOLEAN
          /\ overlap \in BOOLEAN
      BY Zenon DEF Init, KernelInit
    <3>3. QED
      BY <3>1, <3>2 DEF Init, KernelInit, KernelTypeOK
<1>4. DeviceInv
  BY DEF Init, KernelInit, DeviceInv, SettingUp
<1>5. QED
  BY <1>2, <1>3, <1>4 DEF CountInv

\* The balance, when one process takes a reference, keeps it, or gives it back.
LEMMA Balance ==
  ASSUME CountInv, IsFiniteSet(Descriptors'), KernelTypeOK',
         NEW e \in Nat, e = Cardinality(EnteringSet),
         NEW d \in Nat, d = Cardinality(Descriptors),
         NEW e2 \in Nat, e2 = Cardinality(EnteringSet'),
         NEW d2 \in Nat, d2 = Cardinality(Descriptors'),
         refcount' + e + d + leaked = refcount + e2 + d2 + leaked'
  PROVE  CountInv'
<1>1. refcount = d + e + leaked
  BY DEF CountInv, RefcountBalanced, EnteringSet
<1>2. refcount \in Nat /\ leaked \in Nat /\ refcount' \in Nat /\ leaked' \in Nat
  BY DEF CountInv, KernelTypeOK
<1>3. refcount' = d2 + e2 + leaked'
  BY <1>1, <1>2
<1>4. QED
  BY <1>3 DEF CountInv, RefcountBalanced, EnteringSet

\* Every step keeps the balance: a reference is taken when a process enters, passes to
\* its descriptor or is lost, and is given back once.
LEMMA CountStep ==
  ASSUME CountInv, Next
  PROVE  CountInv'
<1> DEFINE e == Cardinality(EnteringSet)
           d == Cardinality(Descriptors)
<1>1. /\ IsFiniteSet(EnteringSet) /\ IsFiniteSet(Descriptors)
      /\ e \in Nat /\ d \in Nat /\ KernelTypeOK
  BY Finite DEF CountInv
<1>2. refcount = d + e + leaked /\ refcount \in Nat /\ leaked \in Nat
  BY DEF CountInv, RefcountBalanced, EnteringSet, KernelTypeOK
<1>3. CASE UNCHANGED kernel
  BY <1>3 DEF kernel, CountInv, KernelTypeOK, Descriptors, RefcountBalanced, Entering
<1>4. ASSUME NEW p \in Processes, InitEnter(p) PROVE CountInv'
  <2>1. EnteringSet' = EnteringSet \cup {p} /\ p \notin EnteringSet
    <3>1. At(p, "user", IF refcount > 0 THEN "compare" ELSE "map")
      BY <1>4 DEF InitEnter
    <3>2. QED
      BY <1>1, <3>1, EnteringMoves DEF EnteringSet, Entering, At
  <2>2. Cardinality(EnteringSet') = e + 1
    BY <1>1, <2>1, FS_AddElement
  <2>3. Descriptors' = Descriptors
    BY <1>4 DEF InitEnter, Descriptors
  <2>4. KernelTypeOK'
    BY <1>1, <1>4 DEF InitEnter, KernelTypeOK, At
  <2>5. QED
    BY <1>1, <1>4, <2>2, <2>3, <2>4, Balance DEF InitEnter, KernelTypeOK
<1>5. ASSUME NEW p \in Processes, Compare(p) \/ MapMailboxes(p) \/ RequestIrq(p)
      PROVE  CountInv'
  <2>1. EnteringSet' = EnteringSet
    BY <1>1, <1>5
       DEF EnteringSet, Entering, Compare, MapMailboxes, RequestIrq, At, KernelTypeOK
  <2>2. Descriptors' = Descriptors /\ refcount' = refcount /\ leaked' = leaked
    BY <1>5 DEF Compare, MapMailboxes, RequestIrq, Descriptors
  <2>3. KernelTypeOK'
    <3>1. faults' \in 0 .. MaxFaults
      BY <1>1, <1>5, LifecycleAssumption
         DEF Compare, MapMailboxes, RequestIrq, Fault, KernelTypeOK
    <3>2. kpc' \in [Processes -> {"user", "compare", "map", "irq", "getfd", "undo", "free",
                                 "done", "error"}]
      BY <1>1, <1>5 DEF Compare, MapMailboxes, RequestIrq, At, KernelTypeOK
    <3>3. QED
      BY <1>1, <1>5, <2>2, <3>1, <3>2 DEF Compare, MapMailboxes, RequestIrq,
         KernelTypeOK
  <2>4. QED
    BY <1>1, <1>2, <2>1, <2>2, <2>3, Balance
<1>6. ASSUME NEW p \in Processes, GetFd(p) PROVE CountInv'
  <2>1. EnteringSet' = EnteringSet \ {p} /\ p \in EnteringSet
    <3>1. At(p, "getfd", "done") \/ At(p, "getfd", "error")
      BY <1>6 DEF GetFd
    <3>2. QED
      BY <1>1, <3>1, EnteringMoves DEF EnteringSet, Entering, At
  <2>2. Cardinality(EnteringSet') = e - 1 /\ e - 1 \in Nat
    <3>1. Cardinality(EnteringSet') = e - 1 /\ IsFiniteSet(EnteringSet')
      BY <1>1, <2>1, FS_RemoveElement
    <3>2. QED
      BY <3>1, FS_CardinalityType
  <2>3. refcount' = refcount
    BY <1>6 DEF GetFd
  <2>4. KernelTypeOK'
    <3>1. faults' \in 0 .. MaxFaults
      BY <1>1, <1>6, LifecycleAssumption DEF GetFd, Fault, KernelTypeOK
    <3>2. QED
      BY <1>1, <1>6, <3>1 DEF GetFd, At, KernelTypeOK
  <2>5. CASE fds' = [fds EXCEPT ![p] = @ + 1] /\ leaked' = leaked
    <3>1. Cardinality(Descriptors') = d + 1 /\ IsFiniteSet(Descriptors')
      <4>1. /\ <<p, fds[p] + 1>> \notin Descriptors
            /\ Descriptors' = Descriptors \cup {<<p, fds[p] + 1>>}
        BY <1>1, <2>5, DescriptorsMove
      <4>2. QED
        BY <1>1, <4>1, FS_AddElement
    <3>2. QED
      BY <1>1, <1>2, <2>2, <2>3, <2>4, <2>5, <3>1, Balance
  <2>6. CASE fds' = fds /\ leaked' = leaked + 1
    <3>1. Descriptors' = Descriptors
      BY <2>6 DEF Descriptors
    <3>2. QED
      BY <1>1, <1>2, <2>2, <2>3, <2>4, <2>6, <3>1, Balance
  <2>7. QED
    BY <1>6, <2>5, <2>6 DEF GetFd
<1>7. ASSUME NEW p \in Processes, Undo(p) PROVE CountInv'
  <2>1. EnteringSet' = EnteringSet \ {p} /\ p \in EnteringSet
    <3>1. At(p, "undo", "error")
      BY <1>7 DEF Undo
    <3>2. EnteringSet' = EnteringSet \ {p}
      BY <1>1, <3>1, EnteringMoves
    <3>3. p \in EnteringSet
      BY <3>1 DEF EnteringSet, Entering, At
    <3>4. QED
      BY <3>2, <3>3
  <2>2. Cardinality(EnteringSet') = e - 1 /\ e - 1 \in Nat
    <3>1. Cardinality(EnteringSet') = e - 1 /\ IsFiniteSet(EnteringSet')
      BY <1>1, <2>1, FS_RemoveElement
    <3>2. QED
      BY <3>1, FS_CardinalityType
  <2>3. Descriptors' = Descriptors /\ refcount' = refcount - 1 /\ leaked' = leaked
    BY <1>7 DEF Undo, Descriptors
  <2>4. KernelTypeOK'
    BY <1>1, <1>2, <1>7, <2>2, <2>3 DEF Undo, At, KernelTypeOK
  <2>5. QED
    BY <1>1, <1>2, <2>2, <2>3, <2>4, Balance
<1>8. ASSUME NEW p \in Processes, ReleaseFd(p) PROVE CountInv'
  <2>1. EnteringSet' = EnteringSet
    <3>1. At(p, "user", IF refcount = 1 THEN "free" ELSE "done")
      BY <1>8 DEF ReleaseFd
    <3>2. EnteringSet' = EnteringSet \ {p} /\ p \notin EnteringSet
      BY <1>1, <3>1, EnteringMoves DEF EnteringSet, Entering, At
    <3>3. QED
      BY <3>2
  <2>2. Cardinality(Descriptors') = d - 1 /\ IsFiniteSet(Descriptors')
    <3>1. /\ <<p, fds[p]>> \in Descriptors
          /\ Descriptors' = Descriptors \ {<<p, fds[p]>>}
      BY <1>1, <1>8, DescriptorsMove DEF ReleaseFd
    <3>2. QED
      BY <1>1, <3>1, FS_RemoveElement
  <2>3. d - 1 \in Nat
    BY <2>2, FS_CardinalityType
  <2>4. refcount' = refcount - 1 /\ leaked' = leaked
    BY <1>8 DEF ReleaseFd
  <2>5. KernelTypeOK'
    <3>1. refcount' \in Nat
      BY <1>1, <1>2, <2>3, <2>4
    <3>2. QED
      BY <1>1, <1>8, <3>1 DEF ReleaseFd, At, KernelTypeOK
  <2>6. QED
    BY <1>1, <1>2, <2>1, <2>2, <2>3, <2>4, <2>5, Balance
<1>9. ASSUME NEW p \in Processes, FreeDevice(p) \/ Leaves(p) PROVE CountInv'
  <2>1. EnteringSet' = EnteringSet
    BY <1>1, <1>9 DEF EnteringSet, Entering, FreeDevice, Leaves, At, KernelTypeOK
  <2>2. Descriptors' = Descriptors /\ refcount' = refcount /\ leaked' = leaked
    BY <1>9 DEF FreeDevice, Leaves, Descriptors
  <2>3. KernelTypeOK'
    BY <1>1, <1>9 DEF FreeDevice, Leaves, At, KernelTypeOK
  <2>4. QED
    BY <1>1, <1>2, <2>1, <2>2, <2>3, Balance
<1>10. QED
  <2>1. faults \in 0 .. MaxFaults
    BY <1>1 DEF KernelTypeOK
  <2>2. QED
    BY <1>3, <1>4, <1>5, <1>6, <1>7, <1>8, <1>9, <2>1, KernelMoves DEF KernelStep

\* Counting: while a process sets the device up with the only reference, no other
\* has a reference or a descriptor, and none was lost.
LEMMA OnlyReference ==
  ASSUME CountInv, NEW p \in Processes, Entering(p), refcount = 1
  PROVE  /\ \A q \in Processes : Entering(q) => q = p
         /\ \A q \in Processes : fds[q] = 0
<1> DEFINE e == Cardinality(EnteringSet)
           d == Cardinality(Descriptors)
<1>1. /\ IsFiniteSet(EnteringSet) /\ IsFiniteSet(Descriptors)
      /\ e \in Nat /\ d \in Nat
  BY Finite DEF CountInv
<1>2. 1 = d + e + leaked /\ leaked \in Nat
  BY DEF CountInv, RefcountBalanced, EnteringSet, KernelTypeOK
<1>3. p \in EnteringSet
  BY DEF EnteringSet
<1>4. e # 0
  BY <1>1, <1>3, FS_EmptySet
<1>5. e = 1 /\ d = 0
  BY <1>1, <1>2, <1>4
<1>6. \A q \in EnteringSet : q = p
  BY <1>1, <1>3, <1>5, FS_Singleton
<1>7. Descriptors = {}
  BY <1>1, <1>5, FS_EmptySet
<1>8. ASSUME NEW q \in Processes
      PROVE  fds[q] = 0
  <2>1. fds[q] \in Nat /\ ~ (fds[q] >= 1)
    <3>1. fds[q] \in Nat
      BY DEF CountInv, KernelTypeOK
    <3>2. ASSUME fds[q] >= 1 PROVE FALSE
      <4>1. <<q, 1>> \in Descriptors
        BY <3>1, <3>2 DEF Descriptors
      <4>2. QED
        BY <1>7, <4>1
    <3>3. QED
      BY <3>1, <3>2
  <2>2. QED
    BY <2>1
<1>9. QED
  BY <1>6, <1>8 DEF EnteringSet

\* Whoever has a reference or a descriptor is counted.
LEMMA Counted ==
  ASSUME CountInv, NEW p \in Processes, Entering(p) \/ fds[p] > 0
  PROVE  refcount > 0
<1> DEFINE e == Cardinality(EnteringSet)
           d == Cardinality(Descriptors)
<1>1. /\ IsFiniteSet(EnteringSet) /\ IsFiniteSet(Descriptors)
      /\ e \in Nat /\ d \in Nat
  BY Finite DEF CountInv
<1>2. refcount = d + e + leaked /\ leaked \in Nat
  BY DEF CountInv, RefcountBalanced, EnteringSet, KernelTypeOK
<1>3. EnteringSet # {} \/ Descriptors # {}
  <2>1. CASE Entering(p)
    BY <2>1 DEF EnteringSet
  <2>2. CASE fds[p] > 0
    <3>1. fds[p] \in Nat
      BY DEF CountInv, KernelTypeOK
    <3>2. <<p, 1>> \in Descriptors
      BY <2>2, <3>1 DEF Descriptors
    <3>3. QED
      BY <3>2
  <2>3. QED
    BY <2>1, <2>2
<1>4. e # 0 \/ d # 0
  BY <1>1, <1>3, FS_EmptySet
<1>5. QED
  BY <1>1, <1>2, <1>4

\* Every step keeps the device in order, or is a set-up that overlaps.
LEMMA DeviceStep ==
  ASSUME CountInv, DeviceInv, Next
  PROVE  DeviceInv'
<1>1. KernelTypeOK
  BY DEF CountInv
<1>2. CASE UNCHANGED kernel
  BY <1>2 DEF kernel, DeviceInv
<1>3. ASSUME NEW p \in Processes, InitEnter(p) PROVE DeviceInv'
  <2>1. \A q \in Processes : kpc'[q] = IF q = p THEN IF refcount > 0 THEN "compare" ELSE "map"
                                       ELSE kpc[q]
    BY <1>1, <1>3 DEF InitEnter, At, KernelTypeOK
  <2>2. ASSUME ~overlap'
        PROVE  /\ ~overlap
               /\ \A q \in Processes : kpc[q] \notin {"map", "irq", "undo", "free"}
    BY <1>3, <2>2 DEF InitEnter, At, Changing
  <2>3. refcount \in Nat /\ refcount' = refcount + 1
    BY <1>1, <1>3 DEF InitEnter, KernelTypeOK
  <2>4. UNCHANGED <<mapped, configured, irq>>
    BY <1>3 DEF InitEnter
  <2>5. QED
    BY <2>1, <2>2, <2>3, <2>4 DEF DeviceInv, SettingUp
<1>4. ASSUME NEW p \in Processes, Entering(p), kpc[p] \in SettingUp, ~overlap
      PROVE  /\ refcount = 1
             /\ \A q \in Processes : kpc[q] \in SettingUp \cup {"free", "compare", "getfd"}
                                       => q = p
  <2>1. refcount = 1
    BY <1>4 DEF DeviceInv
  <2>2. \A q \in Processes : kpc[q] # "free"
    BY <1>4, <2>1 DEF DeviceInv
  <2>3. QED
    BY <1>4, <2>1, <2>2, OnlyReference DEF Entering, SettingUp
<1>5. ASSUME NEW p \in Processes, Compare(p) PROVE DeviceInv'
  <2>1. refcount > 0
    BY <1>5, Counted DEF Compare, At, Entering
  <2>2. ASSUME ~overlap, NEW q \in Processes PROVE kpc[q] \notin SettingUp
    BY <1>4, <1>5, <2>2 DEF Compare, At, Entering, SettingUp
  <2>3. ~overlap => configured
    BY <2>1, <2>2 DEF DeviceInv
  <2>4. ~overlap => \A q \in Processes : kpc'[q] = IF q = p THEN "getfd" ELSE kpc[q]
    BY <1>1, <1>5, <2>3 DEF Compare, At, KernelTypeOK
  <2>5. UNCHANGED <<refcount, mapped, configured, irq, overlap>>
    BY <1>5 DEF Compare
  <2>6. QED
    BY <2>1, <2>2, <2>4, <2>5 DEF DeviceInv, SettingUp
<1>6. ASSUME NEW p \in Processes, MapMailboxes(p) \/ RequestIrq(p) PROVE DeviceInv'
  <2>1. kpc[p] \in SettingUp /\ Entering(p)
    BY <1>6 DEF MapMailboxes, RequestIrq, At, Entering, SettingUp
  <2>2. UNCHANGED <<refcount, overlap>>
    BY <1>6 DEF MapMailboxes, RequestIrq
  <2>3. \A q \in Processes : q # p => kpc'[q] = kpc[q]
    BY <1>1, <1>6 DEF MapMailboxes, RequestIrq, At, KernelTypeOK
  <2>4. CASE MapMailboxes(p)
    <3>1. /\ ~overlap => ~irq
          /\ irq' = irq
          /\ \/ kpc'[p] = "irq" /\ mapped'
             \/ kpc'[p] = "undo" /\ ~mapped'
      BY <1>1, <2>1, <2>4 DEF MapMailboxes, At, KernelTypeOK, DeviceInv
    <3>2. QED
      BY <1>4, <2>1, <2>2, <2>3, <3>1 DEF DeviceInv, SettingUp
  <2>5. CASE RequestIrq(p)
    <3>1. /\ configured'
          /\ ~overlap => \/ kpc'[p] = "getfd" /\ irq' /\ mapped'
                         \/ kpc'[p] = "undo" /\ ~irq' /\ ~mapped'
      BY <1>1, <2>1, <2>5 DEF RequestIrq, At, KernelTypeOK, DeviceInv
    <3>2. QED
      BY <1>4, <2>1, <2>2, <2>3, <3>1 DEF DeviceInv, SettingUp
  <2>6. QED
    BY <1>6, <2>4, <2>5
<1>7. ASSUME NEW p \in Processes, GetFd(p) PROVE DeviceInv'
  <2>1. refcount > 0
    BY <1>7, Counted DEF GetFd, At, Entering
  <2>2. ASSUME ~overlap, NEW q \in Processes PROVE kpc[q] \notin SettingUp
    BY <1>4, <1>7, <2>2 DEF GetFd, At, Entering, SettingUp
  <2>3. \A q \in Processes : kpc'[q] \in {"done", "error"} \/ kpc'[q] = kpc[q]
    BY <1>1, <1>7 DEF GetFd, At, KernelTypeOK
  <2>4. UNCHANGED <<refcount, mapped, configured, irq, overlap>>
    BY <1>7 DEF GetFd
  <2>5. QED
    BY <2>1, <2>2, <2>3, <2>4 DEF DeviceInv, SettingUp
<1>8. ASSUME NEW p \in Processes, Undo(p) PROVE DeviceInv'
  <2>1. kpc[p] \in SettingUp /\ Entering(p)
    BY <1>8 DEF Undo, At, Entering, SettingUp
  <2>2. ~overlap => ~mapped /\ ~irq
    BY <1>8, <2>1 DEF Undo, At, DeviceInv
  <2>3. \A q \in Processes : kpc'[q] = IF q = p THEN "error" ELSE kpc[q]
    BY <1>1, <1>8 DEF Undo, At, KernelTypeOK
  <2>4. refcount' = refcount - 1 /\ UNCHANGED <<mapped, configured, irq, overlap>>
    BY <1>8 DEF Undo
  <2>5. QED
    BY <1>4, <2>1, <2>2, <2>3, <2>4 DEF DeviceInv, SettingUp
<1>9. ASSUME NEW p \in Processes, ReleaseFd(p) PROVE DeviceInv'
  <2>1. refcount > 0 /\ refcount \in Nat /\ fds[p] > 0
    BY <1>1, <1>9, Counted DEF ReleaseFd, KernelTypeOK
  <2>2. ASSUME ~overlap, NEW q \in Processes
        PROVE  kpc[q] \notin SettingUp /\ kpc[q] # "free"
    <3>1. CASE kpc[q] \in SettingUp
      <4>1. Entering(q) /\ refcount = 1
        BY <2>2, <3>1 DEF DeviceInv, Entering, SettingUp
      <4>2. fds[p] = 0
        BY <4>1, OnlyReference
      <4>3. QED
        BY <2>1, <4>2
    <3>2. CASE kpc[q] = "free"
      BY <2>1, <2>2, <3>2 DEF DeviceInv
    <3>3. QED
      BY <3>1, <3>2 DEF SettingUp
  <2>3. \A q \in Processes : kpc'[q] = IF q = p THEN IF refcount = 1 THEN "free" ELSE "done"
                                       ELSE kpc[q]
    BY <1>1, <1>9 DEF ReleaseFd, At, KernelTypeOK
  <2>4. refcount' = refcount - 1 /\ UNCHANGED <<mapped, configured, irq, overlap>>
    BY <1>9 DEF ReleaseFd
  <2>5. QED
    BY <2>1, <2>2, <2>3, <2>4 DEF DeviceInv, SettingUp
<1>10. ASSUME NEW p \in Processes, FreeDevice(p) PROVE DeviceInv'
  <2>1. ~overlap => refcount = 0
    BY <1>10 DEF FreeDevice, At, DeviceInv
  <2>2. ~overlap => \A q \in Processes : kpc[q] \notin SettingUp
    BY <2>1 DEF DeviceInv
  <2>3. \A q \in Processes : kpc'[q] = IF q = p THEN "done" ELSE kpc[q]
    BY <1>1, <1>10 DEF FreeDevice, At, KernelTypeOK
  <2>4. ~irq' /\ ~mapped' /\ UNCHANGED <<refcount, configured, overlap>>
    BY <1>10 DEF FreeDevice
  <2>5. QED
    BY <2>1, <2>2, <2>3, <2>4 DEF DeviceInv, SettingUp
<1>11. ASSUME NEW p \in Processes, Leaves(p) PROVE DeviceInv'
  <2>1. \A q \in Processes : kpc'[q] = IF q = p THEN "user" ELSE kpc[q]
    BY <1>1, <1>11 DEF Leaves, KernelTypeOK
  <2>2. kpc[p] \in {"done", "error"} /\ UNCHANGED <<refcount, mapped, configured, irq, overlap>>
    BY <1>11 DEF Leaves
  <2>3. QED
    BY <2>1, <2>2 DEF DeviceInv, SettingUp
<1>12. QED
  <2>1. faults \in 0 .. MaxFaults
    BY <1>1 DEF KernelTypeOK
  <2>2. QED
    BY <1>2, <1>3, <1>5, <1>6, <1>7, <1>8, <1>9, <1>10, <1>11, <2>1, KernelMoves
       DEF KernelStep

\* The device is ready for whoever has a descriptor, and down when nobody has, as
\* long as no set-up has come during another or during a take-down: the count of
\* references, taken before anything else is done, is the one of those who have a
\* descriptor, or are about to (mcomm_dev_ioctl_init, mcomm_fd_release).
THEOREM DeviceCorrect == Spec => []DeviceReady
<1>1. Init => CountInv /\ DeviceInv
  BY CountInit
<1>2. CountInv /\ DeviceInv /\ [Next]_vars => (CountInv /\ DeviceInv)'
  <2>1. CASE Next
    BY <2>1, CountStep, DeviceStep
  <2>2. CASE UNCHANGED vars
    BY <2>2 DEF vars, kernel, CountInv, DeviceInv, KernelTypeOK, Descriptors,
                RefcountBalanced, Entering
  <2>3. QED
    BY <2>1, <2>2
<1>3. CountInv /\ DeviceInv => DeviceReady
  <2>1. SUFFICES ASSUME CountInv, DeviceInv PROVE DeviceReady
    OBVIOUS
  <2>2. ASSUME ~overlap, NEW p \in Processes, fds[p] > 0
        PROVE  mapped /\ configured /\ irq
    <3>1. ASSUME NEW q \in Processes, kpc[q] \in SettingUp PROVE FALSE
      <4>1. Entering(q) /\ refcount = 1
        BY <2>2, <3>1, <2>1 DEF DeviceInv, Entering, SettingUp
      <4>2. fds[p] = 0
        BY <2>1, <4>1, OnlyReference
      <4>3. QED
        BY <2>2, <4>2
    <3>2. refcount > 0
      BY <2>1, <2>2, Counted
    <3>3. QED
      BY <2>1, <2>2, <3>1, <3>2 DEF DeviceInv
  <2>3. QED
    BY <2>1, <2>2 DEF DeviceReady, DeviceInv, CountInv
<1>4. QED
  BY <1>1, <1>2, <1>3, PTL DEF Spec

-----------------------------------------------------------------------------
(* The types of the rest.                                                  *)

\* No mailbox holds more than was sent, and who clears a unit knows its route.
TypeInv ==
  /\ NodeTypes
  /\ sends \in 0 .. MaxSends
  /\ \A p \in Processes : mail[p] <= sends
  /\ \A p \in Processes : pc[p] = "clearunit" => slot[p] \in Slots

\* Everything is empty at first.
LEMMA TypeInit == Init => TypeInv
<1> SUFFICES ASSUME Init PROVE TypeInv
  OBVIOUS
<1>1. MaxSends \in Nat /\ MaxStarts \in Nat
  BY LifecycleAssumption
<1>2. woken \in [Processes -> BOOLEAN]
  BY Zenon DEF Init
<1>3. QED
  BY <1>1, <1>2 DEF Init, TypeInv, NodeTypes, NoRoute, Registered, Driver

\* Every step writes what the variables may hold.
LEMMA TypeStep ==
  ASSUME TypeInv, Next
  PROVE  TypeInv'
<1> USE DEF Registered, Driver, threads, shared, history, counters
<1>1. MaxSends \in Nat /\ MaxStarts \in Nat
  BY LifecycleAssumption
<1>2. ASSUME NEW p \in Processes, Mapped(p) PROVE TypeInv'
  BY <1>1, <1>2 DEF TypeInv, NodeTypes, Mapped, Goto
<1>3. ASSUME NEW p \in Processes, NotInitialized(p) PROVE TypeInv'
  BY <1>1, <1>3 DEF TypeInv, NodeTypes, NotInitialized, Goto
<1>4. ASSUME NEW p \in Processes, MapFails(p) PROVE TypeInv'
  BY <1>1, <1>4 DEF TypeInv, NodeTypes, MapFails
<1>5. ASSUME NEW p \in Processes, InKernel(p) PROVE TypeInv'
  BY <1>1, <1>5 DEF TypeInv, NodeTypes, InKernel
<1>6. ASSUME NEW p \in Processes, TakeLock(p) PROVE TypeInv'
  BY <1>1, <1>6 DEF TypeInv, NodeTypes, TakeLock, Goto
<1>7. ASSUME NEW p \in Processes, Register(p) PROVE TypeInv'
  BY <1>1, <1>7 DEF TypeInv, NodeTypes, Register, Goto
<1>8. ASSUME NEW p \in Processes, InitMaster(p) PROVE TypeInv'
  BY <1>1, <1>8 DEF TypeInv, NodeTypes, InitMaster, Goto, NoRoute
<1>9. ASSUME NEW p \in Processes, FindRoute(p) PROVE TypeInv'
  <2>1. /\ slot' \in [Processes -> Slots \cup {0}]
        /\ routes' = routes
    BY <1>9 DEF TypeInv, NodeTypes, FindRoute, SlotsOf
  <2>2. QED
    BY <1>9, <2>1 DEF TypeInv, NodeTypes, FindRoute, Goto
<1>10. ASSUME NEW p \in Processes, ClaimRoute(p) PROVE TypeInv'
  <2> DEFINE Route == [node : Processes \cup {Nobody}, unit : {"cpu", "none"}]
  <2>1. routes \in [Slots -> Route]
    BY DEF TypeInv, NodeTypes
  <2>2. \A i \in Slots : [routes[i] EXCEPT !.node = p] \in Route
    BY <2>1
  <2>3. routes' = [i \in Slots |-> IF i = slot[p] THEN [routes[i] EXCEPT !.node = p]
                                                 ELSE routes[i]]
    BY <1>10, <2>1 DEF ClaimRoute
  <2>4. routes' \in [Slots -> Route]
    <3> HIDE DEF Route
    <3>1. QED
      BY <2>1, <2>2, <2>3
  <2>5. pc' = [pc EXCEPT ![p] = "unit"] /\ UNCHANGED <<slot, target, rx, woken, initLock>>
    BY <1>10 DEF ClaimRoute, Goto
  <2>6. UNCHANGED <<mail, starts, sends, torn, abandoned>>
    BY <1>10 DEF ClaimRoute
  <2>7. NodeTypes'
    BY <2>4, <2>5, <2>6 DEF TypeInv, NodeTypes
  <2>8. \A q \in Processes : pc'[q] = "clearunit" => slot'[q] \in Slots
    BY <2>5 DEF TypeInv, NodeTypes
  <2>9. QED
    BY <2>6, <2>7, <2>8 DEF TypeInv
<1>11. ASSUME NEW p \in Processes, SetUnit(p) PROVE TypeInv'
  <2> DEFINE Route == [node : Processes \cup {Nobody}, unit : {"cpu", "none"}]
  <2>1. routes \in [Slots -> Route]
    BY DEF TypeInv, NodeTypes
  <2>2. \A i \in Slots : [routes[i] EXCEPT !.unit = "cpu"] \in Route
    BY <2>1
  <2>3. routes' = [i \in Slots |-> IF i = slot[p] THEN [routes[i] EXCEPT !.unit = "cpu"]
                                                 ELSE routes[i]]
    BY <1>11, <2>1 DEF SetUnit
  <2>4. routes' \in [Slots -> Route]
    <3> HIDE DEF Route
    <3>1. QED
      BY <2>1, <2>2, <2>3
  <2>5. pc' = [pc EXCEPT ![p] = "unlock"] /\ UNCHANGED <<slot, target, rx, woken, initLock>>
    BY <1>11 DEF SetUnit, Goto
  <2>6. UNCHANGED <<mail, starts, sends, abandoned>> /\ torn' = torn \ {p}
    BY <1>11 DEF SetUnit
  <2>7. NodeTypes'
    BY <2>4, <2>5, <2>6 DEF TypeInv, NodeTypes
  <2>8. \A q \in Processes : pc'[q] = "clearunit" => slot'[q] \in Slots
    BY <2>5 DEF TypeInv, NodeTypes
  <2>9. QED
    BY <2>6, <2>7, <2>8 DEF TypeInv
<1>12. ASSUME NEW p \in Processes, ReleaseLock(p) PROVE TypeInv'
  BY <1>1, <1>12 DEF TypeInv, NodeTypes, ReleaseLock, Goto
<1>13. ASSUME NEW p \in Processes, Notify(p) PROVE TypeInv'
  BY <1>1, <1>13 DEF TypeInv, NodeTypes, Notify, WakeAll, Goto
<1>14. ASSUME NEW p \in Processes, Join(p) PROVE TypeInv'
  BY <1>1, <1>14 DEF TypeInv, NodeTypes, Join, Goto
<1>15. ASSUME NEW p \in Processes, JoinFails(p) PROVE TypeInv'
  BY <1>1, <1>15 DEF TypeInv, NodeTypes, JoinFails, Goto, RxGoto
<1>16. ASSUME NEW p \in Processes, ClearNode(p) PROVE TypeInv'
  BY <1>1, <1>16 DEF TypeInv, NodeTypes, ClearNode, Goto, SlotsOf
<1>17. ASSUME NEW p \in Processes, ClearUnit(p) PROVE TypeInv'
  BY <1>1, <1>17 DEF TypeInv, NodeTypes, ClearUnit, Goto
<1>18. ASSUME NEW p \in Processes, Unmap(p) PROVE TypeInv'
  BY <1>1, <1>18 DEF TypeInv, NodeTypes, Unmap, Goto
<1>19. ASSUME NEW p \in Processes, Unmapped(p) PROVE TypeInv'
  BY <1>1, <1>19 DEF TypeInv, NodeTypes, Unmapped, Goto
<1>20. ASSUME NEW p \in Processes, Initialize(p) PROVE TypeInv'
  BY <1>1, <1>20 DEF TypeInv, NodeTypes, Initialize, Goto
<1>21. ASSUME NEW p \in Processes, Finalize(p) PROVE TypeInv'
  BY <1>1, <1>21 DEF TypeInv, NodeTypes, Finalize, Goto
<1>22. ASSUME NEW p \in Processes, Signal(p) PROVE TypeInv'
  BY <1>1, <1>22 DEF TypeInv, NodeTypes, Signal, RxGoto
<1>23. ASSUME NEW p \in Processes, LookAtMailbox(p) PROVE TypeInv'
  BY <1>1, <1>23 DEF TypeInv, NodeTypes, LookAtMailbox, RxGoto
<1>24. ASSUME NEW p \in Processes, Sleep(p) PROVE TypeInv'
  BY <1>1, <1>24 DEF TypeInv, NodeTypes, Sleep, RxGoto
<1>25. ASSUME NEW p \in Processes, Poll(p) PROVE TypeInv'
  BY <1>1, <1>25 DEF TypeInv, NodeTypes, Poll, RxGoto
<1>26. ASSUME NEW p \in Processes, NEW n \in Processes, Send(p, n) PROVE TypeInv'
  BY <1>1, <1>26 DEF TypeInv, NodeTypes, Send, Goto, SlotsOf
<1>27. QED
  BY <1>2, <1>3, <1>4, <1>5, <1>6, <1>7, <1>8, <1>9, <1>10, <1>11, <1>12, <1>13,
     <1>14, <1>15, <1>16, <1>17, <1>18, <1>19, <1>20, <1>21, <1>22, <1>23, <1>24,
     <1>25, <1>26
     DEF Next, Proceed, Receive

-----------------------------------------------------------------------------
(* The wake-ups.                                                           *)

\* A thread that sleeps, or found its mailbox empty and was not woken since, has no
\* message that nobody is about to notify it of.
WakeInv ==
  \A p \in Processes :
    /\ rx[p] = "asleep" \/ (rx[p] = "empty" /\ ~woken[p])
    /\ mail[p] > 0
    => missed \/ \E q \in Processes : pc[q] = "notify"

\* A message comes with a notification to follow; a notification wakes the sleeping
\* and is noticed by those on their way to sleep.
LEMMA WakeStep ==
  ASSUME TypeInv, WakeInv, Next
  PROVE  WakeInv'
<1> USE DEF TypeInv, NodeTypes, WakeInv, threads, shared, history, counters
<1>1. ASSUME NEW p \in Processes, Mapped(p) PROVE WakeInv'
  BY <1>1 DEF Mapped, Goto
<1>2. ASSUME NEW p \in Processes, NotInitialized(p) PROVE WakeInv'
  BY <1>2 DEF NotInitialized, Goto
<1>3. ASSUME NEW p \in Processes, MapFails(p) PROVE WakeInv'
  BY <1>3 DEF MapFails
<1>4. ASSUME NEW p \in Processes, InKernel(p) PROVE WakeInv'
  BY <1>4 DEF InKernel
<1>5. ASSUME NEW p \in Processes, TakeLock(p) PROVE WakeInv'
  BY <1>5 DEF TakeLock, Goto
<1>6. ASSUME NEW p \in Processes, Register(p) PROVE WakeInv'
  BY <1>6 DEF Register, Goto
<1>7. ASSUME NEW p \in Processes, InitMaster(p) PROVE WakeInv'
  BY <1>7 DEF InitMaster, Goto
<1>8. ASSUME NEW p \in Processes, FindRoute(p) PROVE WakeInv'
  BY <1>8 DEF FindRoute, Goto
<1>9. ASSUME NEW p \in Processes, ClaimRoute(p) PROVE WakeInv'
  BY <1>9 DEF ClaimRoute, Goto
<1>10. ASSUME NEW p \in Processes, SetUnit(p) PROVE WakeInv'
  BY <1>10 DEF SetUnit, Goto
<1>11. ASSUME NEW p \in Processes, ReleaseLock(p) PROVE WakeInv'
  BY <1>11 DEF ReleaseLock, Goto
<1>12. ASSUME NEW p \in Processes, Join(p) PROVE WakeInv'
  BY <1>12 DEF Join, Goto
<1>13. ASSUME NEW p \in Processes, JoinFails(p) PROVE WakeInv'
  BY <1>13 DEF JoinFails, Goto, RxGoto
<1>14. ASSUME NEW p \in Processes, ClearNode(p) PROVE WakeInv'
  BY <1>14 DEF ClearNode, Goto
<1>15. ASSUME NEW p \in Processes, ClearUnit(p) PROVE WakeInv'
  BY <1>15 DEF ClearUnit, Goto
<1>16. ASSUME NEW p \in Processes, Unmap(p) PROVE WakeInv'
  BY <1>16 DEF Unmap, Goto
<1>17. ASSUME NEW p \in Processes, Unmapped(p) PROVE WakeInv'
  BY <1>17 DEF Unmapped, Goto
<1>18. ASSUME NEW p \in Processes, Initialize(p) PROVE WakeInv'
  BY <1>18 DEF Initialize, Goto
<1>19. ASSUME NEW p \in Processes, Finalize(p) PROVE WakeInv'
  BY <1>19 DEF Finalize, Goto
<1>20. ASSUME NEW p \in Processes, Signal(p) PROVE WakeInv'
  BY <1>20 DEF Signal, RxGoto
<1>21. ASSUME NEW p \in Processes, LookAtMailbox(p) PROVE WakeInv'
  BY <1>21 DEF LookAtMailbox, RxGoto
<1>22. ASSUME NEW p \in Processes, Sleep(p) PROVE WakeInv'
  BY <1>22 DEF Sleep, RxGoto
<1>23. ASSUME NEW p \in Processes, Poll(p) PROVE WakeInv'
  BY <1>23 DEF Poll, RxGoto
<1>24. ASSUME NEW p \in Processes, Notify(p) PROVE WakeInv'
  <2>1. CASE missed'
    BY <2>1
  <2>2. CASE ~missed' /\ missed' = missed /\ WakeAll
    <3>1. ASSUME NEW q \in Processes, mail'[q] > 0
          PROVE  rx'[q] # "asleep" /\ (rx'[q] = "empty" => woken'[q])
      <4>1. Active
        BY <1>24, <3>1 DEF Notify, Active
      <4>2. QED
        BY <2>2, <4>1 DEF WakeAll
    <3>2. QED
      BY <3>1
  <2>3. QED
    BY <1>24, <2>1, <2>2 DEF Notify
<1>25. ASSUME NEW p \in Processes, NEW n \in Processes, Send(p, n) PROVE WakeInv'
  BY <1>25 DEF Send, Goto
<1>26. QED
  BY <1>1, <1>2, <1>3, <1>4, <1>5, <1>6, <1>7, <1>8, <1>9, <1>10, <1>11, <1>12, <1>13,
     <1>14, <1>15, <1>16, <1>17, <1>18, <1>19, <1>20, <1>21, <1>22, <1>23, <1>24, <1>25
     DEF Next, Proceed, Receive

-----------------------------------------------------------------------------
(* The routes.                                                             *)

Locked == {"register", "master", "search", "claim", "unit", "unlock", "refused"}

\* Routes are claimed under shm_init_lock, by the one process that has it, and only
\* after the master has been there; who is up has one route, who is not has none.
RouteInv ==
  /\ \A p \in Processes : pc[p] \in Locked => initLock = p
  /\ ~complete => SlotsOf(Nobody) = Slots
  /\ \A p \in Processes :
       /\ pc[p] = "master" => ~complete
       /\ pc[p] \in {"search", "claim"} => complete /\ SlotsOf(p) = {}
       /\ pc[p] = "claim" => slot[p] \in SlotsOf(Nobody)
       /\ pc[p] \in Registered => \E i \in Slots : SlotsOf(p) = {i}
       /\ pc[p] = "unit" => SlotsOf(p) = {slot[p]}
       /\ pc[p] \notin Registered /\ SlotsOf(p) # {} => p \in abandoned
       /\ pc[p] \in Registered \ {"unit"} /\ p \notin torn
            => \A i \in SlotsOf(p) : routes[i].unit = "cpu"

\* Only a step with the lock takes a route, and only the node itself gives its up.
LEMMA RouteStep ==
  ASSUME TypeInv, RouteInv, Next
  PROVE  RouteInv'
<1>0. \A q \in Processes : q # Nobody
  BY LifecycleAssumption
<1> USE DEF TypeInv, NodeTypes, RouteInv, threads, shared, history, counters, SlotsOf, Locked, Registered
<1>1. ASSUME NEW p \in Processes, Mapped(p) PROVE RouteInv'
  BY <1>1 DEF Mapped, Goto
<1>2. ASSUME NEW p \in Processes, NotInitialized(p) PROVE RouteInv'
  BY <1>2 DEF NotInitialized, Goto
<1>3. ASSUME NEW p \in Processes, MapFails(p) PROVE RouteInv'
  BY <1>3 DEF MapFails
<1>4. ASSUME NEW p \in Processes, InKernel(p) PROVE RouteInv'
  <2>1. UNCHANGED <<pc, slot, complete, initLock, routes, torn, abandoned>>
    BY <1>4 DEF InKernel
  <2>2. QED
    BY <2>1
<1>5. ASSUME NEW p \in Processes, TakeLock(p) PROVE RouteInv'
  <2>1. \A q \in Processes : pc[q] \notin Locked
    BY <1>0, <1>5 DEF TakeLock
  <2>2. QED
    BY <1>5, <2>1 DEF TakeLock, Goto
<1>6. ASSUME NEW p \in Processes, Register(p) PROVE RouteInv'
  BY <1>6 DEF Register, Goto
<1>7. ASSUME NEW p \in Processes, InitMaster(p) PROVE RouteInv'
  <2>1. /\ initLock = p /\ initLock' = p /\ complete'
        /\ \A i \in Slots : routes[i].node = Nobody
    BY <1>7 DEF InitMaster, Goto
  <2>2. \A q \in Processes : SlotsOf(q) = {}
    BY <1>0, <2>1
  <2>3. \A q \in Processes \ {p} : pc[q] \notin Locked \cup Registered
    BY <2>1, <2>2
  <2>4. \A q \in Processes : pc'[q] = IF q = p THEN "unlock" ELSE pc[q]
    BY <1>7 DEF InitMaster, Goto
  <2>5. 1 \in Slots
    <3>1. Cardinality(Processes) \in Nat /\ Cardinality(Processes) # 0
      BY LifecycleAssumption, FS_CardinalityType, FS_EmptySet
    <3>2. NumSlots \in Nat /\ Cardinality(Processes) <= NumSlots
      BY LifecycleAssumption
    <3>3. QED
      BY <3>1, <3>2 DEF Slots
  <2>6. \A i \in Slots : /\ routes'[i].node = IF i = 1 THEN p ELSE Nobody
                         /\ routes'[1].unit = "cpu"
    BY <1>7, <2>5 DEF InitMaster, NoRoute
  <2>7. \A q \in Processes : SlotsOf(q)' = IF q = p THEN {1} ELSE {}
    BY <1>0, <2>5, <2>6
  <2>8. QED
    BY <2>1, <2>3, <2>4, <2>5, <2>6, <2>7
<1>8. ASSUME NEW p \in Processes, FindRoute(p) PROVE RouteInv'
  BY <1>8 DEF FindRoute, Goto
<1>9. ASSUME NEW p \in Processes, ClaimRoute(p) PROVE RouteInv'
  <2>1. /\ initLock = p /\ initLock' = p /\ complete /\ complete'
        /\ slot[p] \in Slots /\ routes[slot[p]].node = Nobody
        /\ SlotsOf(p) = {} /\ slot' = slot /\ torn' = torn /\ abandoned' = abandoned
    BY <1>9 DEF ClaimRoute, Goto
  <2>2. \A q \in Processes \ {p} : pc[q] \notin Locked
    BY <2>1
  <2>3. \A q \in Processes : pc'[q] = IF q = p THEN "unit" ELSE pc[q]
    BY <1>9 DEF ClaimRoute, Goto
  <2>4. \A i \in Slots : /\ routes'[i].node = IF i = slot[p] THEN p ELSE routes[i].node
                         /\ routes'[i].unit = routes[i].unit
    BY <1>9 DEF ClaimRoute
  <2>5. \A q \in Processes : SlotsOf(q)' = IF q = p THEN {slot[p]} ELSE SlotsOf(q)
    BY <1>0, <2>1, <2>4
  <2>6. \A q \in Processes : SlotsOf(q) \subseteq Slots
    OBVIOUS
  <2>7. ASSUME NEW q \in Processes, pc'[q] \in Registered \ {"unit"}, q \notin torn',
               NEW j \in SlotsOf(q)
        PROVE  routes'[j].unit = "cpu"
    BY <2>1, <2>3, <2>4, <2>7
  <2>8. \A q \in Processes \ {p} : pc[q] # "claim" /\ pc[q] # "master"
    BY <2>2
  <2> HIDE DEF SlotsOf
  <2>9. QED
    BY <2>1, <2>2, <2>3, <2>5, <2>6, <2>7, <2>8
<1>10. ASSUME NEW p \in Processes, SetUnit(p) PROVE RouteInv'
  BY <1>10 DEF SetUnit, Goto
<1>11. ASSUME NEW p \in Processes, ReleaseLock(p) PROVE RouteInv'
  BY <1>11 DEF ReleaseLock, Goto
<1>12. ASSUME NEW p \in Processes, Join(p) PROVE RouteInv'
  BY <1>12 DEF Join, Goto
<1>13. ASSUME NEW p \in Processes, JoinFails(p) PROVE RouteInv'
  <2>1. /\ UNCHANGED <<slot, routes, complete, initLock, torn>>
        /\ abandoned' = abandoned \cup {p}
    BY <1>13 DEF JoinFails
  <2>2. /\ pc[p] = "join"
        /\ \A q \in Processes : pc'[q] = IF q = p THEN "off" ELSE pc[q]
    BY <1>13 DEF JoinFails, Goto
  <2>3. \A q : SlotsOf(q)' = SlotsOf(q)
    BY <2>1
  <2> HIDE DEF SlotsOf
  <2>4. QED
    BY <2>1, <2>2, <2>3
<1>14. ASSUME NEW p \in Processes, ClearNode(p) PROVE RouteInv'
  <2>1. PICK i \in Slots : SlotsOf(p) = {i} /\ routes' = [routes EXCEPT ![i].node = Nobody]
    <3>1. PICK i \in SlotsOf(p) : routes' = [routes EXCEPT ![i].node = Nobody]
      BY <1>14 DEF ClearNode
    <3>2. \E j \in Slots : SlotsOf(p) = {j}
      BY <1>14 DEF ClearNode, Goto
    <3>3. i \in Slots /\ SlotsOf(p) = {i}
      <4> HIDE DEF SlotsOf
      <4>1. QED
        BY <3>1, <3>2
    <3>4. QED
      BY <3>1, <3>3
  <2>2. complete /\ complete' /\ initLock' = initLock /\ abandoned' = abandoned
    BY <1>0, <1>14, <2>1 DEF ClearNode
  <2>3. \A q \in Processes : /\ pc'[q] = IF q = p THEN "clearunit" ELSE pc[q]
                             /\ slot'[q] = IF q = p THEN slot'[p] ELSE slot[q]
                             /\ q # p => (q \in torn' <=> q \in torn)
    BY <1>14 DEF ClearNode, Goto
  <2>4. \A j \in Slots : /\ routes'[j].node = IF j = i THEN Nobody ELSE routes[j].node
                         /\ routes'[j].unit = routes[j].unit
    BY <2>1
  <2>5. \A q \in Processes : SlotsOf(q)' = IF q = p THEN {} ELSE SlotsOf(q)
    BY <1>0, <2>1, <2>4
  <2>6. \A q \in Processes : SlotsOf(q) \subseteq Slots \ SlotsOf(Nobody)
    BY <1>0
  <2>7. SlotsOf(Nobody) \subseteq SlotsOf(Nobody)'
    BY <2>4
  <2> HIDE DEF SlotsOf
  <2>8. ASSUME NEW q \in Processes, pc'[q] \in Registered \ {"unit"}, q \notin torn',
               NEW j \in SlotsOf(q), q # p
        PROVE  routes'[j].unit = "cpu"
    BY <2>3, <2>4, <2>6, <2>8
  <2>9. QED
    BY <2>2, <2>3, <2>5, <2>7, <2>8
<1>15. ASSUME NEW p \in Processes, ClearUnit(p) PROVE RouteInv'
  <2>1. PICK i \in Slots : i = slot[p] /\ routes' = [routes EXCEPT ![i].unit = "none"]
    BY <1>15 DEF ClearUnit, Goto
  <2>2. complete' = complete /\ initLock' = initLock /\ abandoned' = abandoned /\ slot' = slot
    BY <1>15 DEF ClearUnit
  <2>3. /\ pc[p] = "clearunit"
        /\ \A q \in Processes : pc'[q] = IF q = p THEN "unmapping" ELSE pc[q]
    BY <1>15 DEF ClearUnit, Goto
  <2>4. \A j \in Slots : /\ routes'[j].node = routes[j].node
                         /\ routes'[j].unit = IF j = i THEN "none" ELSE routes[j].unit
    BY <2>1
  <2>5. \A q : SlotsOf(q)' = SlotsOf(q)
    BY <2>4
  <2>6. \A q \in Processes : q \notin torn' => q \notin torn /\ i \notin SlotsOf(q)
    BY <1>0, <1>15, <2>1 DEF ClearUnit
  <2>7. \A q \in Processes : SlotsOf(q) \subseteq Slots
    OBVIOUS
  <2> HIDE DEF SlotsOf
  <2>8. ASSUME NEW q \in Processes, pc'[q] \in Registered \ {"unit"}, q \notin torn',
               NEW j \in SlotsOf(q)
        PROVE  routes'[j].unit = "cpu"
    BY <2>3, <2>4, <2>6, <2>7, <2>8
  <2>9. QED
    BY <2>2, <2>3, <2>5, <2>8
<1>16. ASSUME NEW p \in Processes, Unmap(p) PROVE RouteInv'
  BY <1>16 DEF Unmap, Goto
<1>17. ASSUME NEW p \in Processes, Unmapped(p) PROVE RouteInv'
  BY <1>17 DEF Unmapped, Goto
<1>18. ASSUME NEW p \in Processes, Initialize(p) PROVE RouteInv'
  BY <1>18 DEF Initialize, Goto
<1>19. ASSUME NEW p \in Processes, Finalize(p) PROVE RouteInv'
  BY <1>19 DEF Finalize, Goto
<1>20. ASSUME NEW p \in Processes, Signal(p) PROVE RouteInv'
  <2>1. UNCHANGED <<pc, slot, complete, initLock, routes, torn, abandoned>>
    BY <1>20 DEF Signal
  <2>2. QED
    BY <2>1
<1>21. ASSUME NEW p \in Processes, LookAtMailbox(p) PROVE RouteInv'
  <2>1. UNCHANGED <<pc, slot, complete, initLock, routes, torn, abandoned>>
    BY <1>21 DEF LookAtMailbox
  <2>2. QED
    BY <2>1
<1>22. ASSUME NEW p \in Processes, Sleep(p) PROVE RouteInv'
  <2>1. UNCHANGED <<pc, slot, complete, initLock, routes, torn, abandoned>>
    BY <1>22 DEF Sleep
  <2>2. QED
    BY <2>1
<1>23. ASSUME NEW p \in Processes, Poll(p) PROVE RouteInv'
  <2>1. UNCHANGED <<pc, slot, complete, initLock, routes, torn, abandoned>>
    BY <1>23 DEF Poll
  <2>2. QED
    BY <2>1
<1>24. ASSUME NEW p \in Processes, Notify(p) PROVE RouteInv'
  <2>1. UNCHANGED <<slot, complete, initLock, routes, torn, abandoned>>
    BY <1>24 DEF Notify
  <2>2. pc[p] = "notify" /\ pc' = [pc EXCEPT ![p] = "up"]
    BY <1>24 DEF Notify, Goto
  <2>3. QED
    BY <2>1, <2>2
<1>25. ASSUME NEW p \in Processes, NEW n \in Processes, Send(p, n) PROVE RouteInv'
  BY <1>25 DEF Send, Goto
<1>26. QED
  BY <1>1, <1>2, <1>3, <1>4, <1>5, <1>6, <1>7, <1>8, <1>9, <1>10, <1>11, <1>12, <1>13,
     <1>14, <1>15, <1>16, <1>17, <1>18, <1>19, <1>20, <1>21, <1>22, <1>23, <1>24, <1>25
     DEF Next, Proceed, Receive

\* The three invariants hold together from the start, and no step breaks one.
LifeInv == TypeInv /\ WakeInv /\ RouteInv

\* They hold in every state that can be reached.
THEOREM LifeInvariant == Spec => []LifeInv
<1>1. Init => LifeInv
  <2>1. ASSUME Init PROVE WakeInv /\ RouteInv
    <3>1. SlotsOf(Nobody) = Slots /\ \A p \in Processes : SlotsOf(p) = {}
      BY <2>1, LifecycleAssumption DEF Init, SlotsOf, NoRoute
    <3>2. RouteInv
      BY <2>1, <3>1 DEF Init, RouteInv, Locked, Registered
    <3>3. WakeInv
      BY <2>1 DEF Init, WakeInv
    <3>4. QED
      BY <3>2, <3>3
  <2>2. QED
    BY <2>1, TypeInit DEF LifeInv
<1>2. LifeInv /\ [Next]_vars => LifeInv'
  <2>1. ASSUME LifeInv, Next PROVE LifeInv'
    BY <2>1, TypeStep, WakeStep, RouteStep DEF LifeInv
  <2>2. ASSUME LifeInv, UNCHANGED vars PROVE LifeInv'
    <3> USE <2>2 DEF vars, threads, shared, history, counters, LifeInv
    <3>1. TypeInv'
      BY DEF TypeInv, NodeTypes
    <3>2. WakeInv'
      BY DEF WakeInv
    <3>3. RouteInv'
      BY DEF RouteInv, SlotsOf
    <3>4. QED
      BY <3>1, <3>2, <3>3
  <2>3. QED
    BY <2>1, <2>2
<1>3. QED
  BY <1>1, <1>2, PTL DEF Spec

\* The variables keep to what the structures hold: the count of references does not
\* become negative, no mailbox overflows and no route is written out of bounds.
THEOREM TypeCorrect == Spec => []TypeOK
<1>1. Init => CountInv
  BY CountInit
<1>2. CountInv /\ [Next]_vars => CountInv'
  <2>1. CASE Next
    BY <2>1, CountStep
  <2>2. CASE UNCHANGED vars
    BY <2>2 DEF vars, kernel, CountInv, KernelTypeOK, Descriptors, RefcountBalanced,
       Entering
  <2>3. QED
    BY <2>1, <2>2
<1>3. CountInv /\ LifeInv => TypeOK
  BY DEF CountInv, LifeInv, TypeInv, TypeOK
<1>4. QED
  BY <1>1, <1>2, <1>3, LifeInvariant, PTL DEF Spec

\* No receive thread sleeps over a message, unless who sent it is about to notify it
\* or has found no unit to notify: looking at the mailbox and going to sleep are two
\* steps, and a notification may come between them (mcomm_dev_ioctl_wait_read).
THEOREM WakesSafe == Spec => []NoLostWake
<1>1. LifeInv => NoLostWake
  BY DEF LifeInv, WakeInv, NoLostWake
<1>2. QED
  BY <1>1, LifeInvariant, PTL

\* A node that is up has one route, with its unit unless a finalizing node has
\* overwritten that; one that is not up has none, unless it could not finalize.
THEOREM RoutesCorrect == Spec => []RouteWhileUp
<1>1. LifeInv => RouteWhileUp
  <2> SUFFICES ASSUME RouteInv, NEW p \in Processes
               PROVE  /\ pc[p] \in Registered => Cardinality(SlotsOf(p)) = 1
                      /\ pc[p] \notin Registered /\ SlotsOf(p) # {} => p \in abandoned
                      /\ pc[p] \in Registered \ {"unit"} /\ p \notin torn
                           => \A i \in SlotsOf(p) : routes[i].unit = "cpu"
    BY DEF LifeInv, RouteWhileUp
  <2>1. ASSUME pc[p] \in Registered PROVE Cardinality(SlotsOf(p)) = 1
    <3>1. PICK i \in Slots : SlotsOf(p) = {i}
      BY <2>1 DEF RouteInv
    <3>2. QED
      BY <3>1, FS_Singleton
  <2>2. QED
    BY <2>1 DEF RouteInv
<1>2. QED
  BY <1>1, LifeInvariant, PTL
=============================================================================
