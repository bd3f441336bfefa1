---------------------------- MODULE Requests_proofs ----------------------------
(***************************************************************************)
(* Proofs about receiving, waiting and cancelling, for every set of        *)
(* endpoints, threads, operations and packets and every size of the pool   *)
(* of request structures: the list of pending requests, the pool, what is  *)
(* waited for, and the data of the operations.                             *)
(***************************************************************************)
EXTENDS Requests, FiniteSetTheorems, WellFoundedInduction, TLAPS

-----------------------------------------------------------------------------
(* Counting up.  The theorems of the library about induction have a        *)
(* predicate as parameter; as a statement about sets it follows from the   *)
(* existence of a least element.                                           *)

\* Every set of natural numbers has a least element.
LEMMA LeastNat ==
  ASSUME NEW T \in SUBSET Nat, T # {}
  PROVE  \E x \in T : \A y \in T : x <= y
<1>1. \E x \in T : \A y \in T : <<y, x>> \notin OpToRel(<, Nat)
  BY WFMin, NatLessThanWellFounded, Zenon
<1>2. \A x, y \in Nat : <<y, x>> \notin OpToRel(<, Nat) => x <= y
  BY DEF OpToRel
<1>3. QED
  BY <1>1, <1>2

\* A set that has 0 and, with a number less than n, the next one has n.
LEMMA Climb ==
  ASSUME NEW n \in Nat, NEW T, 0 \in T,
         \A i \in 0 .. n : i < n /\ i \in T => i + 1 \in T
  PROVE  n \in T
<1> SUFFICES ASSUME n \notin T
             PROVE  FALSE
  OBVIOUS
<1> DEFINE Rest == {i \in 0 .. n : i \notin T}
<1>1. PICK x \in Rest : \A y \in Rest : x <= y
  <2>1. Rest \in SUBSET Nat /\ n \in Rest
    OBVIOUS
  <2>2. QED
    BY <2>1, LeastNat
<1>2. x - 1 \in 0 .. n /\ x - 1 < n /\ x - 1 < x /\ (x - 1) + 1 = x
  BY <1>1
<1>3. x - 1 \in T
  BY <1>1, <1>2
<1>4. QED
  BY <1>1, <1>2, <1>3

-----------------------------------------------------------------------------
(* The list without some of its elements.                                  *)

\* k[i] is what is left of the first i elements.
Keeps(k, s, S, n) ==
  k = [i \in 0 .. n |-> IF i = 0 THEN <<>>
                        ELSE IF s[i] \in S THEN k[i - 1] ELSE Append(k[i - 1], s[i])]

\* There is such a function, for any length.
LEMMA KeepsExists ==
  ASSUME NEW s, NEW S, NEW n \in Nat
  PROVE  \E k : Keeps(k, s, S, n)
<1> DEFINE T == {i \in 0 .. n : \E k : Keeps(k, s, S, i)}
<1>1. 0 \in T
  <2>1. Keeps([i \in 0 .. 0 |-> <<>>], s, S, 0)
    BY DEF Keeps
  <2>2. QED
    BY <2>1
<1>2. ASSUME NEW i \in 0 .. n, i < n, i \in T
      PROVE  i + 1 \in T
  <2>1. PICK k : Keeps(k, s, S, i)
    BY <1>2
  <2> DEFINE new == IF s[i + 1] \in S THEN k[i] ELSE Append(k[i], s[i + 1])
             l == [j \in 0 .. (i + 1) |-> IF j = i + 1 THEN new ELSE k[j]]
             At(f, j) == IF j = 0 THEN <<>>
                         ELSE IF s[j] \in S THEN f[j - 1] ELSE Append(f[j - 1], s[j])
  <2>2. ASSUME NEW j \in 0 .. (i + 1)
        PROVE  l[j] = At(l, j)
    <3>1. CASE j = i + 1
      BY <3>1
    <3>2. CASE j # i + 1
      <4>1. j \in 0 .. i /\ (j # 0 => j - 1 \in 0 .. i)
        BY <3>2
      <4>2. k[j] = At(k, j)
        BY <2>1, <4>1 DEF Keeps
      <4> HIDE DEF new
      <4>3. l[j] = k[j] /\ (j # 0 => l[j - 1] = k[j - 1])
        BY <4>1
      <4> HIDE DEF l
      <4>4. QED
        BY <4>2, <4>3
    <3>3. QED
      BY <3>1, <3>2
  <2> HIDE DEF new
  <2>3. l = [j \in 0 .. (i + 1) |-> l[j]]
    OBVIOUS
  <2> HIDE DEF l
  <2>4. l = [j \in 0 .. (i + 1) |-> At(l, j)]
    BY <2>2, <2>3
  <2>5. Keeps(l, s, S, i + 1)
    BY <2>4 DEF Keeps
  <2>6. i + 1 \in 0 .. n
    BY <1>2
  <2>7. QED
    BY <2>5, <2>6
<1>3. n \in T
  <2> HIDE DEF T
  <2>1. QED
    BY <1>1, <1>2, Climb
<1>4. QED
  BY <1>3

\* An element is in a list.
In(r, s) == \E i \in 1 .. Len(s) : s[i] = r
Once(s) == \A i, j \in 1 .. Len(s) : s[i] = s[j] => i = j

\* A list that is longer by one.
LEMMA Longer ==
  ASSUME NEW D, NEW s \in Seq(D), NEW d \in D
  PROVE  /\ Append(s, d) \in Seq(D)
         /\ \A r : In(r, Append(s, d)) <=> In(r, s) \/ r = d
         /\ Once(s) /\ ~In(d, s) => Once(Append(s, d))
<1> DEFINE a == Append(s, d)
<1>1. /\ a \in Seq(D) /\ Len(s) \in Nat /\ Len(a) = Len(s) + 1
      /\ \A i \in 1 .. Len(s) : a[i] = s[i]
      /\ a[Len(s) + 1] = d
  OBVIOUS
<1> HIDE DEF a
<1>2. /\ \A i \in 1 .. Len(a) : i \in 1 .. Len(s) \/ i = Len(s) + 1
      /\ \A i \in 1 .. Len(s) : i \in 1 .. Len(a)
      /\ Len(s) + 1 \in 1 .. Len(a)
  BY <1>1
<1>3. \A r : In(r, a) <=> In(r, s) \/ r = d
  BY <1>1, <1>2 DEF In
<1>4. ASSUME Once(s), ~In(d, s)
      PROVE  Once(a)
  <2> SUFFICES ASSUME NEW i \in 1 .. Len(a), NEW j \in 1 .. Len(a), a[i] = a[j]
               PROVE  i = j
    BY DEF Once
  <2>1. CASE i \in 1 .. Len(s) /\ j \in 1 .. Len(s)
    BY <1>1, <1>4, <2>1 DEF Once
  <2>2. CASE i \in 1 .. Len(s) /\ j = Len(s) + 1
    BY <1>1, <1>4, <2>2 DEF In
  <2>3. CASE i = Len(s) + 1 /\ j \in 1 .. Len(s)
    BY <1>1, <1>4, <2>3 DEF In
  <2>4. QED
    BY <1>2, <2>1, <2>2, <2>3
<1>5. QED
  BY <1>1, <1>3, <1>4 DEF a

\* What mcapi_remove_request leaves: the list without the structures of S, each still there
\* once.
LEMMA WithoutIs ==
  ASSUME pending \in Seq(Structs), NEW S
  PROVE  /\ Without(S) \in Seq(Structs)
         /\ \A r : In(r, Without(S)) <=> In(r, pending) /\ r \notin S
         /\ Once(pending) => Once(Without(S))
<1>1. PICK n \in Nat : n = Len(pending)
  OBVIOUS
<1>2. PICK k : k = CHOOSE f : Keeps(f, pending, S, n)
  OBVIOUS
<1>3. Keeps(k, pending, S, n)
  BY <1>2, KeepsExists
<1>4. Without(S) = k[n]
  BY <1>1, <1>2 DEF Without, Keeps
<1>5. /\ k[0] = <<>>
      /\ \A i \in 1 .. n : k[i] = IF pending[i] \in S THEN k[i - 1]
                                  ELSE Append(k[i - 1], pending[i])
  <2>1. 0 \in 0 .. n /\ \A i \in 1 .. n : i \in 0 .. n /\ i # 0
    OBVIOUS
  <2>2. QED
    BY <1>3, <2>1 DEF Keeps
<1> DEFINE Left(i) ==
      /\ k[i] \in Seq(Structs)
      /\ \A r : In(r, k[i]) <=> \E j \in 1 .. i : pending[j] = r /\ r \notin S
      /\ Once(pending) => Once(k[i])
<1>6. Left(0)
  BY <1>5 DEF In, Once
<1>7. ASSUME NEW i \in 0 .. n, i < n, Left(i)
      PROVE  Left(i + 1)
  <2>1. /\ i + 1 \in 1 .. n /\ pending[i + 1] \in Structs /\ (i + 1) - 1 = i
        /\ \A j \in 1 .. (i + 1) : j \in 1 .. i \/ j = i + 1
        /\ \A j \in 1 .. i : j \in 1 .. (i + 1) /\ j \in 1 .. n /\ j # i + 1
    BY <1>1, <1>7
  <2>2. CASE pending[i + 1] \in S
    <3>1. k[i + 1] = k[i]
      BY <1>5, <2>1, <2>2
    <3>2. \A r : (\E j \in 1 .. i : pending[j] = r /\ r \notin S)
             <=> (\E j \in 1 .. (i + 1) : pending[j] = r /\ r \notin S)
      BY <2>1, <2>2
    <3>3. QED
      BY <1>7, <3>1, <3>2
  <2>3. CASE pending[i + 1] \notin S
    <3>1. k[i + 1] = Append(k[i], pending[i + 1])
      BY <1>5, <2>1, <2>3
    <3>2. PICK d \in Structs : d = pending[i + 1]
      BY <2>1
    <3>3. PICK s \in Seq(Structs) : s = k[i]
      BY <1>7
    <3>4. /\ k[i + 1] \in Seq(Structs)
          /\ \A r : In(r, k[i + 1]) <=> In(r, s) \/ r = d
          /\ Once(s) /\ ~In(d, s) => Once(k[i + 1])
      BY <3>1, <3>2, <3>3, Longer
    <3>5. \A r : In(r, s) <=> \E j \in 1 .. i : pending[j] = r /\ r \notin S
      BY <1>7, <3>3
    <3>6. \A r : In(r, k[i + 1])
             <=> (\E j \in 1 .. (i + 1) : pending[j] = r /\ r \notin S)
      BY <2>1, <2>3, <3>2, <3>4, <3>5
    <3>7. ASSUME Once(pending)
          PROVE  Once(k[i + 1])
      <4>1. ~In(d, s)
        BY <1>1, <2>1, <3>2, <3>5, <3>7 DEF Once
      <4>2. QED
        BY <1>7, <3>3, <3>4, <3>7, <4>1
    <3>8. QED
      BY <3>4, <3>6, <3>7
  <2>4. QED
    BY <2>2, <2>3
<1>8. Left(n)
  <2> DEFINE T == {i \in 0 .. n : Left(i)}
  <2>1. 0 \in T
    BY <1>6
  <2>2. ASSUME NEW i \in 0 .. n, i < n, i \in T
        PROVE  i + 1 \in T
    <3>1. Left(i) /\ i + 1 \in 0 .. n
      BY <2>2
    <3> HIDE DEF Left
    <3>2. QED
      BY <1>7, <2>2, <3>1
  <2>3. n \in T
    <3> HIDE DEF T
    <3>1. QED
      BY <2>1, <2>2, Climb
  <2> HIDE DEF Left
  <2>4. QED
    BY <2>3
<1>9. QED
  BY <1>1, <1>4, <1>8 DEF In

-----------------------------------------------------------------------------
(* The pool of request structures.                                         *)

\* mcapi_get_free_request_struct finds as many different structures as are free.
LEMMA FreeStructIs ==
  ASSUME NEW k \in 1 .. Cardinality(FreeStructs)
  PROVE  /\ FreeStruct(k) \in FreeStructs
         /\ Cardinality({q \in FreeStructs : q <= FreeStruct(k)}) = k
<1> DEFINE Upto(m) == {q \in FreeStructs : q <= m}
           Enough == {m \in 0 .. PoolSize : k <= Cardinality(Upto(m))}
<1>1. PoolSize \in Nat /\ FreeStructs \in SUBSET (1 .. PoolSize)
  BY RequestsAssumption DEF FreeStructs, Pool
<1>2. \A q \in FreeStructs : q \in Nat /\ 1 <= q /\ q <= PoolSize
  BY <1>1
<1>3. /\ IsFiniteSet(FreeStructs) /\ Cardinality(FreeStructs) \in Nat /\ k \in Nat /\ 1 <= k
      /\ k <= Cardinality(FreeStructs)
  <2>1. IsFiniteSet(1 .. PoolSize)
    BY <1>1, FS_Interval
  <2>2. IsFiniteSet(FreeStructs)
    BY <1>1, <2>1, FS_Subset
  <2>3. QED
    BY <2>2, FS_CardinalityType
<1>4. \A m : IsFiniteSet(Upto(m)) /\ Cardinality(Upto(m)) \in Nat
  <2> SUFFICES ASSUME NEW m
               PROVE  IsFiniteSet(Upto(m)) /\ Cardinality(Upto(m)) \in Nat
    OBVIOUS
  <2>1. Upto(m) \in SUBSET FreeStructs
    OBVIOUS
  <2> HIDE DEF Upto
  <2>2. QED
    BY <1>3, <2>1, FS_Subset, FS_CardinalityType
<1>5. Cardinality(Upto(0)) = 0 /\ Upto(PoolSize) = FreeStructs
  <2>1. Upto(0) = {}
    BY <1>2
  <2>2. Upto(PoolSize) = FreeStructs
    BY <1>2
  <2>3. QED
    BY <2>1, <2>2, FS_EmptySet
<1>6. PICK x \in Enough : \A y \in Enough : x <= y
  <2>1. Enough \in SUBSET Nat /\ PoolSize \in Enough
    BY <1>1, <1>3, <1>5
  <2> HIDE DEF Enough
  <2>2. QED
    BY <2>1, LeastNat
<1>7. x \in 0 .. PoolSize /\ k <= Cardinality(Upto(x)) /\ x # 0
  BY <1>3, <1>5, <1>6
<1>8. x - 1 \in 0 .. PoolSize /\ ~(k <= Cardinality(Upto(x - 1)))
  <2>1. x - 1 \in 0 .. PoolSize /\ ~(x <= x - 1)
    BY <1>1, <1>7
  <2>2. x - 1 \notin Enough
    BY <1>6, <2>1
  <2>3. QED
    BY <2>1, <2>2
<1>9. CASE x \in FreeStructs
  <2>1. Upto(x) = Upto(x - 1) \cup {x} /\ x \notin Upto(x - 1)
    <3>1. x \in Nat /\ ~(x <= x - 1)
      BY <1>7
    <3>2. \A q \in FreeStructs : q <= x <=> q <= x - 1 \/ q = x
      BY <1>2, <3>1
    <3>3. QED
      BY <1>9, <3>1, <3>2
  <2>2. Cardinality(Upto(x)) = Cardinality(Upto(x - 1)) + 1
    <3> HIDE DEF Upto
    <3>1. QED
      BY <1>4, <2>1, FS_AddElement
  <2>3. PICK a \in Nat, b \in Nat : a = Cardinality(Upto(x)) /\ b = Cardinality(Upto(x - 1))
    BY <1>4
  <2>4. a = k
    BY <1>3, <1>7, <1>8, <2>2, <2>3
  <2>5. Cardinality({q \in FreeStructs : q <= x}) = k
    BY <2>3, <2>4
  <2>6. QED
    BY <1>9, <2>5 DEF FreeStruct
<1>10. CASE x \notin FreeStructs
  <2>1. Upto(x) = Upto(x - 1)
    <3>1. x \in Nat
      BY <1>7
    <3>2. \A q \in FreeStructs : q <= x <=> q <= x - 1
      BY <1>2, <1>10, <3>1
    <3>3. QED
      BY <3>2
  <2>2. QED
    BY <1>7, <1>8, <2>1
<1>11. QED
  BY <1>9, <1>10

-----------------------------------------------------------------------------
(* The invariant of the list, the replicas and the calls.                  *)

Frames == [what : {"idle", "recv", "wait", "test", "any"}, ops : Seq(Ops), at : Nat,
           copies : Seq(Pool)]

ControlTypes ==
  /\ pending \in Seq(Structs)
  /\ status \in [Structs -> Outcomes \cup {"unused"}]
  /\ copyOf \in [Threads \cup Pool -> Ops \cup {NoOp}]
  /\ call \in [Threads -> Frames]
  /\ awake \in [Threads -> BOOLEAN]

Listed(r) == In(r, pending)

\* A structure that stands for an operation: that of a thread in mcapi_wait, or one that
\* was taken from the pool.
Replica(r) == \/ r \in Threads /\ call[r].what = "wait"
              \/ r \in Pool /\ copyOf[r] # NoOp

\* Operations an application can wait for.
Works(o) == o \in Ops /\ kind[OpOf[o].ep] # "scl" /\ status[o] # "unused"

\* On the list is what is pending, once; but replicas of mcapi_wait_any may come too late.
ListInv ==
  /\ Once(pending)
  /\ \A o \in Ops : Listed(o) <=> status[o] = "pending"
  /\ \A t \in Threads : Listed(t) <=> Replica(t) /\ status[t] = "pending"
  /\ \A p \in Pool : /\ Listed(p) => Replica(p)
                     /\ Replica(p) /\ status[p] = "pending" => Listed(p)

\* A replica is pending exactly while its operation is.
ReplicaInv ==
  \A r \in Threads \cup Pool : Replica(r) =>
    /\ Works(copyOf[r]) /\ status[r] \in Outcomes
    /\ status[r] = "pending" <=> status[copyOf[r]] = "pending"

\* What each call relies on while it does not hold the mutex.
CallSound(t) ==
  LET c == call[t] IN
  /\ c.what = "idle" => c = Idle
  /\ c.what = "recv" => /\ Len(c.ops) = 1 /\ c.copies = <<>>
                        /\ status[c.ops[1]] # "unused"
                        /\ awake[t] <=> Ended(c.ops[1])
  /\ c.what = "wait" => /\ c.ops = <<copyOf[t]>> /\ c.copies = <<>>
                        /\ Ended(t) => awake[t]
  /\ c.what = "test" => /\ c.copies = <<>>
                        /\ \A i \in 1 .. Len(c.ops) : Works(c.ops[i])
  /\ c.what = "any" => /\ Len(c.copies) = Len(c.ops)
                       /\ \A i \in 1 .. Len(c.ops) : copyOf[c.copies[i]] = c.ops[i]
CallInv == \A t \in Threads : CallSound(t)

\* A structure of the pool is in use in exactly one place of one call.
PoolInv ==
  /\ \A p \in Pool : copyOf[p] # NoOp <=> \E t \in Threads : In(p, call[t].copies)
  /\ \A t \in Threads : Once(call[t].copies)
  /\ \A t, u \in Threads : \A p \in Pool :
       In(p, call[t].copies) /\ In(p, call[u].copies) => t = u

ControlInv == ControlTypes /\ ListInv /\ ReplicaInv /\ CallInv /\ PoolInv

\* Structures are of one sort only.
LEMMA Sorts ==
  /\ \A o \in Ops : o \in Structs /\ o \notin Threads /\ o \notin Pool /\ o # NoOp
  /\ \A t \in Threads : t \in Structs /\ t \notin Ops /\ t \notin Pool
  /\ \A p \in Pool : p \in Structs /\ p \notin Ops /\ p \notin Threads
  /\ \A r \in Structs : r \in Ops \/ r \in Threads \/ r \in Pool
  /\ \A o \in Ops : OpOf[o].ep \in Endpoints /\ OpOf[o].size \in Nat
  BY RequestsAssumption DEF Structs

\* What the elements of lists are.
LEMMA ElementsIn ==
  ASSUME NEW D, NEW s \in Seq(D)
  PROVE  /\ \A r : r \in Elements(s) <=> In(r, s)
         /\ Elements(s) \subseteq D
<1>1. DOMAIN s = 1 .. Len(s) /\ \A i \in 1 .. Len(s) : s[i] \in D
  OBVIOUS
<1>2. QED
  BY <1>1 DEF Elements, In

\* Which structures a thread is suspended on.
LEMMA Sleepers ==
  ASSUME ControlInv, NEW t \in Threads
  PROVE  /\ call[t].what = "recv" => SleepsOn(t) = {call[t].ops[1]} /\ call[t].ops[1] \in Ops
         /\ call[t].what = "wait" => SleepsOn(t) = {t}
<1>1. call[t] \in Frames /\ CallSound(t)
  BY DEF ControlInv, ControlTypes, CallInv
<1>2. CASE call[t].what = "recv"
  <2>1. PICK s \in Seq(Ops) : s = call[t].ops
    BY <1>1 DEF Frames
  <2>2. Len(s) = 1
    BY <1>1, <1>2, <2>1 DEF CallSound
  <2>3. s[1] \in Ops /\ Elements(s) = {s[1]}
    BY <2>1, <2>2 DEF Elements
  <2>4. QED
    BY <1>2, <2>1, <2>3 DEF SleepsOn
<1>3. CASE call[t].what # "recv"
  BY <1>3 DEF SleepsOn
<1>4. QED
  BY <1>2, <1>3

\* What is listed for an endpoint: an operation and its replicas together.
LEMMA PendingThere ==
  ASSUME ControlInv, NEW e \in Endpoints
  PROVE  /\ \A r : r \in PendingAt(e) => r \in Structs /\ Listed(r)
         /\ \A o \in Ops : o \in PendingAt(e) <=> status[o] = "pending" /\ OpOf[o].ep = e
         /\ \A r \in Threads \cup Pool :
              r \in PendingAt(e) <=> Listed(r) /\ OpOf[copyOf[r]].ep = e
<1>1. pending \in Seq(Structs)
  BY DEF ControlInv, ControlTypes
<1>2. \A r : r \in PendingAt(e) <=> Listed(r) /\ Target(r) = e
  BY <1>1, ElementsIn DEF PendingAt, Listed
<1>3. \A r : Listed(r) => r \in Structs
  BY <1>1 DEF Listed, In
<1>4. /\ \A o \in Ops : Target(o) = OpOf[o].ep
      /\ \A r \in Threads \cup Pool : Target(r) = OpOf[copyOf[r]].ep
  BY Sorts DEF Target, Original
<1>5. \A o \in Ops : Listed(o) <=> status[o] = "pending"
  BY DEF ControlInv, ListInv
<1>6. QED
  BY <1>2, <1>3, <1>4, <1>5

\* mcapi_check_resume answers whoever is listed for an endpoint, operations and replicas.
LEMMA ControlResumed ==
  ASSUME ControlInv, NEW e \in Endpoints,
         NEW result \in [PendingAt(e) -> Outcomes \ {"pending"}],
         Resume(PendingAt(e), result), UNCHANGED <<kind, copyOf, call>>
  PROVE  ControlInv'
<1> DEFINE S == PendingAt(e)
<1>1. /\ \A r : r \in S => r \in Structs /\ Listed(r)
      /\ \A o \in Ops : o \in S <=> status[o] = "pending" /\ OpOf[o].ep = e
      /\ \A r \in Threads \cup Pool : r \in S <=> Listed(r) /\ OpOf[copyOf[r]].ep = e
  BY PendingThere
<1>2. /\ \A r \in Structs : status'[r] = IF r \in S THEN result[r] ELSE status[r]
      /\ status' \in [Structs -> Outcomes \cup {"unused"}]
      /\ \A r \in S : status'[r] \in Outcomes \ {"pending"}
  BY <1>1 DEF Resume, ControlInv, ControlTypes
<1>3. /\ pending' \in Seq(Structs) /\ Once(pending')
      /\ \A r : Listed(r)' <=> Listed(r) /\ r \notin S
  BY WithoutIs DEF Resume, Listed, ControlInv, ControlTypes, ListInv
<1>4. /\ awake' \in [Threads -> BOOLEAN]
      /\ \A t \in Threads : awake'[t] <=> awake[t] \/ SleepsOn(t) \cap S # {}
  BY DEF Resume, Wake, ControlInv, ControlTypes
<1>5. \A r : Replica(r)' <=> Replica(r)
  BY DEF Replica
<1> HIDE DEF S
<1>6. ControlTypes'
  BY <1>2, <1>3, <1>4 DEF ControlTypes, ControlInv
<1>7. ListInv'
  <2>1. \A o \in Ops : Listed(o)' <=> status'[o] = "pending"
    BY <1>1, <1>2, <1>3, Sorts DEF ControlInv, ListInv
  <2>2. \A t \in Threads : Listed(t)' <=> Replica(t)' /\ status'[t] = "pending"
    BY <1>1, <1>2, <1>3, <1>5, Sorts DEF ControlInv, ListInv
  <2>3. \A p \in Pool : /\ Listed(p)' => Replica(p)'
                        /\ Replica(p)' /\ status'[p] = "pending" => Listed(p)'
    BY <1>1, <1>2, <1>3, <1>5, Sorts DEF ControlInv, ListInv
  <2>4. QED
    BY <1>3, <2>1, <2>2, <2>3 DEF ListInv
<1>8. ReplicaInv'
  <2> SUFFICES ASSUME NEW r \in Threads \cup Pool, Replica(r)
               PROVE  /\ Works(copyOf[r])' /\ status'[r] \in Outcomes
                      /\ status'[r] = "pending" <=> status'[copyOf[r]] = "pending"
    BY <1>5 DEF ReplicaInv
  <2>1. PICK o \in Ops : o = copyOf[r]
    BY DEF ControlInv, ReplicaInv, Works
  <2>2. /\ kind[OpOf[o].ep] # "scl" /\ status[o] # "unused" /\ status[r] \in Outcomes
        /\ status[r] = "pending" <=> status[o] = "pending"
    BY <2>1 DEF ControlInv, ReplicaInv, Works
  <2>3. o \in Structs /\ r \in Structs
    BY Sorts
  <2>4. status[r] = "pending" => Listed(r)
    BY DEF ControlInv, ListInv
  <2>5. status'[o] # "unused" /\ status'[r] \in Outcomes
    BY <1>1, <1>2, <2>2, <2>3 DEF Outcomes
  <2>6. status'[r] = "pending" <=> status'[o] = "pending"
    BY <1>1, <1>2, <2>1, <2>2, <2>3, <2>4
  <2>7. QED
    BY <2>1, <2>2, <2>5, <2>6 DEF Works
<1>9. CallInv'
  <2> SUFFICES ASSUME NEW t \in Threads
               PROVE  CallSound(t)'
    BY DEF CallInv
  <2>1. CallSound(t) /\ call[t] \in Frames
    BY DEF ControlInv, ControlTypes, CallInv
  <2>2. CASE call[t].what = "recv"
    <3>1. PICK o \in Ops : o = call[t].ops[1] /\ SleepsOn(t) = {o}
      BY <2>2, Sleepers
    <3>2. /\ Len(call[t].ops) = 1 /\ call[t].copies = <<>> /\ status[o] # "unused"
          /\ awake[t] <=> Ended(o)
      BY <2>1, <2>2, <3>1 DEF CallSound
    <3>3. awake'[t] <=> awake[t] \/ o \in S
      BY <1>4, <3>1
    <3>4. Ended(o)' <=> Ended(o) \/ o \in S
      BY <1>2, Sorts DEF Ended
    <3>5. status'[o] # "unused"
      BY <1>2, <3>2, Sorts DEF Outcomes
    <3>6. QED
      BY <2>2, <3>1, <3>2, <3>3, <3>4, <3>5 DEF CallSound
  <2>3. CASE call[t].what = "wait"
    <3>1. SleepsOn(t) = {t}
      BY <2>3, Sleepers
    <3>2. Ended(t)' => awake'[t]
      BY <1>2, <1>4, <2>1, <2>3, <3>1, Sorts DEF CallSound, Ended
    <3>3. QED
      BY <2>1, <2>3, <3>2 DEF CallSound
  <2>4. CASE call[t].what = "test"
    <3>1. \A o : Works(o) => Works(o)'
      BY <1>2, Sorts DEF Works, Outcomes
    <3>2. QED
      BY <2>1, <2>4, <3>1 DEF CallSound
  <2>5. CASE call[t].what \in {"idle", "any"}
    BY <2>1, <2>5 DEF CallSound
  <2>6. QED
    BY <2>1, <2>2, <2>3, <2>4, <2>5 DEF Frames
<1>10. PoolInv'
  BY DEF ControlInv, PoolInv
<1>11. QED
  BY <1>6, <1>7, <1>8, <1>9, <1>10 DEF ControlInv

\* The replicas of a thread's call.
Mine(t) == IF call[t].what = "wait" THEN {t} ELSE {p \in Pool : In(p, call[t].copies)}

\* An operation that is not pending keeps to that.
Settles(o, result) ==
  /\ o \in Ops /\ status[o] # "pending" /\ result \in Outcomes \ {"pending"}
  /\ status' = [status EXCEPT ![o] = result]

\* A call returns, and with it its replicas.  It may settle an operation.
LEMMA ControlReturned ==
  ASSUME ControlInv, NEW t \in Threads, NEW o, NEW result,
         status' = status \/ Settles(o, result),
         pending' \in Seq(Structs), Once(pending'),
         \A r : Listed(r)' <=> Listed(r) /\ r \notin Mine(t),
         copyOf' \in [Threads \cup Pool -> Ops \cup {NoOp}],
         \A u \in Threads : copyOf'[u] = copyOf[u],
         \A p \in Pool : copyOf'[p] = IF p \in Mine(t) THEN NoOp ELSE copyOf[p],
         call' = [call EXCEPT ![t] = Idle],
         UNCHANGED <<kind, awake>>
  PROVE  ControlInv'
<1>1. /\ call' \in [Threads -> Frames] /\ call'[t] = Idle
      /\ \A u \in Threads : u # t => call'[u] = call[u]
      /\ Idle.what = "idle" /\ Idle.copies = <<>>
  BY DEF ControlInv, ControlTypes, Frames, Idle
<1>2. /\ status' \in [Structs -> Outcomes \cup {"unused"}]
      /\ \A r \in Structs : \/ status'[r] = status[r]
                            \/ /\ r = o /\ r \in Ops /\ status[r] # "pending"
                               /\ status'[r] \in Outcomes \ {"pending"}
  BY DEF Settles, ControlInv, ControlTypes
<1>3. /\ \A r \in Structs : status'[r] = "pending" <=> status[r] = "pending"
      /\ \A r \in Structs : r \notin Ops => status'[r] = status[r]
      /\ \A r \in Structs : status[r] \in Outcomes => status'[r] \in Outcomes
      /\ \A r \in Structs : status[r] # "unused" => status'[r] # "unused"
      /\ \A r \in Structs : status[r] # "unused" => (Ended(r)' <=> Ended(r))
  BY <1>2 DEF Outcomes, Ended, ControlInv, ControlTypes
<1>4. \A u \in Threads : call[u] \in Frames /\ CallSound(u)
  BY DEF ControlInv, ControlTypes, CallInv
<1>5. \A p \in Pool : p \in Mine(t) <=> In(p, call[t].copies)
  <2>1. CASE call[t].what = "wait"
    <3>1. call[t].copies = <<>>
      BY <1>4, <2>1 DEF CallSound
    <3>2. QED
      BY <2>1, <3>1, Sorts DEF Mine, In
  <2>2. CASE call[t].what # "wait"
    BY <2>2 DEF Mine
  <2>3. QED
    BY <2>1, <2>2
<1>6. \A u \in Threads : u \in Mine(t) <=> u = t /\ call[t].what = "wait"
  BY Sorts DEF Mine
<1>7. \A r \in Threads \cup Pool : Replica(r)' <=> Replica(r) /\ r \notin Mine(t)
  <2>1. \A u \in Threads : Replica(u)' <=> Replica(u) /\ u \notin Mine(t)
    BY <1>1, <1>6, Sorts DEF Replica
  <2>2. \A p \in Pool : Replica(p)' <=> Replica(p) /\ p \notin Mine(t)
    BY Sorts DEF Replica
  <2>3. QED
    BY <2>1, <2>2
<1>8. \A r \in Threads \cup Pool : Replica(r)' => copyOf'[r] = copyOf[r]
  BY <1>7
<1>9. ControlTypes'
  BY <1>1, <1>2 DEF ControlTypes, ControlInv
<1> HIDE DEF Mine
<1>10. ListInv'
  <2>1. \A p \in Ops : p \notin Mine(t)
    BY Sorts DEF Mine
  <2>2. \A p \in Ops : Listed(p)' <=> status'[p] = "pending"
    BY <1>3, <2>1, Sorts DEF ControlInv, ListInv
  <2>3. \A u \in Threads : Listed(u)' <=> Replica(u)' /\ status'[u] = "pending"
    BY <1>3, <1>7, Sorts DEF ControlInv, ListInv
  <2>4. \A p \in Pool : /\ Listed(p)' => Replica(p)'
                        /\ Replica(p)' /\ status'[p] = "pending" => Listed(p)'
    BY <1>3, <1>7, Sorts DEF ControlInv, ListInv
  <2>5. QED
    BY <2>2, <2>3, <2>4 DEF ListInv
<1>11. \A p : Works(p) => Works(p)'
  BY <1>3, Sorts DEF Works
<1>12. ReplicaInv'
  <2> SUFFICES ASSUME NEW r \in Threads \cup Pool, Replica(r)'
               PROVE  /\ Works(copyOf[r])' /\ status'[r] \in Outcomes
                      /\ status'[r] = "pending" <=> status'[copyOf[r]] = "pending"
    BY <1>8 DEF ReplicaInv, Works
  <2>1. Replica(r) /\ copyOf'[r] = copyOf[r]
    BY <1>7, <1>8
  <2>2. /\ Works(copyOf[r]) /\ status[r] \in Outcomes
        /\ status[r] = "pending" <=> status[copyOf[r]] = "pending"
    BY <2>1 DEF ControlInv, ReplicaInv
  <2>3. r \in Structs /\ copyOf[r] \in Structs
    BY <2>2, Sorts DEF Works
  <2>4. QED
    BY <1>3, <1>11, <2>1, <2>2, <2>3 DEF Works
<1>13. CallInv'
  <2> SUFFICES ASSUME NEW u \in Threads
               PROVE  CallSound(u)'
    BY DEF CallInv
  <2>1. CASE u = t
    BY <1>1, <2>1 DEF CallSound, Idle
  <2>2. CASE u # t
    <3>1. CallSound(u) /\ call'[u] = call[u] /\ call[u] \in Frames /\ awake'[u] = awake[u]
      BY <1>1, <1>4, <2>2
    <3>2. CASE call[u].what = "recv"
      <4>1. PICK p \in Ops : p = call[u].ops[1]
        BY <3>2, Sleepers
      <4>2. /\ Len(call[u].ops) = 1 /\ call[u].copies = <<>> /\ status[p] # "unused"
            /\ awake[u] <=> Ended(p)
        BY <3>1, <3>2, <4>1 DEF CallSound
      <4>3. status'[p] # "unused" /\ (Ended(p)' <=> Ended(p))
        BY <1>3, <4>2, Sorts
      <4>4. QED
        BY <3>1, <3>2, <4>1, <4>2, <4>3 DEF CallSound
    <3>3. CASE call[u].what = "wait"
      <4>1. Ended(u)' <=> Ended(u)
        BY <1>3, Sorts DEF Ended
      <4>2. QED
        BY <3>1, <3>3, <4>1 DEF CallSound
    <3>4. CASE call[u].what = "test"
      BY <1>11, <3>1, <3>4 DEF CallSound
    <3>5. CASE call[u].what = "any"
      <4>1. PICK c \in Frames : c = call[u]
        BY <3>1
      <4>2. /\ Len(c.copies) = Len(c.ops)
            /\ \A i \in 1 .. Len(c.ops) : copyOf[c.copies[i]] = c.ops[i]
        BY <3>1, <3>5, <4>1 DEF CallSound
      <4>3. \A i \in 1 .. Len(c.ops) : c.copies[i] \in Pool /\ In(c.copies[i], c.copies)
        BY <4>2 DEF Frames, In
      <4>4. \A i \in 1 .. Len(c.ops) : c.copies[i] \notin Mine(t)
        BY <1>5, <2>2, <4>1, <4>3 DEF ControlInv, PoolInv
      <4>5. \A i \in 1 .. Len(c.ops) : copyOf'[c.copies[i]] = c.ops[i]
        BY <4>2, <4>3, <4>4
      <4>6. QED
        BY <3>1, <3>5, <4>1, <4>2, <4>5 DEF CallSound
    <3>6. CASE call[u].what = "idle"
      BY <3>1, <3>6 DEF CallSound
    <3>7. QED
      BY <3>1, <3>2, <3>3, <3>4, <3>5, <3>6 DEF Frames
  <2>3. QED
    BY <2>1, <2>2
<1>14. PoolInv'
  <2>1. /\ \A u \in Threads : u # t => call'[u].copies = call[u].copies
        /\ call'[t].copies = <<>> /\ \A p \in Pool : ~In(p, <<>>) /\ Once(<<>>)
    BY <1>1 DEF In, Once
  <2>2. ASSUME NEW p \in Pool
        PROVE  copyOf'[p] # NoOp <=> \E u \in Threads : In(p, call'[u].copies)
    <3>1. copyOf[p] # NoOp <=> \E u \in Threads : In(p, call[u].copies)
      BY DEF ControlInv, PoolInv
    <3>2. \A u \in Threads : In(p, call[t].copies) /\ In(p, call[u].copies) => u = t
      BY DEF ControlInv, PoolInv
    <3>3. copyOf'[p] # NoOp <=> copyOf[p] # NoOp /\ ~In(p, call[t].copies)
      BY <1>5
    <3>4. QED
      BY <2>1, <3>1, <3>2, <3>3
  <2>3. \A u \in Threads : Once(call'[u].copies)
    BY <2>1, <1>1 DEF ControlInv, PoolInv, Once
  <2>4. \A u, v \in Threads : \A p \in Pool :
          In(p, call'[u].copies) /\ In(p, call'[v].copies) => u = v
    BY <2>1 DEF ControlInv, PoolInv
  <2>5. QED
    BY <2>2, <2>3, <2>4 DEF PoolInv
<1>15. QED
  BY <1>9, <1>10, <1>12, <1>13, <1>14 DEF ControlInv

\* Take settles the operation.
LEMMA TakeSettles ==
  ASSUME NEW o \in Ops, status[o] # "pending", Take(o)
  PROVE  \E result : Settles(o, result)
<1>1. \/ Finish(o, "success") \/ Finish(o, "truncated") \/ Finish(o, "failed")
  BY DEF Take
<1>2. QED
  BY <1>1 DEF Finish, Settles, Outcomes

\* A call that has no replicas returns.
LEMMA ControlPlain ==
  ASSUME ControlInv, NEW t \in Threads, call[t].what \in {"idle", "recv", "test"},
         NEW o, NEW result, status' = status \/ Settles(o, result),
         call' = [call EXCEPT ![t] = Idle], UNCHANGED <<kind, pending, copyOf, awake>>
  PROVE  ControlInv'
<1>1. call[t].copies = <<>>
  BY DEF ControlInv, CallInv, CallSound, Idle
<1>2. Mine(t) = {}
  BY <1>1 DEF Mine, In
<1>3. /\ pending' \in Seq(Structs) /\ Once(pending')
      /\ \A r : Listed(r)' <=> Listed(r) /\ r \notin Mine(t)
      /\ copyOf' \in [Threads \cup Pool -> Ops \cup {NoOp}]
      /\ \A u \in Threads : copyOf'[u] = copyOf[u]
      /\ \A p \in Pool : copyOf'[p] = IF p \in Mine(t) THEN NoOp ELSE copyOf[p]
  BY <1>2 DEF ControlInv, ControlTypes, ListInv, Listed
<1>4. QED
  BY <1>3, ControlReturned

\* A receive that does not wait, and one that goes on after it has waited.
LEMMA ControlReceived ==
  ASSUME ControlInv, NEW t \in Threads,
         (\E o \in Ops : ReceiveNow(t, o)) \/ ReceiveReturns(t)
  PROVE  ControlInv'
<1>1. ASSUME NEW o \in Ops, ReceiveNow(t, o)
      PROVE  ControlInv'
  <2>1. /\ call[t] = Idle /\ call' = call /\ UNCHANGED <<kind, pending, copyOf, awake>>
        /\ status[o] # "pending"
    BY <1>1 DEF ReceiveNow, Start
  <2>2. call' = [call EXCEPT ![t] = Idle] /\ call[t].what = "idle"
    BY <2>1 DEF Idle, ControlInv, ControlTypes
  <2>3. \E result : Settles(o, result)
    <3>1. Take(o) \/ Finish(o, "failed")
      BY <1>1 DEF ReceiveNow
    <3>2. QED
      BY <2>1, <3>1, TakeSettles DEF Finish, Settles, Outcomes
  <2>4. QED
    BY <2>1, <2>2, <2>3, ControlPlain
<1>2. ASSUME ReceiveReturns(t)
      PROVE  ControlInv'
  <2>1. /\ call[t].what = "recv" /\ awake[t] /\ call' = [call EXCEPT ![t] = Idle]
        /\ UNCHANGED <<kind, pending, copyOf, awake>>
    BY <1>2 DEF ReceiveReturns
  <2>2. PICK o \in Ops : o = call[t].ops[1]
    BY <2>1, Sleepers
  <2>3. status[o] # "pending"
    BY <2>1, <2>2 DEF ControlInv, CallInv, CallSound, Ended
  <2>4. status' = status \/ \E result : Settles(o, result)
    <3>1. Take(o) \/ Finish(o, "failed") \/ status' = status
      BY <1>2, <2>2 DEF ReceiveReturns
    <3>2. QED
      BY <2>3, <3>1, TakeSettles DEF Finish, Settles, Outcomes
  <2>5. QED
    BY <2>1, <2>4, ControlPlain
<1>3. QED
  BY <1>1, <1>2

\* mcapi_wait returns: its replica, if still listed, leaves the list, and has the status the
\* operation has, pending or not.
LEMMA ControlWaitReturns ==
  ASSUME ControlInv, NEW t \in Threads, WaitReturns(t)
  PROVE  ControlInv' /\ (status' = status \/ \E result : Settles(copyOf[t], result))
<1>1. /\ call[t].what = "wait" /\ call' = [call EXCEPT ![t] = Idle]
      /\ status' = [status EXCEPT ![copyOf[t]] = status[t]]
      /\ pending' = IF status[t] = "pending" THEN Without({t}) ELSE pending
      /\ UNCHANGED <<kind, copyOf, awake>>
  BY DEF WaitReturns, data
<1>2. Replica(t) /\ Mine(t) = {t}
  BY <1>1 DEF Replica, Mine
<1>3. PICK o \in Ops : o = copyOf[t]
  BY <1>2 DEF ControlInv, ReplicaInv, Works
<1>4. status[t] \in Outcomes /\ (status[t] = "pending" <=> status[o] = "pending")
  BY <1>2, <1>3 DEF ControlInv, ReplicaInv
<1>5. status' = status \/ Settles(o, status[t])
  <2>1. CASE status[t] = "pending"
    BY <1>1, <1>3, <1>4, <2>1, Sorts DEF ControlInv, ControlTypes
  <2>2. CASE status[t] # "pending"
    BY <1>1, <1>3, <1>4, <2>2 DEF Settles
  <2>3. QED
    BY <2>1, <2>2
<1>6. /\ pending' \in Seq(Structs) /\ Once(pending')
      /\ \A r : Listed(r)' <=> Listed(r) /\ r \notin {t}
  <2>1. CASE status[t] = "pending"
    BY <1>1, <2>1, WithoutIs DEF ControlInv, ControlTypes, ListInv, Listed
  <2>2. CASE status[t] # "pending"
    <3>1. ~Listed(t) /\ pending' = pending
      BY <1>1, <2>2 DEF ControlInv, ListInv
    <3>2. QED
      BY <3>1 DEF ControlInv, ControlTypes, ListInv, Listed
  <2>3. QED
    BY <2>1, <2>2
<1>7. \A p \in Pool : copyOf'[p] = IF p \in Mine(t) THEN NoOp ELSE copyOf[p]
  BY <1>1, <1>2, Sorts
<1>8. /\ copyOf' \in [Threads \cup Pool -> Ops \cup {NoOp}]
      /\ \A u \in Threads : copyOf'[u] = copyOf[u]
  BY <1>1 DEF ControlInv, ControlTypes
<1>9. ControlInv'
  BY <1>1, <1>2, <1>5, <1>6, <1>7, <1>8, ControlReturned
<1>10. QED
  BY <1>3, <1>5, <1>9

\* A replica of mcapi_wait_any and its operation.
LEMMA ReplicaOf ==
  ASSUME ControlInv, NEW t \in Threads, call[t].what = "any"
  PROVE  /\ Len(call[t].copies) \in Nat /\ call[t].copies \in Seq(Pool)
         /\ DOMAIN call[t].copies = 1 .. Len(call[t].copies)
         /\ \A i \in 1 .. Len(call[t].copies) :
              LET p == call[t].copies[i] IN
              /\ p \in Pool /\ Replica(p) /\ copyOf[p] = call[t].ops[i]
              /\ copyOf[p] \in Ops
              /\ status[p] \in Outcomes
              /\ status[p] = "pending" <=> status[copyOf[p]] = "pending"
<1>1. PICK c \in Frames : c = call[t]
  BY DEF ControlInv, ControlTypes
<1>2. /\ Len(c.copies) \in Nat /\ DOMAIN c.copies = 1 .. Len(c.copies)
      /\ \A i \in 1 .. Len(c.copies) : c.copies[i] \in Pool /\ In(c.copies[i], c.copies)
  BY DEF Frames, In
<1>3. \A i \in 1 .. Len(c.copies) : copyOf[c.copies[i]] = c.ops[i]
  BY <1>1 DEF ControlInv, CallInv, CallSound
<1>4. \A i \in 1 .. Len(c.copies) : Replica(c.copies[i])
  BY <1>1, <1>2 DEF ControlInv, PoolInv, Replica
<1>5. ASSUME NEW i \in 1 .. Len(c.copies), NEW p, p = c.copies[i]
      PROVE  /\ p \in Pool /\ Replica(p) /\ copyOf[p] = c.ops[i] /\ copyOf[p] \in Ops
             /\ status[p] \in Outcomes
             /\ status[p] = "pending" <=> status[copyOf[p]] = "pending"
  BY <1>2, <1>3, <1>4, <1>5 DEF ControlInv, ReplicaInv, Works
<1>6. call[t].copies \in Seq(Pool)
  BY <1>1 DEF Frames
<1>7. QED
  BY <1>1, <1>2, <1>5, <1>6

\* mcapi_wait_any returns, with all its replicas, and passes on the status of the first that
\* is not pending.
LEMMA ControlAnyReturns ==
  ASSUME ControlInv, NEW t \in Threads, WaitAnyReturns(t)
  PROVE  /\ ControlInv'
         /\ status' = status \/ \E p \in Pool : /\ Replica(p) /\ copyOf[p] \in Ops
                                                /\ Settles(copyOf[p], status[p])
<1> DEFINE c == call[t]
           ended == {i \in DOMAIN c.copies : status[c.copies[i]] # "pending"}
           first == CHOOSE i \in ended : \A j \in ended : i <= j
<1>1. /\ c.what = "any" /\ call' = [call EXCEPT ![t] = Idle]
      /\ status' = IF ended = {} THEN status
                   ELSE [status EXCEPT ![c.ops[first]] = status[c.copies[first]]]
      /\ pending' = Without(Elements(c.copies))
      /\ copyOf' = [r \in DOMAIN copyOf |->
                      IF r \in Elements(c.copies) THEN NoOp ELSE copyOf[r]]
      /\ UNCHANGED <<kind, awake>>
  BY DEF WaitAnyReturns, data
<1>2. /\ Len(c.copies) \in Nat /\ c.copies \in Seq(Pool)
      /\ DOMAIN c.copies = 1 .. Len(c.copies)
      /\ \A i \in 1 .. Len(c.copies) :
           /\ c.copies[i] \in Pool /\ Replica(c.copies[i])
           /\ copyOf[c.copies[i]] = c.ops[i] /\ copyOf[c.copies[i]] \in Ops
           /\ status[c.copies[i]] \in Outcomes
           /\ status[c.copies[i]] = "pending" <=> status[copyOf[c.copies[i]]] = "pending"
  BY <1>1, ReplicaOf
<1>3. \A r : r \in Elements(c.copies) <=> r \in Mine(t)
  <2>1. \A r : r \in Elements(c.copies) <=> In(r, c.copies)
    BY <1>2, ElementsIn
  <2>2. \A r : In(r, c.copies) => r \in Pool
    BY <1>2 DEF In
  <2>3. QED
    BY <1>1, <2>1, <2>2 DEF Mine
<1>4. status' = status \/ \E p \in Pool : /\ Replica(p) /\ copyOf[p] \in Ops
                                          /\ Settles(copyOf[p], status[p])
  <2>1. CASE ended = {}
    BY <1>1, <2>1
  <2>2. CASE ended # {}
    <3>1. first \in ended
      <4>1. ended \in SUBSET Nat
        BY <1>2
      <4> HIDE DEF ended
      <4>2. \E i \in ended : \A j \in ended : i <= j
        BY <2>2, <4>1, LeastNat
      <4>3. QED
        BY <4>2
    <3>2. PICK i \in 1 .. Len(c.copies) : i = first /\ status[c.copies[i]] # "pending"
      BY <1>2, <3>1
    <3>3. PICK p \in Pool : p = c.copies[i]
      BY <1>2
    <3>4. /\ Replica(p) /\ copyOf[p] = c.ops[i] /\ copyOf[p] \in Ops
          /\ status[p] \in Outcomes /\ status[p] # "pending"
          /\ status[copyOf[p]] # "pending"
      BY <1>2, <3>2, <3>3
    <3>5. status' = [status EXCEPT ![copyOf[p]] = status[p]]
      BY <1>1, <2>2, <3>2, <3>3, <3>4
    <3>6. Settles(copyOf[p], status[p])
      BY <3>4, <3>5 DEF Settles
    <3>7. QED
      BY <3>4, <3>6
  <2>3. QED
    BY <2>1, <2>2
<1>5. /\ pending' \in Seq(Structs) /\ Once(pending')
      /\ \A r : Listed(r)' <=> Listed(r) /\ r \notin Mine(t)
  <2>1. PICK S : S = Elements(c.copies)
    OBVIOUS
  <2>2. pending' = Without(S) /\ \A r : r \in S <=> r \in Mine(t)
    BY <1>1, <1>3, <2>1
  <2>3. pending \in Seq(Structs) /\ Once(pending)
    BY DEF ControlInv, ControlTypes, ListInv
  <2>4. /\ Without(S) \in Seq(Structs) /\ Once(Without(S))
        /\ \A r : In(r, Without(S)) <=> In(r, pending) /\ r \notin S
    BY <2>3, WithoutIs
  <2>5. QED
    BY <2>2, <2>4 DEF Listed
<1>6. /\ copyOf' \in [Threads \cup Pool -> Ops \cup {NoOp}]
      /\ \A u \in Threads : copyOf'[u] = copyOf[u]
      /\ \A p \in Pool : copyOf'[p] = IF p \in Mine(t) THEN NoOp ELSE copyOf[p]
  <2>1. DOMAIN copyOf = Threads \cup Pool /\ copyOf \in [Threads \cup Pool -> Ops \cup {NoOp}]
    BY DEF ControlInv, ControlTypes
  <2>2. \A u \in Threads : u \notin Mine(t)
    BY <1>1, Sorts DEF Mine
  <2>3. copyOf' = [r \in Threads \cup Pool |-> IF r \in Mine(t) THEN NoOp ELSE copyOf[r]]
    BY <1>1, <1>3, <2>1
  <2>4. QED
    BY <2>1, <2>2, <2>3
<1>7. ControlInv'
  BY <1>1, <1>4, <1>5, <1>6, ControlReturned
<1>8. QED
  BY <1>4, <1>7

\* Operations that did not exist for the application are none it waits for.
LEMMA Fresh ==
  ASSUME ControlInv, NEW o \in Ops, status[o] = "unused"
  PROVE  /\ ~Listed(o)
         /\ \A r \in Threads \cup Pool : Replica(r) => copyOf[r] # o
         /\ \A u \in Threads : call[u].what = "recv" => call[u].ops[1] # o
  BY DEF ControlInv, ListInv, ReplicaInv, Works, CallInv, CallSound

\* A receive finds nothing and joins the list.
LEMMA ControlLater ==
  ASSUME ControlInv, NEW t \in Threads, NEW o \in Ops, NEW blocks \in BOOLEAN,
         ReceiveLater(t, o, blocks)
  PROVE  ControlInv'
<1>1. /\ call[t] = Idle /\ status[o] = "unused"
      /\ status' = [status EXCEPT ![o] = "pending"] /\ pending' = Append(pending, o)
      /\ call' = [call EXCEPT ![t] = IF blocks THEN Doing("recv", <<o>>, 0, <<>>) ELSE Idle]
      /\ awake' = [awake EXCEPT ![t] = FALSE] /\ UNCHANGED <<kind, copyOf>>
  BY DEF ReceiveLater, Start, Finish, data
<1>2. /\ ~Listed(o)
      /\ \A r \in Threads \cup Pool : Replica(r) => copyOf[r] # o
      /\ \A u \in Threads : call[u].what = "recv" => call[u].ops[1] # o
  BY <1>1, Fresh
<1>3. /\ pending' \in Seq(Structs) /\ Once(pending')
      /\ \A r : Listed(r)' <=> Listed(r) \/ r = o
  <2>1. o \in Structs /\ pending \in Seq(Structs) /\ Once(pending)
    BY Sorts DEF ControlInv, ControlTypes, ListInv
  <2>2. QED
    BY <1>1, <1>2, <2>1, Longer DEF Listed
<1>4. /\ status' \in [Structs -> Outcomes \cup {"unused"}] /\ status'[o] = "pending"
      /\ \A r \in Structs : r # o => status'[r] = status[r]
  BY <1>1, Sorts DEF ControlInv, ControlTypes, Outcomes
<1>5. /\ call' \in [Threads -> Frames] /\ awake' \in [Threads -> BOOLEAN] /\ awake'[t] = FALSE
      /\ call'[t] = Idle \/ call'[t] = Doing("recv", <<o>>, 0, <<>>)
      /\ \A u \in Threads : u # t => call'[u] = call[u] /\ awake'[u] = awake[u]
      /\ Idle.what = "idle" /\ Idle.copies = <<>>
      /\ call'[t].copies = <<>> /\ call'[t].what \in {"idle", "recv"}
  <2>1. Idle \in Frames /\ Doing("recv", <<o>>, 0, <<>>) \in Frames
    BY DEF Idle, Doing, Frames
  <2>2. QED
    BY <1>1, <2>1 DEF ControlInv, ControlTypes, Idle, Doing
<1>6. \A r \in Threads \cup Pool : Replica(r)' <=> Replica(r)
  BY <1>1, <1>5, Sorts DEF Replica, Idle
<1>7. ControlTypes'
  BY <1>1, <1>3, <1>4, <1>5 DEF ControlTypes, ControlInv
<1>8. ListInv'
  <2>1. \A p \in Ops : Listed(p)' <=> status'[p] = "pending"
    BY <1>3, <1>4, Sorts DEF ControlInv, ListInv
  <2>2. \A u \in Threads : Listed(u)' <=> Replica(u)' /\ status'[u] = "pending"
    BY <1>3, <1>4, <1>6, Sorts DEF ControlInv, ListInv
  <2>3. \A p \in Pool : /\ Listed(p)' => Replica(p)'
                        /\ Replica(p)' /\ status'[p] = "pending" => Listed(p)'
    BY <1>3, <1>4, <1>6, Sorts DEF ControlInv, ListInv
  <2>4. QED
    BY <1>3, <2>1, <2>2, <2>3 DEF ListInv
<1>9. ReplicaInv'
  <2> SUFFICES ASSUME NEW r \in Threads \cup Pool, Replica(r)
               PROVE  /\ Works(copyOf[r])' /\ status'[r] \in Outcomes
                      /\ status'[r] = "pending" <=> status'[copyOf[r]] = "pending"
    BY <1>1, <1>6 DEF ReplicaInv
  <2>1. /\ Works(copyOf[r]) /\ status[r] \in Outcomes
        /\ status[r] = "pending" <=> status[copyOf[r]] = "pending"
    BY DEF ControlInv, ReplicaInv
  <2>2. r \in Structs /\ r # o /\ copyOf[r] \in Structs /\ copyOf[r] # o
    BY <1>2, <2>1, Sorts DEF Works
  <2>3. QED
    BY <1>1, <1>4, <2>1, <2>2 DEF Works
<1>10. CallInv'
  <2> SUFFICES ASSUME NEW u \in Threads
               PROVE  CallSound(u)'
    BY DEF CallInv
  <2>1. CASE u = t
    BY <1>4, <1>5, <2>1 DEF CallSound, Idle, Doing, Ended
  <2>2. CASE u # t
    <3>1. /\ CallSound(u) /\ call'[u] = call[u] /\ call[u] \in Frames
          /\ awake'[u] = awake[u] /\ copyOf' = copyOf /\ kind' = kind
      BY <1>1, <1>5, <2>2 DEF ControlInv, CallInv, ControlTypes
    <3>2. CASE call[u].what = "recv"
      <4>1. PICK p \in Ops : p = call[u].ops[1]
        BY <3>2, Sleepers
      <4>2. status'[p] = status[p]
        BY <1>2, <1>4, <3>2, <4>1, Sorts
      <4>3. QED
        BY <3>1, <3>2, <4>1, <4>2 DEF CallSound, Ended
    <3>3. CASE call[u].what = "wait"
      <4>1. status'[u] = status[u]
        BY <1>4, Sorts
      <4>2. QED
        BY <3>1, <3>3, <4>1 DEF CallSound, Ended
    <3>4. CASE call[u].what = "test"
      <4>1. \A p : Works(p) => Works(p)'
        BY <1>1, <1>4, <3>1, Sorts DEF Works
      <4>2. QED
        BY <3>1, <3>4, <4>1 DEF CallSound
    <3>5. CASE call[u].what \in {"idle", "any"}
      BY <3>1, <3>5 DEF CallSound
    <3>6. QED
      BY <3>1, <3>2, <3>3, <3>4, <3>5 DEF Frames
  <2>3. QED
    BY <2>1, <2>2
<1>11. PoolInv'
  <2>1. \A u \in Threads : call'[u].copies = call[u].copies
    BY <1>1, <1>5
  <2>2. QED
    BY <1>1, <2>1 DEF ControlInv, PoolInv
<1>12. QED
  BY <1>7, <1>8, <1>9, <1>10, <1>11 DEF ControlInv

\* mcapi_wait of an operation that is pending: the thread's replica joins the list.
LEMMA ControlWait ==
  ASSUME ControlInv, NEW t \in Threads, NEW o \in Ops, Wait(t, o)
  PROVE  ControlInv'
<1>1. /\ call[t] = Idle /\ Works(o) /\ status[o] = "pending"
      /\ status' = [status EXCEPT ![t] = "pending"] /\ pending' = Append(pending, t)
      /\ copyOf' = [copyOf EXCEPT ![t] = o]
      /\ call' = [call EXCEPT ![t] = Doing("wait", <<o>>, 0, <<>>)]
      /\ awake' = [awake EXCEPT ![t] = FALSE] /\ kind' = kind
  BY DEF Wait, Posted, Works, data
<1>2. ~Replica(t) /\ ~Listed(t)
  <2>1. ~Replica(t)
    BY <1>1, Sorts DEF Replica, Idle
  <2>2. QED
    BY <2>1 DEF ControlInv, ListInv
<1>3. /\ pending' \in Seq(Structs) /\ Once(pending')
      /\ \A r : Listed(r)' <=> Listed(r) \/ r = t
  <2>1. t \in Structs /\ pending \in Seq(Structs) /\ Once(pending)
    BY Sorts DEF ControlInv, ControlTypes, ListInv
  <2>2. QED
    BY <1>1, <1>2, <2>1, Longer DEF Listed
<1>4. /\ status' \in [Structs -> Outcomes \cup {"unused"}] /\ status'[t] = "pending"
      /\ \A r \in Structs : r # t => status'[r] = status[r]
      /\ copyOf' \in [Threads \cup Pool -> Ops \cup {NoOp}] /\ copyOf'[t] = o
      /\ \A r \in Threads \cup Pool : r # t => copyOf'[r] = copyOf[r]
  BY <1>1, Sorts DEF ControlInv, ControlTypes, Outcomes
<1>5. /\ call' \in [Threads -> Frames] /\ awake' \in [Threads -> BOOLEAN]
      /\ call'[t] = Doing("wait", <<o>>, 0, <<>>)
      /\ \A u \in Threads : u # t => call'[u] = call[u] /\ awake'[u] = awake[u]
      /\ call[t].copies = <<>> /\ call'[t].copies = <<>> /\ call'[t].what = "wait"
  <2>1. Doing("wait", <<o>>, 0, <<>>) \in Frames
    BY DEF Doing, Frames
  <2>2. QED
    BY <1>1, <2>1 DEF ControlInv, ControlTypes, Idle, Doing
<1>6. \A r \in Threads \cup Pool : Replica(r)' <=> Replica(r) \/ r = t
  BY <1>4, <1>5, Sorts DEF Replica
<1>7. ControlTypes'
  BY <1>3, <1>4, <1>5 DEF ControlTypes
<1>8. ListInv'
  <2>1. \A p \in Ops : Listed(p)' <=> status'[p] = "pending"
    BY <1>3, <1>4, Sorts DEF ControlInv, ListInv
  <2>2. \A u \in Threads : Listed(u)' <=> Replica(u)' /\ status'[u] = "pending"
    BY <1>3, <1>4, <1>6, Sorts DEF ControlInv, ListInv
  <2>3. \A p \in Pool : /\ Listed(p)' => Replica(p)'
                        /\ Replica(p)' /\ status'[p] = "pending" => Listed(p)'
    BY <1>3, <1>4, <1>6, Sorts DEF ControlInv, ListInv
  <2>4. QED
    BY <1>3, <2>1, <2>2, <2>3 DEF ListInv
<1>9. \A p : Works(p) => Works(p)' /\ status'[p] = status[p]
  BY <1>1, <1>4, Sorts DEF Works
<1>10. ReplicaInv'
  <2> SUFFICES ASSUME NEW r \in Threads \cup Pool, Replica(r)'
               PROVE  /\ Works(copyOf[r])' /\ status'[r] \in Outcomes
                      /\ status'[r] = "pending" <=> status'[copyOf'[r]] = "pending"
    BY DEF ReplicaInv, Works
  <2>1. CASE r = t
    BY <1>1, <1>4, <1>9, <2>1 DEF Outcomes
  <2>2. CASE r # t
    <3>1. /\ Works(copyOf[r]) /\ status[r] \in Outcomes
          /\ status[r] = "pending" <=> status[copyOf[r]] = "pending"
      BY <1>6, <2>2 DEF ControlInv, ReplicaInv
    <3>2. r \in Structs /\ copyOf'[r] = copyOf[r]
      BY <1>4, <2>2, Sorts
    <3>3. QED
      BY <1>4, <1>9, <2>2, <3>1, <3>2 DEF Works
  <2>3. QED
    BY <2>1, <2>2
<1>11. CallInv'
  <2> SUFFICES ASSUME NEW u \in Threads
               PROVE  CallSound(u)'
    BY DEF CallInv
  <2>1. CASE u = t
    BY <1>4, <1>5, <2>1 DEF CallSound, Doing, Ended
  <2>2. CASE u # t
    <3>1. /\ CallSound(u) /\ call'[u] = call[u] /\ call[u] \in Frames
          /\ awake'[u] = awake[u] /\ copyOf'[u] = copyOf[u] /\ status'[u] = status[u]
      BY <1>4, <1>5, <2>2, Sorts DEF ControlInv, CallInv, ControlTypes
    <3>2. CASE call[u].what = "recv"
      <4>1. PICK p \in Ops : p = call[u].ops[1]
        BY <3>2, Sleepers
      <4>2. status'[p] = status[p]
        BY <1>4, Sorts
      <4>3. QED
        BY <3>1, <3>2, <4>1, <4>2 DEF CallSound, Ended
    <3>3. CASE call[u].what = "wait"
      BY <3>1, <3>3 DEF CallSound, Ended
    <3>4. CASE call[u].what = "test"
      BY <1>9, <3>1, <3>4 DEF CallSound
    <3>5. CASE call[u].what = "any"
      <4>1. PICK c \in Frames : c = call[u]
        BY <3>1
      <4>2. /\ Len(c.copies) = Len(c.ops)
            /\ \A i \in 1 .. Len(c.ops) : copyOf[c.copies[i]] = c.ops[i]
            /\ \A i \in 1 .. Len(c.ops) : c.copies[i] \in Pool
        BY <3>1, <3>5, <4>1 DEF CallSound, Frames
      <4>3. \A i \in 1 .. Len(c.ops) : copyOf'[c.copies[i]] = c.ops[i]
        BY <1>4, <4>2, Sorts
      <4>4. QED
        BY <3>1, <3>5, <4>1, <4>2, <4>3 DEF CallSound
    <3>6. CASE call[u].what = "idle"
      BY <3>1, <3>6 DEF CallSound
    <3>7. QED
      BY <3>1, <3>2, <3>3, <3>4, <3>5, <3>6 DEF Frames
  <2>3. QED
    BY <2>1, <2>2
<1>12. PoolInv'
  <2>1. /\ \A u \in Threads : call'[u].copies = call[u].copies
        /\ \A p \in Pool : copyOf'[p] = copyOf[p]
    BY <1>4, <1>5, Sorts
  <2>2. QED
    BY <2>1 DEF ControlInv, PoolInv
<1>13. QED
  BY <1>7, <1>8, <1>10, <1>11, <1>12 DEF ControlInv

\* mcapi_wait_any goes from one test to the next.
LEMMA ControlTests ==
  ASSUME ControlInv, NEW t \in Threads, call[t].what \in {"idle", "test"},
         NEW f \in Frames, f.what = "test", f.copies = <<>>,
         \A i \in 1 .. Len(f.ops) : Works(f.ops[i]),
         call' = [call EXCEPT ![t] = f], UNCHANGED <<kind, pending, status, copyOf, awake>>
  PROVE  ControlInv'
<1>1. /\ call' \in [Threads -> Frames] /\ call'[t] = f
      /\ \A u \in Threads : u # t => call'[u] = call[u]
      /\ call[t].copies = <<>>
  BY DEF ControlInv, ControlTypes, CallInv, CallSound, Idle
<1>2. \A r : (Replica(r)' <=> Replica(r)) /\ (Works(r)' <=> Works(r)) /\ (Listed(r)' <=> Listed(r))
  BY <1>1 DEF Replica, Works, Listed
<1>3. ControlTypes' /\ ListInv' /\ ReplicaInv'
  BY <1>1, <1>2 DEF ControlInv, ControlTypes, ListInv, ReplicaInv
<1>4. CallInv'
  <2> SUFFICES ASSUME NEW u \in Threads
               PROVE  CallSound(u)'
    BY DEF CallInv
  <2>1. CASE u = t
    BY <1>1, <1>2, <2>1 DEF CallSound
  <2>2. CASE u # t
    BY <1>1, <1>2, <2>2 DEF ControlInv, CallInv, CallSound, Ended
  <2>3. QED
    BY <2>1, <2>2
<1>5. PoolInv'
  <2>1. \A u \in Threads : call'[u].copies = call[u].copies
    BY <1>1
  <2>2. QED
    BY <2>1 DEF ControlInv, PoolInv
<1>6. QED
  BY <1>3, <1>4, <1>5 DEF ControlInv

\* mcapi_wait_any before it replicates its operations.
LEMMA ControlTesting ==
  ASSUME ControlInv, NEW t \in Threads,
         \/ \E list \in WaitLists : WaitAny(t, list)
         \/ TestNext(t) \/ AttachFails(t)
  PROVE  ControlInv' /\ status' = status
<1>1. ASSUME NEW list \in WaitLists, WaitAny(t, list)
      PROVE  ControlInv'
  <2>1. /\ call[t].what = "idle" /\ call' = [call EXCEPT ![t] = Doing("test", list, 1, <<>>)]
        /\ UNCHANGED <<kind, pending, status, copyOf, awake>>
        /\ \A o \in Elements(list) : Posted(o)
    BY <1>1 DEF WaitAny, Idle, data
  <2>2. list \in Seq(Ops)
    BY RequestsAssumption
  <2>3. \A i \in 1 .. Len(list) : Works(list[i])
    BY <2>1, <2>2, ElementsIn DEF Posted, Works, In
  <2>4. PICK f : f = Doing("test", list, 1, <<>>)
    OBVIOUS
  <2>5. f \in Frames /\ f.what = "test" /\ f.copies = <<>> /\ f.ops = list
    BY <2>2, <2>4 DEF Doing, Frames
  <2>6. QED
    BY <2>1, <2>3, <2>4, <2>5, ControlTests
<1>2. ASSUME call[t].what = "test", call' = [call EXCEPT ![t] = Idle],
             UNCHANGED <<kind, pending, status, copyOf, awake>>
      PROVE  ControlInv'
  BY <1>2, ControlPlain
<1>3. ASSUME TestNext(t)
      PROVE  ControlInv'
  <2>1. /\ call[t].what = "test" /\ UNCHANGED <<kind, pending, status, copyOf, awake>>
        /\ \/ call' = [call EXCEPT ![t] = Idle]
           \/ call' = [call EXCEPT ![t] = [call[t] EXCEPT !.at = @ + 1]]
    BY <1>3 DEF TestNext, data
  <2>2. PICK c \in Frames : c = call[t]
    BY DEF ControlInv, ControlTypes
  <2>3. PICK f : f = [c EXCEPT !.at = @ + 1]
    OBVIOUS
  <2>4. /\ f \in Frames /\ f.what = "test" /\ f.copies = <<>> /\ f.ops = c.ops
        /\ \A i \in 1 .. Len(f.ops) : Works(f.ops[i])
    BY <2>1, <2>2, <2>3 DEF Frames, ControlInv, CallInv, CallSound
  <2>5. CASE call' = [call EXCEPT ![t] = f]
    BY <2>1, <2>4, <2>5, ControlTests
  <2>6. QED
    BY <1>2, <2>1, <2>2, <2>3, <2>5
<1>4. ASSUME AttachFails(t)
      PROVE  ControlInv'
  BY <1>2, <1>4 DEF AttachFails, data
<1>5. status' = status
  BY DEF WaitAny, TestNext, AttachFails
<1>6. QED
  BY <1>1, <1>3, <1>4, <1>5

\* The time of a call is up.
LEMMA ControlTimeUp ==
  ASSUME ControlInv, NEW t \in Threads, TimeUp(t)
  PROVE  ControlInv'
<1>1. /\ call[t].what \in {"wait", "any"} /\ awake' = [awake EXCEPT ![t] = TRUE]
      /\ UNCHANGED <<kind, pending, status, copyOf, call>>
  BY DEF TimeUp, data
<1>2. /\ awake' \in [Threads -> BOOLEAN] /\ awake'[t] = TRUE
      /\ \A u \in Threads : u # t => awake'[u] = awake[u]
  BY <1>1 DEF ControlInv, ControlTypes
<1>3. \A r : (Replica(r)' <=> Replica(r)) /\ (Works(r)' <=> Works(r)) /\ (Listed(r)' <=> Listed(r))
  BY <1>1 DEF Replica, Works, Listed
<1>4. ControlTypes' /\ ListInv' /\ ReplicaInv' /\ PoolInv'
  BY <1>1, <1>2, <1>3 DEF ControlInv, ControlTypes, ListInv, ReplicaInv, PoolInv
<1>5. CallInv'
  BY <1>1, <1>2, <1>3 DEF ControlInv, CallInv, CallSound, Ended
<1>6. QED
  BY <1>4, <1>5 DEF ControlInv

\* Nothing of it is touched.
LEMMA ControlSame ==
  ASSUME ControlInv, UNCHANGED <<kind, pending, status, copyOf, call, awake>>
  PROVE  ControlInv'
<1>1. \A r : (Replica(r)' <=> Replica(r)) /\ (Works(r)' <=> Works(r)) /\ (Listed(r)' <=> Listed(r))
  BY DEF Replica, Works, Listed
<1>2. ControlTypes' /\ ListInv' /\ ReplicaInv' /\ PoolInv'
  BY <1>1 DEF ControlInv, ControlTypes, ListInv, ReplicaInv, PoolInv
<1>3. CallInv'
  BY <1>1 DEF ControlInv, CallInv, CallSound, Ended
<1>4. QED
  BY <1>2, <1>3 DEF ControlInv

\* Two lists that share nothing, one after the other.
LEMMA Joined ==
  ASSUME NEW D, NEW s \in Seq(D), NEW u \in Seq(D)
  PROVE  /\ s \o u \in Seq(D)
         /\ \A r : In(r, s \o u) <=> In(r, s) \/ In(r, u)
         /\ Once(s) /\ Once(u) /\ (\A r : ~(In(r, s) /\ In(r, u))) => Once(s \o u)
<1> DEFINE a == s \o u
<1>1. /\ a \in Seq(D) /\ Len(s) \in Nat /\ Len(u) \in Nat /\ Len(a) = Len(s) + Len(u)
      /\ \A i \in 1 .. Len(s) : a[i] = s[i]
      /\ \A i \in 1 .. Len(u) : a[Len(s) + i] = u[i]
  OBVIOUS
<1> HIDE DEF a
<1>2. /\ \A i \in 1 .. Len(s) : i \in 1 .. Len(a)
      /\ \A i \in 1 .. Len(u) : Len(s) + i \in 1 .. Len(a)
      /\ \A i \in 1 .. Len(a) : i \in 1 .. Len(s) \/ \E j \in 1 .. Len(u) : i = Len(s) + j
  <2>1. \A i \in 1 .. Len(a) : i \notin 1 .. Len(s) =>
          i - Len(s) \in 1 .. Len(u) /\ i = Len(s) + (i - Len(s))
    BY <1>1
  <2>2. \A i \in 1 .. Len(a) : i \notin 1 .. Len(s) => \E j \in 1 .. Len(u) : i = Len(s) + j
    <3>1. ASSUME NEW i \in 1 .. Len(a), i \notin 1 .. Len(s)
          PROVE  \E j \in 1 .. Len(u) : i = Len(s) + j
      <4>1. PICK j \in 1 .. Len(u) : j = i - Len(s)
        BY <2>1, <3>1
      <4>2. QED
        BY <2>1, <3>1, <4>1
    <3>2. QED
      BY <3>1
  <2>3. QED
    BY <1>1, <2>2
<1>3. \A r : In(r, a) <=> In(r, s) \/ In(r, u)
  <2>1. \A r : In(r, s) => In(r, a)
    BY <1>1, <1>2 DEF In
  <2>2. \A r : In(r, u) => In(r, a)
    BY <1>1, <1>2 DEF In
  <2>3. ASSUME NEW i \in 1 .. Len(a)
        PROVE  In(a[i], s) \/ In(a[i], u)
    <3>1. CASE i \in 1 .. Len(s)
      BY <1>1, <3>1 DEF In
    <3>2. ASSUME NEW j \in 1 .. Len(u), i = Len(s) + j
          PROVE  In(a[i], u)
      BY <1>1, <3>2 DEF In
    <3>3. QED
      BY <1>2, <3>1, <3>2
  <2>4. QED
    BY <2>1, <2>2, <2>3 DEF In
<1>4. ASSUME Once(s), Once(u), \A r : ~(In(r, s) /\ In(r, u))
      PROVE  Once(a)
  <2> SUFFICES ASSUME NEW i \in 1 .. Len(a), NEW j \in 1 .. Len(a), a[i] = a[j]
               PROVE  i = j
    BY DEF Once
  <2>1. CASE i \in 1 .. Len(s) /\ j \in 1 .. Len(s)
    BY <1>1, <1>4, <2>1 DEF Once
  <2>2. CASE i \in 1 .. Len(s) /\ \E k \in 1 .. Len(u) : j = Len(s) + k
    <3>1. PICK k \in 1 .. Len(u) : j = Len(s) + k
      BY <2>2
    <3>2. a[i] = s[i] /\ a[j] = u[k]
      BY <1>1, <2>2, <3>1
    <3>3. In(a[i], s) /\ In(a[i], u)
      BY <2>2, <3>2 DEF In
    <3>4. QED
      BY <1>4, <3>3
  <2>3. CASE j \in 1 .. Len(s) /\ \E k \in 1 .. Len(u) : i = Len(s) + k
    <3>1. PICK k \in 1 .. Len(u) : i = Len(s) + k
      BY <2>3
    <3>2. a[j] = s[j] /\ a[i] = u[k]
      BY <1>1, <2>3, <3>1
    <3>3. In(a[i], s) /\ In(a[i], u)
      BY <2>3, <3>2 DEF In
    <3>4. QED
      BY <1>4, <3>3
  <2>4. CASE (\E k \in 1 .. Len(u) : i = Len(s) + k) /\ (\E k \in 1 .. Len(u) : j = Len(s) + k)
    BY <1>1, <1>4, <2>4 DEF Once
  <2>5. QED
    BY <1>2, <2>1, <2>2, <2>3, <2>4
<1>5. QED
  BY <1>1, <1>3, <1>4 DEF a

\* mcapi_wait_any takes a structure from the pool for each of its operations, gives it the
\* status the operation has by now, and suspends.
LEMMA AttachEffect ==
  ASSUME ControlInv, NEW t \in Threads, AttachAll(t)
  PROVE  \E c \in Frames : \E s \in Seq(Pool) :
           /\ c = call[t] /\ c.what = "test" /\ c.copies = <<>> /\ Len(s) = Len(c.ops)
           /\ \A i \in 1 .. Len(c.ops) : /\ Works(c.ops[i])
                                         /\ copyOf[s[i]] = NoOp /\ copyOf'[s[i]] = c.ops[i]
                                         /\ status'[s[i]] = status[c.ops[i]]
           /\ Once(s)
           /\ pending' = pending \o s
           /\ call' = [call EXCEPT ![t] = Doing("any", c.ops, 0, s)]
           /\ awake' = [awake EXCEPT ![t] = FALSE]
           /\ copyOf' \in [Threads \cup Pool -> Ops \cup {NoOp}]
           /\ status' \in [Structs -> Outcomes \cup {"unused"}]
           /\ \A r \in Structs : ~In(r, s) => status'[r] = status[r]
           /\ \A r \in Threads \cup Pool : ~In(r, s) => copyOf'[r] = copyOf[r]
           /\ kind' = kind
<1>1. PICK c \in Frames : c = call[t]
  BY DEF ControlInv, ControlTypes
<1>2. /\ c.what = "test" /\ c.copies = <<>> /\ \A i \in 1 .. Len(c.ops) : Works(c.ops[i])
  BY <1>1 DEF AttachAll, ControlInv, CallInv, CallSound
<1>3. PICK n \in Nat : n = Len(c.ops)
  BY DEF Frames
<1>4. DOMAIN c.ops = 1 .. n /\ \A i \in 1 .. n : c.ops[i] \in Ops
  BY <1>3 DEF Frames
<1>5. PICK s : s = [i \in 1 .. n |-> FreeStruct(i)]
  OBVIOUS
<1>6. \A i \in 1 .. n : /\ s[i] \in FreeStructs
                        /\ Cardinality({q \in FreeStructs : q <= s[i]}) = i
  <2>1. Cardinality(FreeStructs) \in Nat
    <3>1. PoolSize \in Nat /\ FreeStructs \in SUBSET (1 .. PoolSize)
      BY RequestsAssumption DEF FreeStructs, Pool
    <3>2. IsFiniteSet(1 .. PoolSize)
      BY <3>1, FS_Interval
    <3>3. QED
      BY <3>1, <3>2, FS_Subset, FS_CardinalityType
  <2>2. n <= Cardinality(FreeStructs)
    BY <1>1, <1>3, <2>1 DEF AttachAll
  <2>3. \A i \in 1 .. n : i \in 1 .. Cardinality(FreeStructs)
    BY <2>1, <2>2
  <2>4. QED
    BY <1>5, <2>3, FreeStructIs
<1>7. /\ s \in Seq(Pool) /\ Len(s) = n
      /\ \A i \in 1 .. n : s[i] \in Pool /\ copyOf[s[i]] = NoOp
  <2>1. \A i \in 1 .. n : s[i] \in Pool /\ copyOf[s[i]] = NoOp
    BY <1>6 DEF FreeStructs
  <2>2. QED
    BY <1>5, <2>1
<1>8. Once(s) /\ DOMAIN s = 1 .. n
  <2>1. DOMAIN s = 1 .. n
    BY <1>5
  <2>2. ASSUME NEW i \in 1 .. n, NEW j \in 1 .. n, s[i] = s[j]
        PROVE  i = j
    <3>1. /\ Cardinality({q \in FreeStructs : q <= s[i]}) = i
          /\ Cardinality({q \in FreeStructs : q <= s[j]}) = j
      BY <1>6
    <3>2. QED
      BY <2>2, <3>1
  <2>3. QED
    BY <1>7, <2>1, <2>2 DEF Once
<1> DEFINE OpFor(p) == c.ops[CHOOSE i \in DOMAIN s : s[i] = p]
<1>9. \A i \in 1 .. n : OpFor(s[i]) = c.ops[i]
  BY <1>7, <1>8 DEF Once
<1>10. s = [i \in DOMAIN c.ops |-> FreeStruct(i)]
  BY <1>4, <1>5
<1>11. /\ pending' = pending \o s
       /\ copyOf' = [r \in DOMAIN copyOf |-> IF r \in Elements(s) THEN OpFor(r) ELSE copyOf[r]]
       /\ status' = [r \in Structs |-> IF r \in Elements(s) THEN status[OpFor(r)] ELSE status[r]]
       /\ call' = [call EXCEPT ![t] = Doing("any", c.ops, 0, s)]
       /\ awake' = [awake EXCEPT ![t] = FALSE]
       /\ kind' = kind
  BY <1>1, <1>10 DEF AttachAll, data
<1> HIDE DEF OpFor
<1>12. \A r : r \in Elements(s) <=> In(r, s)
  BY <1>7, ElementsIn
<1>13. \A r : In(r, s) => r \in Pool /\ OpFor(r) \in Ops
  BY <1>4, <1>7, <1>9 DEF In
<1>14. DOMAIN copyOf = Threads \cup Pool
  BY DEF ControlInv, ControlTypes
<1>15. \A i \in 1 .. n : In(s[i], s) /\ s[i] \in Pool /\ s[i] \in Structs
  BY <1>7, Sorts DEF In
<1>16. \A i \in 1 .. n : copyOf'[s[i]] = c.ops[i] /\ status'[s[i]] = status[c.ops[i]]
  BY <1>9, <1>11, <1>12, <1>14, <1>15
<1>17. /\ copyOf' \in [Threads \cup Pool -> Ops \cup {NoOp}]
       /\ \A r \in Threads \cup Pool : ~In(r, s) => copyOf'[r] = copyOf[r]
  BY <1>11, <1>12, <1>13, <1>14 DEF ControlInv, ControlTypes
<1>18. /\ status' \in [Structs -> Outcomes \cup {"unused"}]
       /\ \A r \in Structs : ~In(r, s) => status'[r] = status[r]
  BY <1>11, <1>12, <1>13, Sorts DEF ControlInv, ControlTypes
<1>19. \A i \in 1 .. Len(c.ops) : /\ Works(c.ops[i])
                                   /\ copyOf[s[i]] = NoOp /\ copyOf'[s[i]] = c.ops[i]
                                   /\ status'[s[i]] = status[c.ops[i]]
  BY <1>2, <1>3, <1>7, <1>16
<1>20. c \in Frames /\ s \in Seq(Pool) /\ Len(s) = Len(c.ops)
  BY <1>1, <1>3, <1>7
<1>21. QED
  BY <1>1, <1>2, <1>8, <1>11, <1>17, <1>18, <1>19, <1>20, ZenonT(40)

\* Until then nobody else has the structures it takes.
LEMMA ControlAttach ==
  ASSUME ControlInv, NEW t \in Threads, AttachAll(t)
  PROVE  ControlInv'
<1>1. PICK c \in Frames, s \in Seq(Pool) :
        /\ c = call[t] /\ c.what = "test" /\ c.copies = <<>> /\ Len(s) = Len(c.ops)
        /\ \A i \in 1 .. Len(c.ops) : /\ Works(c.ops[i])
                                      /\ copyOf[s[i]] = NoOp /\ copyOf'[s[i]] = c.ops[i]
                                      /\ status'[s[i]] = status[c.ops[i]]
        /\ Once(s)
        /\ pending' = pending \o s
        /\ call' = [call EXCEPT ![t] = Doing("any", c.ops, 0, s)]
        /\ awake' = [awake EXCEPT ![t] = FALSE]
        /\ copyOf' \in [Threads \cup Pool -> Ops \cup {NoOp}]
        /\ status' \in [Structs -> Outcomes \cup {"unused"}]
        /\ \A r \in Structs : ~In(r, s) => status'[r] = status[r]
        /\ \A r \in Threads \cup Pool : ~In(r, s) => copyOf'[r] = copyOf[r]
        /\ kind' = kind
  BY AttachEffect
<1>2. /\ Len(s) \in Nat /\ \A i \in 1 .. Len(s) : s[i] \in Pool
      /\ \A r : In(r, s) => r \in Pool /\ r \in Structs /\ copyOf[r] = NoOp /\ ~Replica(r)
      /\ \A o \in Ops : ~In(o, s)
      /\ \A u \in Threads : ~In(u, s)
  <2>1. Len(s) \in Nat /\ \A i \in 1 .. Len(s) : s[i] \in Pool
    OBVIOUS
  <2>2. \A r : In(r, s) => r \in Pool /\ copyOf[r] = NoOp
    BY <1>1, <2>1 DEF In
  <2>3. QED
    BY <2>1, <2>2, Sorts DEF Replica
<1>3. /\ \A o \in Ops : status'[o] = status[o]
      /\ \A u \in Threads : status'[u] = status[u] /\ copyOf'[u] = copyOf[u]
      /\ \A r : Works(r)' <=> Works(r)
  BY <1>1, <1>2, Sorts DEF Works
<1>4. \A r : In(r, s) =>
        \E o \in Ops : /\ Works(o) /\ copyOf'[r] = o /\ status'[r] = status[o]
                       /\ status[o] \in Outcomes
  <2>1. \A o : Works(o) => o \in Ops /\ status[o] \in Outcomes
    BY Sorts DEF Works, ControlInv, ControlTypes
  <2>2. QED
    BY <1>1, <2>1 DEF In
<1>5. /\ call' \in [Threads -> Frames] /\ awake' \in [Threads -> BOOLEAN]
      /\ call'[t] = Doing("any", c.ops, 0, s)
      /\ \A u \in Threads : u # t => call'[u] = call[u] /\ awake'[u] = awake[u]
      /\ call'[t].copies = s /\ call'[t].what = "any" /\ call'[t].ops = c.ops
      /\ call[t].what = "test" /\ call[t].copies = <<>>
  <2>1. Doing("any", c.ops, 0, s) \in Frames
    BY DEF Doing, Frames
  <2>2. QED
    BY <1>1, <2>1 DEF ControlInv, ControlTypes, Doing
<1>6. \A r \in Threads \cup Pool : Replica(r)' <=> Replica(r) \/ In(r, s)
  <2>1. \A u \in Threads : Replica(u)' <=> Replica(u)
    BY <1>5, Sorts DEF Replica
  <2>2. \A p \in Pool : In(p, s) => copyOf'[p] # NoOp
    BY <1>4, Sorts
  <2>3. \A p \in Pool : Replica(p)' <=> Replica(p) \/ In(p, s)
    BY <1>1, <2>2, Sorts DEF Replica
  <2>4. QED
    BY <1>2, <2>1, <2>3
<1>7. /\ pending' \in Seq(Structs) /\ Once(pending')
      /\ \A r : Listed(r)' <=> Listed(r) \/ In(r, s)
  <2>1. s \in Seq(Structs)
    BY <1>2, Sorts
  <2>2. \A r : ~(In(r, pending) /\ In(r, s))
    BY <1>2, Sorts DEF ControlInv, ListInv, Listed
  <2>3. pending \in Seq(Structs) /\ Once(pending)
    BY DEF ControlInv, ControlTypes, ListInv
  <2>4. QED
    BY <1>1, <2>1, <2>2, <2>3, Joined DEF Listed
<1>8. ControlTypes'
  BY <1>1, <1>5, <1>7 DEF ControlTypes
<1>9. ListInv'
  <2>1. \A o \in Ops : Listed(o)' <=> status'[o] = "pending"
    BY <1>2, <1>3, <1>7 DEF ControlInv, ListInv
  <2>2. \A u \in Threads : Listed(u)' <=> Replica(u)' /\ status'[u] = "pending"
    BY <1>2, <1>3, <1>6, <1>7 DEF ControlInv, ListInv
  <2>3. ASSUME NEW p \in Pool
        PROVE  /\ Listed(p)' => Replica(p)'
               /\ Replica(p)' /\ status'[p] = "pending" => Listed(p)'
    <3>1. CASE In(p, s)
      BY <1>6, <1>7, <3>1
    <3>2. CASE ~In(p, s)
      <4>1. status'[p] = status[p]
        BY <1>1, <3>2, Sorts
      <4>2. QED
        BY <1>6, <1>7, <3>2, <4>1 DEF ControlInv, ListInv
    <3>3. QED
      BY <3>1, <3>2
  <2>4. QED
    BY <1>7, <2>1, <2>2, <2>3 DEF ListInv
<1>10. ReplicaInv'
  <2> SUFFICES ASSUME NEW r \in Threads \cup Pool, Replica(r)'
               PROVE  /\ Works(copyOf[r])' /\ status'[r] \in Outcomes
                      /\ status'[r] = "pending" <=> status'[copyOf'[r]] = "pending"
    BY DEF ReplicaInv, Works
  <2>1. CASE In(r, s)
    <3>1. PICK o \in Ops : /\ Works(o) /\ copyOf'[r] = o /\ status'[r] = status[o]
                           /\ status[o] \in Outcomes
      BY <1>4, <2>1
    <3>2. Works(copyOf[r])'
      BY <1>3, <3>1 DEF Works
    <3>3. QED
      BY <1>3, <3>1, <3>2
  <2>2. CASE ~In(r, s)
    <3>1. /\ Works(copyOf[r]) /\ status[r] \in Outcomes
          /\ status[r] = "pending" <=> status[copyOf[r]] = "pending"
      BY <1>6, <2>2 DEF ControlInv, ReplicaInv
    <3>2. r \in Structs /\ status'[r] = status[r] /\ copyOf'[r] = copyOf[r]
      BY <1>1, <2>2, Sorts
    <3>3. copyOf[r] \in Ops
      BY <3>1 DEF Works
    <3>4. Works(copyOf[r])'
      BY <1>3, <3>1, <3>2, <3>3 DEF Works
    <3>5. QED
      BY <1>3, <3>1, <3>2, <3>3, <3>4
  <2>3. QED
    BY <2>1, <2>2
<1>11. CallInv'
  <2> SUFFICES ASSUME NEW u \in Threads
               PROVE  CallSound(u)'
    BY DEF CallInv
  <2>1. CASE u = t
    BY <1>1, <1>5, <2>1 DEF CallSound
  <2>2. CASE u # t
    <3>1. /\ CallSound(u) /\ call'[u] = call[u] /\ call[u] \in Frames
          /\ awake'[u] = awake[u] /\ copyOf'[u] = copyOf[u] /\ status'[u] = status[u]
      BY <1>3, <1>5, <2>2 DEF ControlInv, CallInv, ControlTypes
    <3>2. CASE call[u].what = "recv"
      <4>1. PICK p \in Ops : p = call[u].ops[1]
        BY <3>2, Sleepers
      <4>2. status'[p] = status[p]
        BY <1>3
      <4>3. QED
        BY <3>1, <3>2, <4>1, <4>2 DEF CallSound, Ended
    <3>3. CASE call[u].what = "wait"
      BY <3>1, <3>3 DEF CallSound, Ended
    <3>4. CASE call[u].what = "test"
      BY <1>3, <3>1, <3>4 DEF CallSound
    <3>5. CASE call[u].what = "any"
      <4>1. PICK d \in Frames : d = call[u]
        BY <3>1
      <4>2. /\ Len(d.copies) = Len(d.ops)
            /\ \A i \in 1 .. Len(d.ops) : copyOf[d.copies[i]] = d.ops[i]
        BY <3>1, <3>5, <4>1 DEF CallSound
      <4>3. \A i \in 1 .. Len(d.ops) : d.copies[i] \in Pool /\ ~In(d.copies[i], s)
        <5>1. \A i \in 1 .. Len(d.ops) : d.copies[i] \in Pool /\ d.ops[i] \in Ops
          BY <4>2 DEF Frames
        <5>2. QED
          BY <1>2, <4>2, <5>1, Sorts
      <4>4. \A i \in 1 .. Len(d.ops) : copyOf'[d.copies[i]] = d.ops[i]
        BY <1>1, <4>2, <4>3
      <4>5. QED
        BY <3>1, <3>5, <4>1, <4>2, <4>4 DEF CallSound
    <3>6. CASE call[u].what = "idle"
      BY <3>1, <3>6 DEF CallSound
    <3>7. QED
      BY <3>1, <3>2, <3>3, <3>4, <3>5, <3>6 DEF Frames
  <2>3. QED
    BY <2>1, <2>2
<1>12. PoolInv'
  <2>1. \A u \in Threads : u # t => call'[u].copies = call[u].copies
    BY <1>5
  <2>2. \A p : ~In(p, <<>>)
    BY DEF In
  <2>3. ASSUME NEW p \in Pool
        PROVE  copyOf'[p] # NoOp <=> \E u \in Threads : In(p, call'[u].copies)
    <3>1. copyOf[p] # NoOp <=> \E u \in Threads : In(p, call[u].copies)
      BY DEF ControlInv, PoolInv
    <3>2. copyOf'[p] # NoOp <=> copyOf[p] # NoOp \/ In(p, s)
      BY <1>6, Sorts DEF Replica
    <3>3. QED
      BY <1>5, <2>1, <2>2, <3>1, <3>2
  <2>4. \A u \in Threads : Once(call'[u].copies)
    BY <1>1, <1>5, <2>1 DEF ControlInv, PoolInv
  <2>5. \A u \in Threads : \A p \in Pool : In(p, call[u].copies) => ~In(p, s)
    BY <1>2 DEF ControlInv, PoolInv
  <2>6. \A u, v \in Threads : \A p \in Pool :
          In(p, call'[u].copies) /\ In(p, call'[v].copies) => u = v
    BY <1>5, <2>1, <2>5 DEF ControlInv, PoolInv
  <2>7. QED
    BY <2>3, <2>4, <2>6 DEF PoolInv
<1>13. QED
  BY <1>8, <1>9, <1>10, <1>11, <1>12 DEF ControlInv

\* What mcapi_check_resume answers to a receive.
LEMMA Answers ==
  ASSUME NEW e, NEW m
  PROVE  /\ [r \in PendingAt(e) |-> ReceiveStatus(e, m, r)]
              \in [PendingAt(e) -> Outcomes \ {"pending"}]
         /\ [r \in PendingAt(e) |-> "cancelled"] \in [PendingAt(e) -> Outcomes \ {"pending"}]
         /\ [r \in PendingAt(e) |-> "failed"] \in [PendingAt(e) -> Outcomes \ {"pending"}]
<1>1. \A r : ReceiveStatus(e, m, r) \in Outcomes \ {"pending"}
  BY DEF ReceiveStatus, Outcomes
<1>2. QED
  BY <1>1 DEF Outcomes

\* The invariant holds at first.
LEMMA ControlInit == Init => ControlInv
<1> SUFFICES ASSUME Init
             PROVE  ControlInv
  OBVIOUS
<1>1. /\ pending = <<>> /\ Len(pending) = 0 /\ \A r : ~Listed(r)
      /\ status = [r \in Structs |-> "unused"]
      /\ copyOf = [r \in Threads \cup Pool |-> NoOp]
      /\ call = [t \in Threads |-> Idle]
      /\ awake = [t \in Threads |-> FALSE]
  BY DEF Init, Listed, In
<1>2. \A r \in Threads \cup Pool : ~Replica(r)
  BY <1>1, Sorts DEF Replica, Idle
<1>3. ControlTypes
  <2>1. Idle \in Frames /\ "unused" \in Outcomes \cup {"unused"}
    BY DEF Frames, Idle
  <2>2. QED
    BY <1>1, <2>1 DEF ControlTypes
<1>4. ListInv
  BY <1>1, <1>2, Sorts DEF ListInv, Once
<1>5. ReplicaInv
  BY <1>2 DEF ReplicaInv
<1>6. CallInv
  BY <1>1 DEF CallInv, CallSound, Idle
<1>7. PoolInv
  BY <1>1 DEF PoolInv, Idle, In, Once
<1>8. QED
  BY <1>3, <1>4, <1>5, <1>6, <1>7 DEF ControlInv

\* Every step keeps it.
LEMMA ControlStep ==
  ASSUME ControlInv, [Next]_vars
  PROVE  ControlInv'
<1>1. ASSUME NEW m \in Packets, Arrive(m)
      PROVE  ControlInv'
  <2>1. /\ Resume(PendingAt(m.ep), [r \in PendingAt(m.ep) |-> ReceiveStatus(m.ep, m, r)])
        /\ UNCHANGED <<kind, copyOf, call>>
    BY <1>1 DEF Arrive
  <2>2. m.ep \in Endpoints
    BY RequestsAssumption
  <2>3. QED
    BY <2>1, <2>2, Answers, ControlResumed
<1>2. ASSUME NEW m \in Packets, ArriveNowhere(m)
      PROVE  ControlInv'
  BY <1>2, ControlSame DEF ArriveNowhere
<1>3. ASSUME NEW t \in Threads, NEW o \in Ops, ReceiveNow(t, o)
      PROVE  ControlInv'
  BY <1>3, ControlReceived
<1>4. ASSUME NEW t \in Threads, NEW o \in Ops, Wait(t, o)
      PROVE  ControlInv'
  BY <1>4, ControlWait
<1>5. ASSUME NEW t \in Threads, NEW o \in Ops, NEW blocks \in BOOLEAN,
             ReceiveLater(t, o, blocks)
      PROVE  ControlInv'
  BY <1>5, ControlLater
<1>6. ASSUME NEW t \in Threads, Proceed(t)
      PROVE  ControlInv'
  BY <1>6, ControlReceived, ControlWaitReturns, ControlAnyReturns, ControlTesting, ControlAttach
     DEF Proceed
<1>7. ASSUME NEW t \in Threads, TimeUp(t)
      PROVE  ControlInv'
  BY <1>7, ControlTimeUp
<1>8. ASSUME NEW t \in Threads, NEW list \in WaitLists, WaitAny(t, list)
      PROVE  ControlInv'
  BY <1>8, ControlTesting
<1>9. ASSUME NEW o \in Ops, Cancel(o)
      PROVE  ControlInv'
  <2>1. /\ Resume(PendingAt(OpOf[o].ep), [r \in PendingAt(OpOf[o].ep) |-> "cancelled"])
        /\ UNCHANGED <<kind, copyOf, call>>
    BY <1>9 DEF Cancel, data
  <2>2. QED
    BY <2>1, Answers, Sorts, ControlResumed
<1>10. ASSUME NEW o \in Ops, FreePacket(o)
       PROVE  ControlInv'
  BY <1>10, ControlSame DEF FreePacket
<1>11. ASSUME NEW e \in Endpoints, Shut(e) \/ Close(e) \/ Delete(e)
       PROVE  ControlInv'
  <2>1. /\ Resume(PendingAt(e), [r \in PendingAt(e) |-> "failed"])
        /\ UNCHANGED <<kind, copyOf, call>>
    BY <1>11 DEF Shut, Close, Delete, FailAll
  <2>2. QED
    BY <2>1, Answers, ControlResumed
<1>12. CASE UNCHANGED vars
  BY <1>12, ControlSame DEF vars, data
<1>13. QED
  BY <1>1, <1>2, <1>3, <1>4, <1>5, <1>6, <1>7, <1>8, <1>9, <1>10, <1>11, <1>12 DEF Next

\* The list, the replicas and the pool agree at all times.
THEOREM ListsAgree == Spec => []ControlInv
<1>1. ControlInv /\ [Next]_vars => ControlInv'
  BY ControlStep
<1>2. QED
  BY <1>1, ControlInit, PTL DEF Spec

\* A structure on the list is there once, and somebody answers for it.
THEOREM ListHoldsOnce == Spec => []ListedOnce
<1>1. ASSUME ControlInv
      PROVE  ListedOnce
  <2>1. \A i, j \in DOMAIN pending : pending[i] = pending[j] => i = j
    BY <1>1 DEF ControlInv, ControlTypes, ListInv, Once
  <2>2. ASSUME NEW r \in Elements(pending)
        PROVE  \/ r \in Ops /\ status[r] = "pending"
               \/ \E t \in Threads : r \in SleepsOn(t) /\ r \notin Ops
    <3>1. Listed(r) /\ r \in Structs
      BY <1>1, ElementsIn DEF Listed, ControlInv, ControlTypes
    <3>2. CASE r \in Ops
      BY <1>1, <3>1, <3>2 DEF ControlInv, ListInv
    <3>3. CASE r \in Threads
      <4>1. call[r].what = "wait"
        BY <1>1, <3>1, <3>3, Sorts DEF ControlInv, ListInv, Replica
      <4>2. QED
        BY <1>1, <3>3, <4>1, Sleepers, Sorts
    <3>4. CASE r \in Pool
      <4>1. copyOf[r] # NoOp
        BY <1>1, <3>1, <3>4, Sorts DEF ControlInv, ListInv, Replica
      <4>2. PICK t \in Threads : In(r, call[t].copies)
        BY <1>1, <3>4, <4>1 DEF ControlInv, PoolInv
      <4>3. call[t] \in Frames /\ CallSound(t)
        BY <1>1 DEF ControlInv, ControlTypes, CallInv
      <4>4. call[t].copies # <<>>
        BY <4>2 DEF In
      <4>5. call[t].what = "any"
        BY <4>3, <4>4 DEF CallSound, Frames, Idle
      <4>6. call[t].copies \in Seq(Pool)
        BY <4>3 DEF Frames
      <4>7. r \in SleepsOn(t)
        BY <4>2, <4>5, <4>6, ElementsIn DEF SleepsOn
      <4>8. QED
        BY <3>4, <4>7, Sorts
    <3>5. QED
      BY <3>1, <3>2, <3>3, <3>4, Sorts
  <2>3. QED
    BY <2>1, <2>2 DEF ListedOnce
<1>2. QED
  BY <1>1, ListsAgree, PTL

\* The structures of the pool in use are those of the threads in mcapi_wait_any, each in the
\* hands of one.
THEOREM PoolInBalance == Spec => []PoolBalanced
<1>1. ASSUME ControlInv
      PROVE  PoolBalanced
  <2>1. \A t \in Threads : /\ call[t].copies \in Seq(Pool)
                           /\ Elements(call[t].copies) \subseteq Pool
                           /\ \A p : p \in Elements(call[t].copies) <=> In(p, call[t].copies)
    <3>1. \A t \in Threads : call[t].copies \in Seq(Pool)
      BY <1>1 DEF ControlInv, ControlTypes, Frames
    <3>2. QED
      BY <3>1, ElementsIn
  <2>2. {p \in Pool : copyOf[p] # NoOp} = UNION {Elements(call[t].copies) : t \in Threads}
    <3>1. \A p : p \in UNION {Elements(call[t].copies) : t \in Threads}
                <=> \E t \in Threads : p \in Elements(call[t].copies)
      OBVIOUS
    <3>2. \A p : p \in {q \in Pool : copyOf[q] # NoOp}
                <=> \E t \in Threads : p \in Elements(call[t].copies)
      BY <1>1, <2>1 DEF ControlInv, PoolInv
    <3>3. QED
      BY <3>1, <3>2
  <2>3. \A t, u \in Threads : t # u =>
          Elements(call[t].copies) \cap Elements(call[u].copies) = {}
    BY <1>1, <2>1 DEF ControlInv, PoolInv
  <2>4. QED
    BY <2>2, <2>3 DEF PoolBalanced
<1>2. QED
  BY <1>1, ListsAgree, PTL

\* A thread suspended in a receive or in mcapi_wait is woken when the operation ends.
THEOREM EndedWakes == Spec => []WaiterWoken
<1>1. ASSUME ControlInv
      PROVE  WaiterWoken
  <2> SUFFICES ASSUME NEW t \in Threads, call[t].what \in {"recv", "wait"},
                      Ended(call[t].ops[1])
               PROVE  awake[t]
    BY DEF WaiterWoken
  <2>1. CallSound(t)
    BY <1>1 DEF ControlInv, CallInv
  <2>2. CASE call[t].what = "recv"
    BY <2>1, <2>2 DEF CallSound
  <2>3. CASE call[t].what = "wait"
    <3>1. call[t].ops[1] = copyOf[t] /\ Replica(t)
      BY <2>1, <2>3 DEF CallSound, Replica
    <3>2. Ended(t)
      BY <1>1, <3>1 DEF ControlInv, ReplicaInv, Ended
    <3>3. QED
      BY <2>1, <2>3, <3>2 DEF CallSound
  <2>4. QED
    BY <2>2, <2>3
<1>2. QED
  BY <1>1, ListsAgree, PTL

-----------------------------------------------------------------------------
(* The queues of the endpoints, and who waits for them.                    *)

\* What an endpoint may have in its queue: what came for it.  A scalar loses its size when
\* it was asked for with another width.
ItemsAt(e) == [id : {m.id : m \in {n \in Packets : n.ep = e}}, ep : {e}, size : Nat]

DataTypes ==
  /\ kind \in [Endpoints -> {"msg", "pkt", "scl"}]
  /\ state \in [Endpoints -> {"open", "shut", "closed", "deleted"}]
  /\ DOMAIN rxQueue = Endpoints /\ \A e \in Endpoints : rxQueue[e] \in Seq(ItemsAt(e))
  /\ DOMAIN given = Ops /\ \A o \in Ops : given[o] \in Seq(ItemsAt(OpOf[o].ep))
  /\ waits \in 0 .. MaxWaits

\* Nobody waits where there is data, or where none can come.
NoDataOps ==
  \A o \in Ops : status[o] = "pending" =>
    rxQueue[OpOf[o].ep] = <<>> /\ state[OpOf[o].ep] = "open"

WaitInv == ControlInv /\ DataTypes /\ NoDataOps

\* A packet is what its endpoint may queue.
LEMMA PacketIs ==
  ASSUME NEW m \in Packets
  PROVE  m.ep \in Endpoints /\ m \in ItemsAt(m.ep) /\ m.size \in Nat \ {0}
<1>1. m \in [id : {n.id : n \in Packets}, ep : Endpoints, size : Nat \ {0}]
  BY RequestsAssumption
<1>2. QED
  BY <1>1 DEF ItemsAt

\* The head of a queue goes into buffers.
LEMMA Gives ==
  ASSUME DataTypes, NEW e \in Endpoints, NEW q \in Seq(ItemsAt(e)), q # <<>>,
         NEW ops, \A o \in ops : o \in Ops /\ OpOf[o].ep = e, Give(q, ops)
  PROVE  DOMAIN given' = Ops /\ \A o \in Ops : given'[o] \in Seq(ItemsAt(OpOf[o].ep))
<1>1. PICK m \in ItemsAt(e) : m = Head(q)
  OBVIOUS
<1>2. given' = [o \in Ops |-> IF o \in ops THEN Append(given[o], m) ELSE given[o]]
  BY <1>1 DEF Give
<1>3. ASSUME NEW o \in Ops
      PROVE  given'[o] \in Seq(ItemsAt(OpOf[o].ep))
  <2>1. given[o] \in Seq(ItemsAt(OpOf[o].ep))
    BY DEF DataTypes
  <2>2. CASE o \in ops
    BY <1>2, <2>1, <2>2
  <2>3. CASE o \notin ops
    BY <1>2, <2>1, <2>3
  <2>4. QED
    BY <2>2, <2>3
<1>4. QED
  BY <1>2, <1>3

\* What remains of a queue.
LEMMA TailIs ==
  ASSUME NEW D, NEW q \in Seq(D), q # <<>>
  PROVE  /\ Tail(q) \in Seq(D) /\ Len(q) \in Nat /\ Len(q) > 0 /\ Len(Tail(q)) = Len(q) - 1
         /\ Head(q) = q[1] /\ Head(q) \in D
         /\ \A i \in 1 .. Len(Tail(q)) : i + 1 \in 1 .. Len(q) /\ Tail(q)[i] = q[i + 1]
  OBVIOUS

\* The head of a queue leaves it.
LEMMA Consumes ==
  ASSUME DataTypes, NEW e \in Endpoints, NEW q \in Seq(ItemsAt(e)), q # <<>>, Consume(e, q)
  PROVE  /\ DOMAIN rxQueue' = Endpoints /\ rxQueue'[e] = Tail(q)
         /\ \A f \in Endpoints : rxQueue'[f] \in Seq(ItemsAt(f))
         /\ \A f \in Endpoints : f # e => rxQueue'[f] = rxQueue[f]
<1>1. PICK r \in Seq(ItemsAt(e)) : r = Tail(q)
  BY TailIs
<1>2. rxQueue' = [rxQueue EXCEPT ![e] = r]
  BY <1>1 DEF Consume
<1>3. QED
  BY <1>1, <1>2 DEF DataTypes

\* A receive takes data from the queue of its endpoint only.
LEMMA Takes ==
  ASSUME DataTypes, NEW o \in Ops, rxQueue[OpOf[o].ep] # <<>>, Take(o),
         UNCHANGED <<kind, state, waits>>
  PROVE  /\ DataTypes'
         /\ \A f \in Endpoints : f # OpOf[o].ep => rxQueue'[f] = rxQueue[f]
<1> DEFINE e == OpOf[o].ep
<1>1. e \in Endpoints
  BY Sorts
<1>2. PICK q \in Seq(ItemsAt(e)) : q = rxQueue[e]
  BY <1>1 DEF DataTypes
<1>3. CASE Give(q, {o}) /\ Consume(e, q)
  <2>1. \A p \in {o} : p \in Ops /\ OpOf[p].ep = e
    OBVIOUS
  <2> HIDE DEF e
  <2>2. DOMAIN given' = Ops /\ \A p \in Ops : given'[p] \in Seq(ItemsAt(OpOf[p].ep))
    BY <1>1, <1>2, <1>3, <2>1, Gives DEF e
  <2>3. /\ DOMAIN rxQueue' = Endpoints
        /\ \A f \in Endpoints : rxQueue'[f] \in Seq(ItemsAt(f))
        /\ \A f \in Endpoints : f # e => rxQueue'[f] = rxQueue[f]
    BY <1>1, <1>2, <1>3, Consumes DEF e
  <2>4. QED
    BY <2>2, <2>3 DEF DataTypes, e
<1>4. CASE /\ rxQueue' = IF kind[e] = "scl" THEN [rxQueue EXCEPT ![e][1].size = 0]
                         ELSE rxQueue
           /\ given' = given
  <2>1. q[1] \in ItemsAt(e) /\ 1 \in 1 .. Len(q)
    BY <1>2
  <2>2. PICK d : d = [q[1] EXCEPT !.size = 0]
    OBVIOUS
  <2>3. d \in ItemsAt(e)
    BY <2>1, <2>2 DEF ItemsAt
  <2>4. PICK r : r = [q EXCEPT ![1] = d]
    OBVIOUS
  <2>5. r \in Seq(ItemsAt(e))
    BY <2>1, <2>3, <2>4
  <2>6. rxQueue' = rxQueue \/ rxQueue' = [rxQueue EXCEPT ![e] = r]
    BY <1>2, <1>4, <2>2, <2>4
  <2>7. QED
    BY <1>1, <1>4, <2>5, <2>6 DEF DataTypes
<1>5. QED
  BY <1>2, <1>3, <1>4 DEF Take

\* Nobody begins to wait, and where somebody goes on waiting nothing changes.
LEMMA NobodyNew ==
  ASSUME NoDataOps,
         \A o \in Ops : status'[o] = "pending" =>
           /\ status[o] = "pending"
           /\ rxQueue'[OpOf[o].ep] = rxQueue[OpOf[o].ep]
           /\ state'[OpOf[o].ep] = state[OpOf[o].ep]
  PROVE  NoDataOps'
  BY DEF NoDataOps

\* A structure that is listed for an endpoint stands for an operation there.
LEMMA OriginalsThere ==
  ASSUME ControlInv, NEW e \in Endpoints, NEW r \in PendingAt(e)
  PROVE  /\ Original(r) \in Ops /\ OpOf[Original(r)].ep = e
         /\ r \in Ops \/ (r \in Threads \cup Pool /\ Replica(r) /\ copyOf[r] = Original(r))
<1>1. r \in Structs /\ Listed(r) /\ Target(r) = e
  BY PendingThere DEF PendingAt
<1>2. CASE r \in Ops
  BY <1>1, <1>2 DEF Original, Target
<1>3. CASE r \in Threads \cup Pool
  <2>1. Replica(r)
    BY <1>1, <1>3 DEF ControlInv, ListInv
  <2>2. Original(r) = copyOf[r] /\ copyOf[r] \in Ops
    BY <1>3, <2>1, Sorts DEF Original, ControlInv, ReplicaInv, Works
  <2>3. QED
    BY <1>1, <1>3, <2>1, <2>2 DEF Target
<1>4. QED
  BY <1>1, <1>2, <1>3, Sorts

\* Once they are answered no operation at the endpoint is pending.
LEMMA NoneLeft ==
  ASSUME ControlInv, NEW e \in Endpoints,
         NEW result \in [PendingAt(e) -> Outcomes \ {"pending"}],
         Resume(PendingAt(e), result), NEW o \in Ops, status'[o] = "pending"
  PROVE  status[o] = "pending" /\ OpOf[o].ep # e
<1>1. o \in Structs
  BY Sorts
<1>2. status'[o] = IF o \in PendingAt(e) THEN result[o] ELSE status[o]
  BY <1>1 DEF Resume
<1>3. QED
  BY <1>2, PendingThere

\* A step of the application on its own data leaves everything else of this part alone.
LEMMA DataSame ==
  ASSUME DataTypes, UNCHANGED <<kind, state, rxQueue, given>>, waits' \in 0 .. MaxWaits
  PROVE  DataTypes'
  BY DEF DataTypes

\* What arrives is queued or handed out; nobody is left waiting there.
LEMMA WaitArrive ==
  ASSUME WaitInv, NEW m \in Packets, Arrive(m)
  PROVE  DataTypes' /\ NoDataOps'
<1> DEFINE e == m.ep
           q == Append(rxQueue[e], m)
           copied == Copied(e, m)
<1>1. e \in Endpoints /\ q \in Seq(ItemsAt(e)) /\ q # <<>>
  <2>1. e \in Endpoints /\ m \in ItemsAt(e) /\ rxQueue[e] \in Seq(ItemsAt(e))
    BY PacketIs DEF WaitInv, DataTypes
  <2>2. Append(rxQueue[e], m) \in Seq(ItemsAt(e)) /\ Len(Append(rxQueue[e], m)) # 0
    BY <2>1, Longer
  <2>3. QED
    BY <2>1, <2>2
<1>2. /\ Resume(PendingAt(e), [r \in PendingAt(e) |-> ReceiveStatus(e, m, r)])
      /\ Give(q, {Original(r) : r \in copied})
      /\ \/ copied # {} /\ Consume(e, q)
         \/ copied = {} /\ rxQueue' = [rxQueue EXCEPT ![e] = q]
      /\ UNCHANGED <<kind, state, waits>>
  BY DEF Arrive
<1>3. \A o \in {Original(r) : r \in copied} : o \in Ops /\ OpOf[o].ep = e
  BY <1>1, OriginalsThere DEF Copied, WaitInv
<1> HIDE DEF e, q, copied
<1>4. DOMAIN given' = Ops /\ \A o \in Ops : given'[o] \in Seq(ItemsAt(OpOf[o].ep))
  BY <1>1, <1>2, <1>3, Gives DEF WaitInv
<1>5. /\ DOMAIN rxQueue' = Endpoints
      /\ \A f \in Endpoints : rxQueue'[f] \in Seq(ItemsAt(f))
      /\ \A f \in Endpoints : f # e => rxQueue'[f] = rxQueue[f]
  <2>1. CASE Consume(e, q)
    BY <1>1, <2>1, Consumes DEF WaitInv
  <2>2. CASE rxQueue' = [rxQueue EXCEPT ![e] = q]
    BY <1>1, <2>2 DEF WaitInv, DataTypes
  <2>3. QED
    BY <1>2, <2>1, <2>2
<1>6. DataTypes'
  BY <1>2, <1>4, <1>5 DEF DataTypes, WaitInv
<1>7. \A o \in Ops : status'[o] = "pending" => status[o] = "pending" /\ OpOf[o].ep # e
  BY <1>1, <1>2, Answers, NoneLeft DEF WaitInv
<1>8. NoDataOps'
  BY <1>2, <1>5, <1>7, NobodyNew, Sorts DEF WaitInv
<1>9. QED
  BY <1>6, <1>8

\* A receive that takes data, or fails, leaves nobody waiting with data.
LEMMA WaitTake ==
  ASSUME WaitInv, NEW o \in Ops, status[o] # "pending",
         \/ rxQueue[OpOf[o].ep] # <<>> /\ Take(o)
         \/ Finish(o, "failed") /\ UNCHANGED <<rxQueue, given>>
         \/ UNCHANGED <<status, rxQueue, given>>,
         UNCHANGED <<kind, state, waits>>
  PROVE  DataTypes' /\ NoDataOps'
<1>1. \A p \in Ops : status'[p] = "pending" => status[p] = "pending"
  <2>1. status' = status \/ \E result : Settles(o, result)
    BY TakeSettles DEF Finish, Settles, Outcomes
  <2>2. QED
    BY <2>1, Sorts DEF Settles, WaitInv, ControlInv, ControlTypes
<1>2. CASE rxQueue[OpOf[o].ep] # <<>> /\ Take(o)
  <2>1. DataTypes' /\ \A f \in Endpoints : f # OpOf[o].ep => rxQueue'[f] = rxQueue[f]
    BY <1>2, Takes DEF WaitInv
  <2>2. \A p \in Ops : status[p] = "pending" => OpOf[p].ep # OpOf[o].ep
    BY <1>2 DEF WaitInv, NoDataOps
  <2>3. NoDataOps'
    BY <1>1, <2>1, <2>2, NobodyNew, Sorts DEF WaitInv
  <2>4. QED
    BY <2>1, <2>3
<1>3. CASE UNCHANGED <<rxQueue, given>>
  <2>1. DataTypes'
    BY <1>3, DataSame DEF WaitInv, DataTypes
  <2>2. QED
    BY <1>1, <1>3, <2>1, NobodyNew DEF WaitInv
<1>4. QED
  BY <1>2, <1>3

\* What is queued at an endpoint that goes away is given back, and nobody waits there.
LEMMA WaitGone ==
  ASSUME WaitInv, NEW e \in Endpoints, Shut(e) \/ Close(e) \/ Delete(e)
  PROVE  DataTypes' /\ NoDataOps'
<1>1. /\ Resume(PendingAt(e), [r \in PendingAt(e) |-> "failed"])
      /\ UNCHANGED <<kind, given, waits>>
      /\ \E s \in {"shut", "closed", "deleted"} : state' = [state EXCEPT ![e] = s]
      /\ rxQueue' = rxQueue \/ rxQueue' = [rxQueue EXCEPT ![e] = <<>>]
  BY DEF Shut, Close, Delete, FailAll, Drain
<1>2. DataTypes'
  <2>1. <<>> \in Seq(ItemsAt(e))
    OBVIOUS
  <2>2. DOMAIN rxQueue' = Endpoints /\ \A f \in Endpoints : rxQueue'[f] \in Seq(ItemsAt(f))
    BY <1>1, <2>1 DEF WaitInv, DataTypes
  <2>3. state' \in [Endpoints -> {"open", "shut", "closed", "deleted"}]
    BY <1>1 DEF WaitInv, DataTypes
  <2>4. QED
    BY <1>1, <2>2, <2>3 DEF WaitInv, DataTypes
<1>3. \A f \in Endpoints : f # e => rxQueue'[f] = rxQueue[f] /\ state'[f] = state[f]
  BY <1>1 DEF WaitInv, DataTypes
<1>4. \A o \in Ops : status'[o] = "pending" => status[o] = "pending" /\ OpOf[o].ep # e
  BY <1>1, Answers, NoneLeft DEF WaitInv
<1>5. NoDataOps'
  BY <1>3, <1>4, NobodyNew, Sorts DEF WaitInv
<1>6. QED
  BY <1>2, <1>5

\* A step on the list or the calls alone, after which no operation is pending that was not.
LEMMA WaitCalls ==
  ASSUME WaitInv, UNCHANGED <<kind, state, rxQueue, given>>, waits' \in 0 .. MaxWaits,
         \A o \in Ops : status'[o] = "pending" => status[o] = "pending"
  PROVE  DataTypes' /\ NoDataOps'
  BY DataSame, NobodyNew DEF WaitInv

\* At first nobody waits, and no queue has anything.
LEMMA WaitInit == Init => WaitInv
<1> SUFFICES ASSUME Init
             PROVE  WaitInv
  OBVIOUS
<1>1. ControlInv
  BY ControlInit
<1>2. /\ kind \in Kinds /\ state = [e \in Endpoints |-> "open"]
      /\ rxQueue = [e \in Endpoints |-> <<>>] /\ given = [o \in Ops |-> <<>>] /\ waits = 0
      /\ status = [r \in Structs |-> "unused"]
  BY DEF Init
<1>3. DataTypes
  <2>1. kind \in [Endpoints -> {"msg", "pkt", "scl"}] /\ waits \in 0 .. MaxWaits
    BY <1>2, RequestsAssumption
  <2>2. \A e : <<>> \in Seq(ItemsAt(e))
    OBVIOUS
  <2>3. QED
    BY <1>2, <2>1, <2>2 DEF DataTypes
<1>4. NoDataOps
  BY <1>2, Sorts DEF NoDataOps
<1>5. QED
  BY <1>1, <1>3, <1>4 DEF WaitInv

\* Every step keeps that nobody waits where there is data.
LEMMA WaitStep ==
  ASSUME WaitInv, [Next]_vars
  PROVE  WaitInv'
<1> DEFINE Stays == DataTypes' /\ NoDataOps'
<1>1. ControlInv'
  BY ControlStep DEF WaitInv
<1>2. waits \in 0 .. MaxWaits /\ (Count => waits' \in 0 .. MaxWaits)
  BY RequestsAssumption DEF WaitInv, DataTypes, Count
<1>3. status \in [Structs -> Outcomes \cup {"unused"}]
  BY DEF WaitInv, ControlInv, ControlTypes
<1>4. ASSUME NEW m \in Packets, ArriveNowhere(m)
      PROVE  Stays
  BY <1>2, <1>4, WaitCalls DEF ArriveNowhere
<1>5. ASSUME NEW t \in Threads, NEW o \in Ops, ReceiveNow(t, o)
      PROVE  Stays
  <2>1. /\ status[o] # "pending" /\ UNCHANGED <<kind, state, waits>>
        /\ \/ rxQueue[OpOf[o].ep] # <<>> /\ Take(o)
           \/ Finish(o, "failed") /\ UNCHANGED <<rxQueue, given>>
    BY <1>5 DEF ReceiveNow, Start
  <2>2. QED
    BY <2>1, WaitTake
<1>6. ASSUME NEW t \in Threads, NEW o \in Ops, Wait(t, o)
      PROVE  Stays
  <2>1. /\ Count /\ UNCHANGED <<kind, state, rxQueue, given>>
        /\ status' = [status EXCEPT ![t] = "pending"]
    BY <1>6 DEF Wait, data
  <2>2. \A p \in Ops : status'[p] = status[p]
    BY <1>3, <2>1, Sorts
  <2>3. QED
    BY <1>2, <2>1, <2>2, WaitCalls
<1>7. ASSUME NEW t \in Threads, NEW o \in Ops, NEW blocks \in BOOLEAN,
             ReceiveLater(t, o, blocks)
      PROVE  Stays
  <2>1. /\ UNCHANGED <<kind, state, rxQueue, given, waits>>
        /\ status' = [status EXCEPT ![o] = "pending"]
        /\ rxQueue[OpOf[o].ep] = <<>> /\ state[OpOf[o].ep] = "open"
    BY <1>7 DEF ReceiveLater, Finish, MayWait, data
  <2>2. DataTypes'
    BY <1>2, <2>1, DataSame DEF WaitInv
  <2>3. \A p \in Ops : p # o => status'[p] = status[p]
    BY <1>3, <2>1, Sorts
  <2>4. NoDataOps'
    BY <2>1, <2>3 DEF NoDataOps, WaitInv
  <2>5. QED
    BY <2>2, <2>4
<1>8. ASSUME NEW t \in Threads, ReceiveReturns(t)
      PROVE  Stays
  <2>1. /\ call[t].what = "recv" /\ awake[t] /\ UNCHANGED <<kind, state, waits>>
    BY <1>8 DEF ReceiveReturns
  <2>2. PICK o \in Ops : o = call[t].ops[1]
    BY <2>1, Sleepers DEF WaitInv
  <2>3. status[o] # "pending"
    BY <2>1, <2>2 DEF WaitInv, ControlInv, CallInv, CallSound, Ended
  <2>4. \/ rxQueue[OpOf[o].ep] # <<>> /\ Take(o)
        \/ Finish(o, "failed") /\ UNCHANGED <<rxQueue, given>>
        \/ UNCHANGED <<status, rxQueue, given>>
    BY <1>8, <2>2 DEF ReceiveReturns
  <2>5. QED
    BY <2>1, <2>3, <2>4, WaitTake
<1>9. ASSUME NEW t \in Threads, WaitReturns(t) \/ WaitAnyReturns(t)
      PROVE  Stays
  <2>1. status' = status \/ \E o, result : Settles(o, result)
    BY <1>9, ControlWaitReturns, ControlAnyReturns DEF WaitInv
  <2>2. \A p \in Ops : status'[p] = "pending" => status[p] = "pending"
    BY <1>3, <2>1, Sorts DEF Settles
  <2>3. UNCHANGED <<kind, state, rxQueue, given, waits>>
    BY <1>9 DEF WaitReturns, WaitAnyReturns, data
  <2>4. QED
    BY <1>2, <2>2, <2>3, WaitCalls
<1>10. ASSUME NEW t \in Threads, TestNext(t) \/ AttachFails(t)
       PROVE  Stays
  <2>1. UNCHANGED <<kind, state, rxQueue, given, waits, status>>
    BY <1>10 DEF TestNext, AttachFails, data
  <2>2. QED
    BY <1>2, <2>1, WaitCalls
<1>11. ASSUME NEW t \in Threads, AttachAll(t)
       PROVE  Stays
  <2>1. \A p \in Ops : status'[p] = status[p]
    <3>1. PICK s \in Seq(Pool) : \A r \in Structs : ~In(r, s) => status'[r] = status[r]
      BY <1>11, AttachEffect DEF WaitInv
    <3>2. \A p \in Ops : p \in Structs /\ ~In(p, s)
      BY Sorts DEF In
    <3>3. QED
      BY <3>1, <3>2
  <2>2. UNCHANGED <<kind, state, rxQueue, given, waits>>
    BY <1>11 DEF AttachAll, data
  <2>3. QED
    BY <1>2, <2>1, <2>2, WaitCalls
<1>12. ASSUME NEW t \in Threads, TimeUp(t)
       PROVE  Stays
  <2>1. UNCHANGED <<kind, state, rxQueue, given, waits, status>>
    BY <1>12 DEF TimeUp, data
  <2>2. QED
    BY <1>2, <2>1, WaitCalls
<1>13. ASSUME NEW t \in Threads, NEW list \in WaitLists, WaitAny(t, list)
       PROVE  Stays
  <2>1. Count /\ UNCHANGED <<kind, state, rxQueue, given, status>>
    BY <1>13 DEF WaitAny, data
  <2>2. QED
    BY <1>2, <2>1, WaitCalls
<1>14. ASSUME NEW o \in Ops, Cancel(o)
       PROVE  Stays
  <2>1. /\ Resume(PendingAt(OpOf[o].ep), [r \in PendingAt(OpOf[o].ep) |-> "cancelled"])
        /\ Count /\ UNCHANGED <<kind, state, rxQueue, given>>
    BY <1>14 DEF Cancel, data
  <2>2. \A p \in Ops : status'[p] = "pending" => status[p] = "pending"
    BY <2>1, Answers, Sorts, NoneLeft DEF WaitInv
  <2>3. QED
    BY <1>2, <2>1, <2>2, WaitCalls
<1>15. ASSUME NEW o \in Ops, FreePacket(o)
       PROVE  Stays
  BY <1>2, <1>15, WaitCalls DEF FreePacket
<1>16. ASSUME UNCHANGED vars
       PROVE  Stays
  <2>1. UNCHANGED <<kind, state, rxQueue, given, waits, status>>
    BY <1>16 DEF vars, data
  <2>2. \A p \in Ops : status'[p] = status[p]
    BY <2>1
  <2>3. QED
    BY <1>2, <2>1, <2>2, WaitCalls
<1>17. ASSUME NEW t \in Threads, Proceed(t)
       PROVE  Stays
  BY <1>8, <1>9, <1>10, <1>11, <1>17 DEF Proceed
<1>18. ASSUME NEW m \in Packets, Arrive(m)
       PROVE  Stays
  BY <1>18, WaitArrive
<1>19. ASSUME NEW e \in Endpoints, Shut(e) \/ Close(e) \/ Delete(e)
       PROVE  Stays
  BY <1>19, WaitGone
<1> HIDE DEF Stays
<1>20. Stays
  BY <1>4, <1>5, <1>6, <1>7, <1>12, <1>13, <1>14, <1>15, <1>16, <1>17, <1>18, <1>19 DEF Next
<1>21. QED
  BY <1>1, <1>20 DEF WaitInv, Stays

\* The lists, the queues and who waits for them agree at all times.
THEOREM WaitsAgree == Spec => []WaitInv
<1>1. WaitInv /\ [Next]_vars => WaitInv'
  BY WaitStep
<1>2. QED
  BY <1>1, WaitInit, PTL DEF Spec

\* The variables keep to what the structures hold.
THEOREM TypeCorrect == Spec => []TypeOK
<1>1. ASSUME WaitInv
      PROVE  TypeOK
  <2>1. \A e \in Endpoints : \A i \in DOMAIN rxQueue[e] : rxQueue[e][i].ep = e
    <3>1. ASSUME NEW e \in Endpoints, NEW i \in DOMAIN rxQueue[e]
          PROVE  rxQueue[e][i] \in ItemsAt(e)
      <4>1. rxQueue[e] \in Seq(ItemsAt(e))
        BY <1>1 DEF WaitInv, DataTypes
      <4>2. QED
        BY <4>1
    <3>2. QED
      BY <3>1 DEF ItemsAt
  <2>2. \A t \in Threads : /\ call[t].what \in {"idle", "recv", "wait", "test", "any"}
                           /\ call[t].ops \in Seq(Ops)
    BY <1>1 DEF WaitInv, ControlInv, ControlTypes, Frames
  <2>3. QED
    BY <1>1, <2>1, <2>2 DEF WaitInv, ControlInv, ControlTypes, DataTypes, TypeOK
<1>2. QED
  BY <1>1, WaitsAgree, PTL

\* Whoever still waits for data, or stands for somebody who does, waits at an open endpoint
\* that has none.
THEOREM NobodyMissesData == Spec => []NoDataWhileWaiting
<1>1. ASSUME WaitInv
      PROVE  NoDataWhileWaiting
  <2> SUFFICES ASSUME NEW r \in Elements(pending), status[r] = "pending"
               PROVE  rxQueue[Target(r)] = <<>> /\ state[Target(r)] = "open"
    BY DEF NoDataWhileWaiting
  <2>1. Listed(r) /\ r \in Structs
    BY <1>1, ElementsIn DEF Listed, WaitInv, ControlInv, ControlTypes
  <2>2. CASE r \in Ops
    BY <1>1, <2>2 DEF Target, Original, WaitInv, NoDataOps
  <2>3. CASE r \in Threads \cup Pool
    <3>1. Replica(r)
      BY <1>1, <2>1, <2>3 DEF WaitInv, ControlInv, ListInv
    <3>2. copyOf[r] \in Ops /\ status[copyOf[r]] = "pending"
      BY <1>1, <2>3, <3>1 DEF WaitInv, ControlInv, ReplicaInv, Works
    <3>3. Original(r) = copyOf[r]
      BY <2>3, Sorts DEF Original
    <3>4. QED
      BY <1>1, <3>2, <3>3 DEF Target, WaitInv, NoDataOps
  <2>4. QED
    BY <2>1, <2>2, <2>3, Sorts
<1>2. QED
  BY <1>1, WaitsAgree, PTL

-----------------------------------------------------------------------------
(* The data of the operations.  In mcapi_check_resume the status of one    *)
(* request becomes that of the next, and a larger buffer behind a small    *)
(* one is filled but told it was truncated; what follows is about          *)
(* endpoints whose pending receives have buffers of one size.              *)

EqualBuffers ==
  \A k \in Kinds : \A o, p \in Ops :
    k[OpOf[o].ep] = "msg" /\ OpOf[o].ep = OpOf[p].ep => OpOf[o].size = OpOf[p].size

\* A replica has the status of its operation, and none is listed that was not pending.
ReplicasSame ==
  /\ \A r \in Threads \cup Pool : Replica(r) => status[r] = status[copyOf[r]]
  /\ \A p \in Pool : Listed(p) => status[p] = "pending"

\* An operation has data once, and exactly when it reports success.
OneBuffer ==
  \A o \in Ops : /\ Len(given[o]) <= 1
                 /\ given[o] # <<>> => status[o] = "success"
                 /\ kind[OpOf[o].ep] # "scl" /\ status[o] = "success" => given[o] # <<>>

\* A blocked receive of a scalar has no data yet, and is in the hands of one thread.
BlockedOnce ==
  /\ \A t \in Threads : call[t].what = "recv" /\ kind[OpOf[call[t].ops[1]].ep] = "scl"
                          => given[call[t].ops[1]] = <<>>
  /\ \A t, u \in Threads :
       call[t].what = "recv" /\ call[u].what = "recv" /\ call[t].ops[1] = call[u].ops[1]
         => t = u

SuccessInv == kind \in Kinds /\ (~late => ReplicasSame /\ OneBuffer /\ BlockedOnce)

\* No replica more than before, nothing given and no status changed.
LEMMA SuccessLess ==
  ASSUME WaitInv, SuccessInv, UNCHANGED <<kind, status, given>>, ~late' => ~late,
         \A r \in Threads \cup Pool : Replica(r)' => Replica(r) /\ copyOf'[r] = copyOf[r],
         \A p \in Pool : Listed(p)' => Listed(p),
         \A u \in Threads : call'[u].what = "recv" => call'[u] = call[u]
  PROVE  SuccessInv'
<1> SUFFICES ASSUME ~late'
             PROVE  ReplicasSame' /\ OneBuffer' /\ BlockedOnce'
  BY DEF SuccessInv
<1>1. ReplicasSame /\ OneBuffer /\ BlockedOnce
  BY DEF SuccessInv
<1>2. ReplicasSame'
  BY <1>1 DEF ReplicasSame
<1>3. OneBuffer'
  BY <1>1 DEF OneBuffer
<1>4. BlockedOnce'
  BY <1>1 DEF BlockedOnce
<1>5. QED
  BY <1>2, <1>3, <1>4

\* An operation that has no data, is not replicated, and is in no other call, ends.
LEMMA SuccessTaken ==
  ASSUME WaitInv, SuccessInv, ~late, UNCHANGED <<kind, copyOf, pending>>,
         NEW o \in Ops, given[o] = <<>>,
         \/ rxQueue[OpOf[o].ep] # <<>> /\ Take(o)
         \/ Finish(o, "failed") /\ given' = given,
         \A r \in Threads \cup Pool : Replica(r) => copyOf[r] # o,
         \A u \in Threads : call'[u].what = "wait" => call[u].what = "wait",
         \A u \in Threads : call'[u].what = "recv" =>
           call'[u] = call[u] /\ (kind[OpOf[o].ep] = "scl" => call[u].ops[1] # o),
         kind[OpOf[o].ep] # "scl" =>
           \A u \in Threads : call'[u].what = "recv" => call'[u].ops[1] # o
  PROVE  ReplicasSame' /\ OneBuffer' /\ BlockedOnce'
<1>1. ReplicasSame /\ OneBuffer /\ BlockedOnce
  BY DEF SuccessInv
<1>2. PICK x \in Outcomes :
        /\ status' = [status EXCEPT ![o] = x]
        /\ x = "success" => given' = [p \in Ops |-> IF p = o
                                        THEN Append(given[p], Head(rxQueue[OpOf[o].ep]))
                                        ELSE given[p]]
        /\ x # "success" => given' = given
  BY DEF Take, Finish, Give, Outcomes
<1>3. /\ status'[o] = x /\ \A r \in Structs : r # o => status'[r] = status[r]
      /\ \A p \in Ops : p # o => given'[p] = given[p]
      /\ x # "success" => given'[o] = <<>>
      /\ x = "success" => given'[o] # <<>> /\ Len(given'[o]) = 1
  <2>1. status \in [Structs -> Outcomes \cup {"unused"}] /\ o \in Structs /\ DOMAIN given = Ops
    BY Sorts DEF WaitInv, ControlInv, ControlTypes, DataTypes
  <2>2. PICK h : h = Head(rxQueue[OpOf[o].ep])
    OBVIOUS
  <2>3. Append(<<>>, h) # <<>> /\ Len(Append(<<>>, h)) = 1
    OBVIOUS
  <2>4. /\ status'[o] = x /\ \A r \in Structs : r # o => status'[r] = status[r]
        /\ \A p \in Ops : p # o => given'[p] = given[p]
        /\ x # "success" => given'[o] = <<>>
    BY <1>2, <2>1
  <2>5. ASSUME x = "success"
        PROVE  given'[o] = Append(<<>>, h)
    BY <1>2, <2>2, <2>5
  <2>6. QED
    BY <2>3, <2>4, <2>5
<1>4. ReplicasSame'
  <2>1. \A r \in Threads \cup Pool : Replica(r)' => Replica(r)
    BY Sorts DEF Replica
  <2>2. \A r \in Threads \cup Pool : r \in Structs /\ r # o
    BY Sorts
  <2>3. \A r \in Threads \cup Pool : Replica(r) => copyOf[r] \in Structs
    BY Sorts DEF WaitInv, ControlInv, ReplicaInv, Works
  <2>4. \A r \in Threads \cup Pool : Listed(r)' <=> Listed(r)
    BY DEF Listed
  <2>5. \A r \in Threads \cup Pool : Replica(r)' => status'[r] = status'[copyOf'[r]]
    BY <1>1, <1>3, <2>1, <2>2, <2>3 DEF ReplicasSame
  <2>6. QED
    BY <1>1, <1>3, <2>2, <2>4, <2>5 DEF ReplicasSame
<1>5. OneBuffer'
  <2> SUFFICES ASSUME NEW p \in Ops
               PROVE  /\ Len(given'[p]) <= 1
                      /\ given'[p] # <<>> => status'[p] = "success"
                      /\ kind[OpOf[p].ep] # "scl" /\ status'[p] = "success" => given'[p] # <<>>
    BY DEF OneBuffer
  <2>1. CASE p = o
    <3>1. Len(<<>>) = 0
      OBVIOUS
    <3>2. CASE x = "success"
      <4>1. Len(given'[o]) = 1 /\ given'[o] # <<>> /\ status'[o] = x
        BY <1>3, <3>2
      <4>2. Len(given'[o]) <= 1
        BY <4>1
      <4>3. QED
        BY <2>1, <3>2, <4>1, <4>2
    <3>3. CASE x # "success"
      <4>1. given'[o] = <<>> /\ status'[o] = x
        BY <1>3, <3>3
      <4>2. QED
        BY <2>1, <3>1, <3>3, <4>1
    <3>4. QED
      BY <3>2, <3>3
  <2>2. CASE p # o
    BY <1>1, <1>3, <2>2, Sorts DEF OneBuffer
  <2>3. QED
    BY <2>1, <2>2
<1>6. BlockedOnce'
  <2>1. \A u \in Threads : call'[u].what = "recv" =>
          call'[u] = call[u] /\ call[u].ops[1] \in Ops /\ call[u].ops[1] # o
    BY Sleepers DEF WaitInv
  <2>2. QED
    BY <1>1, <1>3, <2>1 DEF BlockedOnce
<1>7. QED
  BY <1>4, <1>5, <1>6

\* What a replica and its operation have in common once they are answered.
LEMMA Together ==
  ASSUME WaitInv, ReplicasSame, NEW e \in Endpoints, NEW r \in Threads \cup Pool, Replica(r)
  PROVE  /\ r \in PendingAt(e) <=> copyOf[r] \in PendingAt(e)
         /\ r \in PendingAt(e) => status[copyOf[r]] = "pending"
<1>1. copyOf[r] \in Ops /\ status[r] = status[copyOf[r]]
  BY DEF WaitInv, ControlInv, ReplicaInv, Works, ReplicasSame
<1>2. Listed(r) <=> status[r] = "pending"
  BY DEF WaitInv, ControlInv, ListInv, ReplicasSame
<1>3. QED
  BY <1>1, <1>2, PendingThere DEF WaitInv

\* Everybody pending at an endpoint is told the same, and given data only with success.
LEMMA SuccessResumed ==
  ASSUME WaitInv, SuccessInv, NEW e \in Endpoints,
         NEW result, Resume(PendingAt(e), result),
         NEW x \in Outcomes \ {"pending"}, \A r \in PendingAt(e) : result[r] = x,
         UNCHANGED <<kind, copyOf, call, late>>, NEW new, Len(new) = 1, new # <<>>,
         ~late => \A o \in Ops :
           given'[o] = IF x = "success" /\ kind[e] # "scl" /\ o \in PendingAt(e)
                       THEN new ELSE given[o]
  PROVE  SuccessInv'
<1> SUFFICES ASSUME ~late
             PROVE  ReplicasSame' /\ OneBuffer' /\ BlockedOnce'
  BY DEF SuccessInv
<1>1. ReplicasSame /\ OneBuffer /\ BlockedOnce
  BY DEF SuccessInv
<1> DEFINE S == PendingAt(e)
<1>2. /\ \A r : r \in S => r \in Structs /\ Listed(r)
      /\ \A o \in Ops : o \in S <=> status[o] = "pending" /\ OpOf[o].ep = e
      /\ \A r \in Threads \cup Pool : r \in S <=> Listed(r) /\ OpOf[copyOf[r]].ep = e
  BY PendingThere DEF WaitInv
<1>3. \A r \in Structs : status'[r] = IF r \in S THEN x ELSE status[r]
  BY DEF Resume
<1>4. \A r : Listed(r)' <=> Listed(r) /\ r \notin S
  BY WithoutIs DEF Resume, Listed, WaitInv, ControlInv, ControlTypes
<1>5. \A r \in Threads \cup Pool : Replica(r) => (r \in S <=> copyOf[r] \in S)
  BY <1>1, Together
<1> HIDE DEF S
<1>6. ReplicasSame'
  <2>1. \A r \in Threads \cup Pool : Replica(r) => r \in Structs /\ copyOf[r] \in Structs
    BY Sorts DEF WaitInv, ControlInv, ReplicaInv, Works
  <2>2. \A r \in Threads \cup Pool : Replica(r)' <=> Replica(r)
    BY DEF Replica
  <2>3. \A p \in Pool : Listed(p)' => status'[p] = "pending"
    BY <1>1, <1>3, <1>4, Sorts DEF ReplicasSame
  <2>4. QED
    BY <1>1, <1>3, <1>5, <2>1, <2>2, <2>3 DEF ReplicasSame
<1>7. \A o \in Ops : given'[o] = IF x = "success" /\ kind[e] # "scl" /\ o \in S
                                 THEN new ELSE given[o]
  BY DEF S
<1>8. OneBuffer'
  <2> SUFFICES ASSUME NEW o \in Ops
               PROVE  /\ Len(given'[o]) <= 1
                      /\ given'[o] # <<>> => status'[o] = "success"
                      /\ kind[OpOf[o].ep] # "scl" /\ status'[o] = "success" => given'[o] # <<>>
    BY DEF OneBuffer
  <2>1. /\ Len(given[o]) <= 1
        /\ given[o] # <<>> => status[o] = "success"
        /\ kind[OpOf[o].ep] # "scl" /\ status[o] = "success" => given[o] # <<>>
    BY <1>1 DEF OneBuffer
  <2>2. o \in Structs
    BY Sorts
  <2>3. CASE o \in S
    <3>1. given[o] = <<>> /\ OpOf[o].ep = e /\ status'[o] = x
      BY <1>2, <1>3, <2>1, <2>2, <2>3
    <3>2. Len(<<>>) = 0
      OBVIOUS
    <3>3. CASE x = "success" /\ kind[e] # "scl"
      <4>1. given'[o] = new
        BY <1>7, <2>3, <3>1, <3>3
      <4>2. Len(new) <= 1
        OBVIOUS
      <4>3. QED
        BY <3>1, <3>3, <4>1, <4>2
    <3>4. CASE ~(x = "success" /\ kind[e] # "scl")
      <4>1. given'[o] = <<>>
        BY <1>7, <3>1, <3>4
      <4>2. QED
        BY <3>1, <3>2, <3>4, <4>1
    <3>5. QED
      BY <3>3, <3>4
  <2>4. CASE o \notin S
    BY <1>3, <1>7, <2>1, <2>2, <2>4
  <2>5. QED
    BY <2>3, <2>4
<1>9. BlockedOnce'
  <2>1. \A u \in Threads : call[u].what = "recv" => call[u].ops[1] \in Ops
    BY Sleepers DEF WaitInv
  <2>2. \A o \in Ops : kind[OpOf[o].ep] = "scl" => given'[o] = given[o]
    BY <1>2, <1>7
  <2>3. QED
    BY <1>1, <2>1, <2>2 DEF BlockedOnce
<1>10. QED
  BY <1>6, <1>8, <1>9

\* The answer to a message is the same for all who wait for it where buffers have one size,
\* and they are given the message exactly if it is success.
LEMMA SuccessArrive ==
  ASSUME EqualBuffers, WaitInv, SuccessInv, NEW m \in Packets, Arrive(m)
  PROVE  SuccessInv'
<1> DEFINE e == m.ep
           small == kind[e] = "msg" /\ \E q \in PendingAt(e) : ~Fits(m, Original(q))
           x == IF small THEN "truncated" ELSE "success"
           result == [r \in PendingAt(e) |-> ReceiveStatus(e, m, r)]
<1>1. PICK h : h = Head(Append(rxQueue[e], m))
  OBVIOUS
<1> DEFINE new == Append(<<>>, h)
<1>2. /\ Resume(PendingAt(e), result)
      /\ given' = [o \in Ops |-> IF o \in {Original(r) : r \in Copied(e, m)}
                                 THEN Append(given[o], h) ELSE given[o]]
      /\ UNCHANGED <<kind, copyOf, call, late>>
  BY <1>1 DEF Arrive, Give
<1>3. e \in Endpoints /\ kind \in Kinds /\ kind[e] \in {"msg", "pkt", "scl"}
  BY PacketIs DEF SuccessInv, WaitInv, DataTypes
<1>4. \A r \in PendingAt(e) : Original(r) \in Ops /\ OpOf[Original(r)].ep = e
  BY <1>3, OriginalsThere DEF WaitInv
<1>5. small => \A r \in PendingAt(e) : ~Fits(m, Original(r))
  BY <1>3, <1>4 DEF EqualBuffers, Fits
<1>6. \A r \in PendingAt(e) : result[r] = x
  <2> SUFFICES ASSUME NEW r \in PendingAt(e)
               PROVE  ReceiveStatus(e, m, r) = x
    OBVIOUS
  <2>1. Place(r) <= Place(r)
    <3>1. Listed(r)
      BY <1>3, PendingThere DEF WaitInv
    <3>2. \E i \in DOMAIN pending : pending[i] = r
      BY <3>1 DEF Listed, In, WaitInv, ControlInv, ControlTypes
    <3>3. Place(r) \in DOMAIN pending
      BY <3>2 DEF Place
    <3>4. Place(r) \in Nat
      BY <3>3 DEF WaitInv, ControlInv, ControlTypes
    <3>5. QED
      BY <3>4
  <2>2. QED
    BY <1>5, <2>1 DEF ReceiveStatus
<1>7. ASSUME ~late, NEW o \in Ops
      PROVE  given'[o] = IF x = "success" /\ kind[e] # "scl" /\ o \in PendingAt(e)
                         THEN new ELSE given[o]
  <2>1. x = "success" /\ kind[e] # "scl" => \A r : r \in Copied(e, m) <=> r \in PendingAt(e)
    BY <1>3 DEF Copied
  <2>2. ~(x = "success" /\ kind[e] # "scl") => \A r : r \notin Copied(e, m)
    BY <1>3, <1>5 DEF Copied
  <2>3. o \in {Original(r) : r \in PendingAt(e)} <=> o \in PendingAt(e)
    <3>1. o \in PendingAt(e) => Original(o) = o
      BY DEF Original
    <3>2. ASSUME NEW r \in PendingAt(e), Original(r) = o
          PROVE  o \in PendingAt(e)
      <4>1. \/ r \in Ops
            \/ r \in Threads \cup Pool /\ Replica(r) /\ copyOf[r] = o
        BY <1>3, <3>2, OriginalsThere DEF WaitInv
      <4>2. CASE r \in Ops
        BY <3>2, <4>2 DEF Original
      <4>3. CASE r \in Threads \cup Pool /\ Replica(r) /\ copyOf[r] = o
        BY <1>3, <1>7, <4>3, Together DEF SuccessInv
      <4>4. QED
        BY <4>1, <4>2, <4>3
    <3>3. QED
      BY <3>1, <3>2
  <2>4. o \in PendingAt(e) => given[o] = <<>>
    BY <1>3, <1>7, PendingThere DEF WaitInv, SuccessInv, OneBuffer
  <2> HIDE DEF x
  <2>5. CASE x = "success" /\ kind[e] # "scl"
    BY <1>2, <2>1, <2>3, <2>4, <2>5
  <2>6. CASE ~(x = "success" /\ kind[e] # "scl")
    BY <1>2, <2>2, <2>6
  <2>7. QED
    BY <2>5, <2>6
<1>8. x \in Outcomes \ {"pending"}
  BY DEF Outcomes
<1>9. Len(new) = 1 /\ new # <<>>
  OBVIOUS
<1> HIDE DEF e, x, result, new
<1>10. QED
  BY <1>2, <1>3, <1>6, <1>7, <1>8, <1>9, SuccessResumed

\* An operation joins the list.
LEMMA SuccessLater ==
  ASSUME WaitInv, SuccessInv, NEW t \in Threads, NEW o \in Ops, NEW blocks \in BOOLEAN,
         ReceiveLater(t, o, blocks)
  PROVE  SuccessInv'
<1>1. /\ call[t] = Idle /\ status[o] = "unused"
      /\ status' = [status EXCEPT ![o] = "pending"] /\ pending' = Append(pending, o)
      /\ call' = [call EXCEPT ![t] = IF blocks THEN Doing("recv", <<o>>, 0, <<>>) ELSE Idle]
      /\ UNCHANGED <<kind, copyOf, given, late>>
  BY DEF ReceiveLater, Start, Finish, data
<1> SUFFICES ASSUME ~late
             PROVE  ReplicasSame' /\ OneBuffer' /\ BlockedOnce'
  BY <1>1 DEF SuccessInv
<1>2. ReplicasSame /\ OneBuffer /\ BlockedOnce
  BY DEF SuccessInv
<1>3. /\ \A r \in Threads \cup Pool : Replica(r) => copyOf[r] # o
      /\ \A u \in Threads : call[u].what = "recv" => call[u].ops[1] # o
  BY <1>1, Fresh DEF WaitInv
<1>4. /\ status'[o] = "pending" /\ \A r \in Structs : r # o => status'[r] = status[r]
  BY <1>1, Sorts DEF WaitInv, ControlInv, ControlTypes
<1>5. \A p \in Pool : Listed(p)' => Listed(p)
  <2>1. \A r : Listed(r)' <=> Listed(r) \/ r = o
    BY <1>1, Longer, Sorts DEF Listed, WaitInv, ControlInv, ControlTypes
  <2>2. QED
    BY <2>1, Sorts
<1>6. /\ \A u \in Threads : u # t => call'[u] = call[u]
      /\ call'[t] = Idle \/ call'[t] = Doing("recv", <<o>>, 0, <<>>)
  BY <1>1 DEF WaitInv, ControlInv, ControlTypes
<1>7. ReplicasSame'
  <2>1. \A r \in Threads \cup Pool : Replica(r)' => Replica(r)
    BY <1>1, <1>6, Sorts DEF Replica, Idle, Doing
  <2>2. \A r \in Threads \cup Pool : Replica(r) =>
          r \in Structs /\ r # o /\ copyOf[r] \in Structs
    BY Sorts DEF WaitInv, ControlInv, ReplicaInv, Works
  <2>3. \A p \in Pool : p \in Structs /\ p # o
    BY Sorts
  <2>4. \A r \in Threads \cup Pool : Replica(r)' => status'[r] = status'[copyOf'[r]]
    BY <1>1, <1>2, <1>3, <1>4, <2>1, <2>2 DEF ReplicasSame
  <2>5. QED
    BY <1>2, <1>4, <1>5, <2>3, <2>4 DEF ReplicasSame
<1>8. given[o] = <<>>
  BY <1>1, <1>2 DEF OneBuffer
<1>9. OneBuffer'
  <2> SUFFICES ASSUME NEW p \in Ops
               PROVE  /\ Len(given[p]) <= 1
                      /\ given[p] # <<>> => status'[p] = "success"
                      /\ kind[OpOf[p].ep] # "scl" /\ status'[p] = "success" => given[p] # <<>>
    BY <1>1 DEF OneBuffer
  <2>1. Len(given[p]) <= 1
    BY <1>2 DEF OneBuffer
  <2>2. CASE p = o
    BY <1>4, <1>8, <2>1, <2>2
  <2>3. CASE p # o
    BY <1>2, <1>4, <2>3, Sorts DEF OneBuffer
  <2>4. QED
    BY <2>2, <2>3
<1>10. BlockedOnce'
  <2>1. call'[t].what = "recv" => call'[t].ops[1] = o
    BY <1>6 DEF Idle, Doing
  <2>2. \A u \in Threads : call'[u].what = "recv" => given[call'[u].ops[1]] = <<>>
                                                     \/ (u # t /\ call'[u] = call[u])
    BY <1>6, <1>8, <2>1
  <2>3. \A u \in Threads : call'[u].what = "recv" /\ kind[OpOf[call'[u].ops[1]].ep] = "scl"
                              => given[call'[u].ops[1]] = <<>>
    BY <1>2, <2>2 DEF BlockedOnce
  <2>4. \A u \in Threads : u # t /\ call'[u].what = "recv" => call'[u].ops[1] # o
    BY <1>3, <1>6
  <2>5. \A u, v \in Threads :
          call'[u].what = "recv" /\ call'[v].what = "recv" /\ call'[u].ops[1] = call'[v].ops[1]
            => u = v
    BY <1>2, <1>6, <2>1, <2>4 DEF BlockedOnce
  <2>6. QED
    BY <1>1, <2>3, <2>5 DEF BlockedOnce
<1>11. QED
  BY <1>7, <1>9, <1>10

\* A replica of mcapi_wait joins the list.
LEMMA SuccessWait ==
  ASSUME WaitInv, SuccessInv, NEW t \in Threads, NEW o \in Ops, Wait(t, o)
  PROVE  SuccessInv'
<1>1. /\ status[o] = "pending" /\ call[t] = Idle
      /\ status' = [status EXCEPT ![t] = "pending"] /\ pending' = Append(pending, t)
      /\ copyOf' = [copyOf EXCEPT ![t] = o]
      /\ call' = [call EXCEPT ![t] = Doing("wait", <<o>>, 0, <<>>)]
      /\ UNCHANGED <<kind, given, late>>
  BY DEF Wait, data
<1> SUFFICES ASSUME ~late
             PROVE  ReplicasSame' /\ OneBuffer' /\ BlockedOnce'
  BY <1>1 DEF SuccessInv
<1>2. ReplicasSame /\ OneBuffer /\ BlockedOnce
  BY DEF SuccessInv
<1>3. /\ status'[t] = "pending" /\ \A r \in Structs : r # t => status'[r] = status[r]
      /\ copyOf'[t] = o /\ \A r \in Threads \cup Pool : r # t => copyOf'[r] = copyOf[r]
      /\ call'[t].what = "wait" /\ \A u \in Threads : u # t => call'[u] = call[u]
  BY <1>1, Sorts DEF WaitInv, ControlInv, ControlTypes, Doing
<1>4. \A p \in Pool : Listed(p)' => Listed(p)
  <2>1. \A r : Listed(r)' <=> Listed(r) \/ r = t
    BY <1>1, Longer, Sorts DEF Listed, WaitInv, ControlInv, ControlTypes
  <2>2. QED
    BY <2>1, Sorts
<1>5. ReplicasSame'
  <2>1. \A r \in Threads \cup Pool : r # t /\ Replica(r)' => Replica(r)
    BY <1>3, Sorts DEF Replica
  <2>2. \A r \in Threads \cup Pool : Replica(r) =>
          r \in Structs /\ copyOf[r] \in Structs /\ copyOf[r] # t
    BY Sorts DEF WaitInv, ControlInv, ReplicaInv, Works
  <2>3. \A p \in Pool : p \in Structs /\ p # t
    BY Sorts
  <2>4. status'[o] = "pending"
    BY <1>1, <1>3, Sorts
  <2>5. ASSUME NEW r \in Threads \cup Pool, Replica(r)'
        PROVE  status'[r] = status'[copyOf'[r]]
    <3>1. CASE r = t
      BY <1>3, <2>4, <3>1
    <3>2. CASE r # t
      BY <1>2, <1>3, <2>1, <2>2, <2>5, <3>2 DEF ReplicasSame
    <3>3. QED
      BY <3>1, <3>2
  <2>6. QED
    BY <1>2, <1>3, <1>4, <2>3, <2>5 DEF ReplicasSame
<1>6. OneBuffer'
  <2>1. \A p \in Ops : status'[p] = status[p]
    BY <1>3, Sorts
  <2>2. QED
    BY <1>1, <1>2, <2>1 DEF OneBuffer
<1>7. BlockedOnce'
  <2>1. \A u \in Threads : call'[u].what = "recv" => call'[u] = call[u]
    BY <1>3
  <2>2. QED
    BY <1>1, <1>2, <2>1 DEF BlockedOnce
<1>8. QED
  BY <1>5, <1>6, <1>7

\* The replicas of mcapi_wait_any join the list, none of them late.
LEMMA SuccessAttach ==
  ASSUME WaitInv, SuccessInv, NEW t \in Threads, AttachAll(t)
  PROVE  SuccessInv'
<1>1. ControlInv
  BY DEF WaitInv
<1>2. PICK c \in Frames, s \in Seq(Pool) :
        /\ c = call[t] /\ c.what = "test" /\ c.copies = <<>> /\ Len(s) = Len(c.ops)
        /\ \A i \in 1 .. Len(c.ops) : /\ Works(c.ops[i])
                                      /\ copyOf[s[i]] = NoOp /\ copyOf'[s[i]] = c.ops[i]
                                      /\ status'[s[i]] = status[c.ops[i]]
        /\ Once(s)
        /\ pending' = pending \o s
        /\ call' = [call EXCEPT ![t] = Doing("any", c.ops, 0, s)]
        /\ awake' = [awake EXCEPT ![t] = FALSE]
        /\ copyOf' \in [Threads \cup Pool -> Ops \cup {NoOp}]
        /\ status' \in [Structs -> Outcomes \cup {"unused"}]
        /\ \A r \in Structs : ~In(r, s) => status'[r] = status[r]
        /\ \A r \in Threads \cup Pool : ~In(r, s) => copyOf'[r] = copyOf[r]
        /\ kind' = kind
  BY <1>1, AttachEffect
<1>3. /\ given' = given
      /\ late' = (late \/ \E o \in Elements(c.ops) : status[o] # "pending")
  BY <1>2 DEF AttachAll, data
<1> SUFFICES ASSUME ~late'
             PROVE  ReplicasSame' /\ OneBuffer' /\ BlockedOnce'
  BY <1>2 DEF SuccessInv
<1>4. ReplicasSame /\ OneBuffer /\ BlockedOnce
  BY <1>3 DEF SuccessInv
<1>5. \A i \in 1 .. Len(c.ops) : c.ops[i] \in Ops /\ status[c.ops[i]] = "pending"
  <2>1. \A i \in 1 .. Len(c.ops) : c.ops[i] \in Elements(c.ops)
    BY DEF Frames, Elements
  <2>2. QED
    BY <1>2, <1>3, <2>1 DEF Works
<1>6. /\ \A r : In(r, s) => r \in Pool /\ status'[r] = "pending" /\ copyOf'[r] \in Ops
                            /\ status[copyOf'[r]] = "pending"
      /\ \A o \in Ops : status'[o] = status[o]
      /\ \A u \in Threads : copyOf'[u] = copyOf[u]
  <2>1. \A i \in 1 .. Len(s) : s[i] \in Pool
    OBVIOUS
  <2>2. \A r : In(r, s) => r \in Pool /\ status'[r] = "pending" /\ copyOf'[r] \in Ops
                           /\ status[copyOf'[r]] = "pending"
    BY <1>2, <1>5, <2>1 DEF In
  <2>3. QED
    BY <1>2, <2>2, Sorts
<1>7. \A u \in Threads : call'[u].what = "any" \/ call'[u] = call[u]
  BY <1>2 DEF WaitInv, ControlInv, ControlTypes, Doing
<1>8. \A r : Listed(r)' <=> Listed(r) \/ In(r, s)
  <2>1. s \in Seq(Structs) /\ pending \in Seq(Structs)
    BY Sorts DEF WaitInv, ControlInv, ControlTypes
  <2>2. QED
    BY <1>2, <2>1, Joined DEF Listed
<1>9. ReplicasSame'
  <2>1. ASSUME NEW r \in Threads \cup Pool, Replica(r)'
        PROVE  status'[r] = status'[copyOf'[r]]
    <3>1. CASE In(r, s)
      BY <1>6, <3>1
    <3>2. CASE ~In(r, s)
      <4>1. Replica(r) /\ copyOf'[r] = copyOf[r] /\ r \in Structs /\ status'[r] = status[r]
        BY <1>2, <1>7, <2>1, <3>2, Sorts DEF Replica
      <4>2. copyOf[r] \in Ops
        BY <4>1 DEF WaitInv, ControlInv, ReplicaInv, Works
      <4>3. QED
        BY <1>4, <1>6, <4>1, <4>2 DEF ReplicasSame
    <3>3. QED
      BY <3>1, <3>2
  <2>2. \A p \in Pool : Listed(p)' => status'[p] = "pending"
    BY <1>2, <1>4, <1>6, <1>8, Sorts DEF ReplicasSame
  <2>3. QED
    BY <2>1, <2>2 DEF ReplicasSame
<1>10. OneBuffer'
  BY <1>2, <1>3, <1>4, <1>6 DEF OneBuffer
<1>11. BlockedOnce'
  <2>1. \A u \in Threads : call'[u].what = "recv" => call'[u] = call[u]
    BY <1>7
  <2>2. QED
    <3>1. \A u \in Threads : call'[u].what = "recv" /\ kind'[OpOf[call'[u].ops[1]].ep] = "scl"
                              => given'[call'[u].ops[1]] = <<>>
      <4>1. kind' = kind /\ given' = given
        BY <1>2, <1>3
      <4>2. QED
        BY <1>4, <2>1, <4>1 DEF BlockedOnce
    <3>2. \A u, v \in Threads :
             call'[u].what = "recv" /\ call'[v].what = "recv" /\ call'[u].ops[1] = call'[v].ops[1]
               => u = v
      BY <1>4, <2>1 DEF BlockedOnce
    <3>3. QED
      BY <3>1, <3>2 DEF BlockedOnce
<1>12. QED
  BY <1>9, <1>10, <1>11

\* A receive that does not wait.
LEMMA SuccessNow ==
  ASSUME WaitInv, SuccessInv, NEW t \in Threads, NEW o \in Ops, ReceiveNow(t, o)
  PROVE  SuccessInv'
<1>1. /\ status[o] = "unused" /\ UNCHANGED <<kind, copyOf, pending, call, late>>
      /\ \/ rxQueue[OpOf[o].ep] # <<>> /\ Take(o)
         \/ Finish(o, "failed") /\ given' = given
  BY DEF ReceiveNow, Start
<1> SUFFICES ASSUME ~late
             PROVE  ReplicasSame' /\ OneBuffer' /\ BlockedOnce'
  BY <1>1 DEF SuccessInv
<1>2. given[o] = <<>>
  BY <1>1 DEF SuccessInv, OneBuffer
<1>3. /\ \A r \in Threads \cup Pool : Replica(r) => copyOf[r] # o
      /\ \A u \in Threads : call[u].what = "recv" => call[u].ops[1] # o
  BY <1>1, Fresh DEF WaitInv
<1>4. QED
  BY <1>1, <1>2, <1>3, SuccessTaken

\* A blocked receive goes on: that of a scalar takes what is there, the others have been
\* served.
LEMMA SuccessReturns ==
  ASSUME WaitInv, SuccessInv, NEW t \in Threads, ReceiveReturns(t)
  PROVE  SuccessInv'
<1>1. /\ call[t].what = "recv" /\ call' = [call EXCEPT ![t] = Idle]
      /\ UNCHANGED <<kind, copyOf, pending, late>>
  BY DEF ReceiveReturns
<1>2. PICK o \in Ops : o = call[t].ops[1]
  BY <1>1, Sleepers DEF WaitInv
<1>3. /\ call'[t] = Idle /\ Idle.what = "idle"
      /\ \A u \in Threads : u # t => call'[u] = call[u]
  BY <1>1 DEF WaitInv, ControlInv, ControlTypes, Idle
<1>4. CASE UNCHANGED <<status, given>>
  <2>1. \A r \in Threads \cup Pool : /\ Replica(r)' => Replica(r) /\ copyOf'[r] = copyOf[r]
                                     /\ Listed(r)' <=> Listed(r)
    BY <1>1, <1>3, Sorts DEF Replica, Listed
  <2>2. \A u \in Threads : call'[u].what = "recv" => call'[u] = call[u]
    BY <1>3
  <2>3. QED
    BY <1>1, <1>4, <2>1, <2>2, SuccessLess
<1>5. CASE /\ kind[OpOf[o].ep] = "scl"
           /\ \/ rxQueue[OpOf[o].ep] # <<>> /\ Take(o)
              \/ Finish(o, "failed") /\ given' = given
  <2> SUFFICES ASSUME ~late
               PROVE  ReplicasSame' /\ OneBuffer' /\ BlockedOnce'
    BY <1>1 DEF SuccessInv
  <2>1. given[o] = <<>>
    BY <1>1, <1>2, <1>5 DEF SuccessInv, BlockedOnce
  <2>2. \A r \in Threads \cup Pool : Replica(r) => copyOf[r] # o
    BY <1>5 DEF WaitInv, ControlInv, ReplicaInv, Works
  <2>3. \A u \in Threads : call'[u].what = "recv" =>
          u # t /\ call'[u] = call[u] /\ call[u].ops[1] # o
    BY <1>1, <1>2, <1>3 DEF SuccessInv, BlockedOnce
  <2>4. \A u \in Threads : call'[u].what = "wait" => call[u].what = "wait"
    BY <1>3
  <2>5. QED
    BY <1>1, <1>5, <2>1, <2>2, <2>3, <2>4, SuccessTaken
<1>6. QED
  BY <1>2, <1>4, <1>5 DEF ReceiveReturns

\* A wait passes on what its operation has already, and its replicas are gone.
LEMMA SuccessWaited ==
  ASSUME WaitInv, SuccessInv, NEW t \in Threads, WaitReturns(t) \/ WaitAnyReturns(t)
  PROVE  SuccessInv'
<1>1. /\ call[t].what \in {"wait", "any"} /\ call' = [call EXCEPT ![t] = Idle]
      /\ UNCHANGED <<kind, given, late>>
  BY DEF WaitReturns, WaitAnyReturns, data
<1> SUFFICES ASSUME ~late
             PROVE  SuccessInv'
  BY <1>1 DEF SuccessInv
<1>2. /\ status \in [Structs -> Outcomes \cup {"unused"}] /\ ControlInv /\ ReplicasSame
  BY DEF WaitInv, ControlInv, ControlTypes, SuccessInv
<1>3. status' = status
  <2>1. \/ status' = status
        \/ \E r \in Threads \cup Pool : /\ Replica(r) /\ copyOf[r] \in Ops
                                        /\ status' = [status EXCEPT ![copyOf[r]] = status[r]]
    <3>1. CASE WaitReturns(t)
      <4>1. Replica(t)
        BY <3>1 DEF WaitReturns, Replica
      <4>2. copyOf[t] \in Ops
        BY <1>2, <4>1 DEF ControlInv, ReplicaInv, Works
      <4>3. QED
        BY <3>1, <4>1, <4>2 DEF WaitReturns
    <3>2. CASE WaitAnyReturns(t)
      BY <1>2, <3>2, ControlAnyReturns DEF Settles
    <3>3. QED
      BY <3>1, <3>2
  <2>2. ASSUME NEW r \in Threads \cup Pool, Replica(r), copyOf[r] \in Ops,
               status' = [status EXCEPT ![copyOf[r]] = status[r]]
        PROVE  status' = status
    <3>1. status[r] = status[copyOf[r]]
      BY <1>2, <2>2 DEF ReplicasSame
    <3>2. QED
      BY <1>2, <2>2, <3>1
  <2>3. QED
    BY <2>1, <2>2
<1>4. \A r \in Threads \cup Pool : copyOf'[r] = copyOf[r] \/ (copyOf'[r] = NoOp /\ r \in Pool)
  <2>1. CASE WaitReturns(t)
    BY <2>1 DEF WaitReturns
  <2>2. CASE WaitAnyReturns(t)
    <3>1. call[t].copies \in Seq(Pool)
      BY <1>2, <2>2, ReplicaOf DEF WaitAnyReturns
    <3>2. Elements(call[t].copies) \subseteq Pool
      BY <3>1, ElementsIn
    <3>3. DOMAIN copyOf = Threads \cup Pool
      BY <1>2 DEF ControlInv, ControlTypes
    <3>4. QED
      BY <2>2, <3>2, <3>3 DEF WaitAnyReturns
  <2>3. QED
    BY <2>1, <2>2
<1>5. \A u \in Threads : call'[u] = call[u] \/ call'[u].what = "idle"
  BY <1>1, <1>2 DEF ControlInv, ControlTypes, Idle
<1>6. \A r \in Threads \cup Pool : Replica(r)' => Replica(r) /\ copyOf'[r] = copyOf[r]
  BY <1>4, <1>5, Sorts DEF Replica
<1>7. \A p \in Pool : Listed(p)' => Listed(p)
  <2>1. pending' = pending \/ \E S : pending' = Without(S)
    BY DEF WaitReturns, WaitAnyReturns
  <2>2. \A S : \A r : In(r, Without(S)) => In(r, pending)
    BY <1>2, WithoutIs DEF ControlInv, ControlTypes
  <2>3. QED
    BY <2>1, <2>2 DEF Listed
<1>8. \A u \in Threads : call'[u].what = "recv" => call'[u] = call[u]
  BY <1>5
<1>9. QED
  BY <1>1, <1>3, <1>6, <1>7, <1>8, SuccessLess

\* At first no operation has data, or a status.
LEMMA SuccessInit == Init => SuccessInv
<1> SUFFICES ASSUME Init
             PROVE  SuccessInv
  OBVIOUS
<1>1. /\ kind \in Kinds /\ pending = <<>> /\ Len(pending) = 0
      /\ status = [r \in Structs |-> "unused"] /\ copyOf = [r \in Threads \cup Pool |-> NoOp]
      /\ call = [t \in Threads |-> Idle] /\ given = [o \in Ops |-> <<>>]
  BY DEF Init
<1>2. ReplicasSame
  BY <1>1, Sorts DEF ReplicasSame, Replica, Listed, In, Idle
<1>3. OneBuffer
  <2>1. Len(<<>>) <= 1
    OBVIOUS
  <2>2. QED
    BY <1>1, <2>1, Sorts DEF OneBuffer
<1>4. BlockedOnce
  BY <1>1 DEF BlockedOnce, Idle
<1>5. QED
  BY <1>1, <1>2, <1>3, <1>4 DEF SuccessInv

\* Every step keeps the status and the buffer of each operation together.
LEMMA SuccessStep ==
  ASSUME EqualBuffers, WaitInv, SuccessInv, [Next]_vars
  PROVE  SuccessInv'
<1> DEFINE Quiet == /\ UNCHANGED <<kind, status, given, late, copyOf, pending>>
                    /\ \A u \in Threads : \/ call'[u] = call[u]
                                          \/ call'[u].what \in {"idle", "test"}
<1>1. ASSUME Quiet
      PROVE  SuccessInv'
  <2>1. \A r \in Threads \cup Pool : /\ Replica(r)' => Replica(r)
                                     /\ Listed(r)' <=> Listed(r)
    BY <1>1, Sorts DEF Replica, Listed
  <2>2. \A u \in Threads : call'[u].what = "recv" => call'[u] = call[u]
    BY <1>1
  <2>3. QED
    BY <1>1, <2>1, <2>2, SuccessLess
<1>2. call \in [Threads -> Frames]
  BY DEF WaitInv, ControlInv, ControlTypes
<1>3. ASSUME NEW t \in Threads,
             \/ \E list \in WaitLists : WaitAny(t, list)
             \/ TestNext(t) \/ AttachFails(t) \/ TimeUp(t)
      PROVE  SuccessInv'
  <2>1. UNCHANGED <<kind, status, given, late, copyOf, pending>>
    BY <1>3 DEF WaitAny, TestNext, AttachFails, TimeUp, data
  <2>2. \A u \in Threads : call'[u] = call[u] \/ call'[u].what \in {"idle", "test"}
    <3>1. CASE TestNext(t)
      <4>1. PICK c \in Frames : c = call[t]
        BY <1>2
      <4>2. [c EXCEPT !.at = @ + 1].what = c.what
        BY DEF Frames
      <4>3. QED
        BY <1>2, <3>1, <4>1, <4>2 DEF TestNext, Idle
    <3>2. CASE \E list \in WaitLists : WaitAny(t, list)
      BY <1>2, <3>2 DEF WaitAny, Doing
    <3>3. CASE AttachFails(t) \/ TimeUp(t)
      BY <1>2, <3>3 DEF AttachFails, TimeUp, Idle
    <3>4. QED
      BY <1>3, <3>1, <3>2, <3>3
  <2>3. QED
    BY <1>1, <2>1, <2>2
<1>4. ASSUME \/ \E m \in Packets : ArriveNowhere(m)
             \/ \E o \in Ops : FreePacket(o)
             \/ UNCHANGED vars
      PROVE  SuccessInv'
  <2>1. UNCHANGED <<kind, status, given, late, copyOf, pending, call>>
    BY <1>4 DEF ArriveNowhere, FreePacket, vars, data
  <2>2. QED
    BY <1>1, <2>1
<1>5. ASSUME NEW e \in Endpoints, NEW x \in {"cancelled", "failed"},
             Resume(PendingAt(e), [r \in PendingAt(e) |-> x]),
             UNCHANGED <<kind, copyOf, call, late, given>>
      PROVE  SuccessInv'
  <2>1. x \in Outcomes \ {"pending"} /\ x # "success"
    BY DEF Outcomes
  <2>2. PICK result : result = [r \in PendingAt(e) |-> x]
    OBVIOUS
  <2>3. \A r \in PendingAt(e) : result[r] = x
    BY <2>2
  <2>4. PICK new : Len(new) = 1 /\ new # <<>>
    <3>1. Len(<<0>>) = 1 /\ <<0>> # <<>>
      OBVIOUS
    <3>2. QED
      BY <3>1
  <2>5. \A o \in Ops : given'[o] = IF x = "success" /\ kind[e] # "scl" /\ o \in PendingAt(e)
                                   THEN new ELSE given[o]
    BY <1>5, <2>1
  <2>6. QED
    BY <1>5, <2>1, <2>2, <2>3, <2>4, <2>5, SuccessResumed
<1>6. ASSUME NEW o \in Ops, Cancel(o)
      PROVE  SuccessInv'
  BY <1>5, <1>6, Sorts DEF Cancel, data
<1>7. ASSUME NEW e \in Endpoints, Shut(e) \/ Close(e) \/ Delete(e)
      PROVE  SuccessInv'
  BY <1>5, <1>7 DEF Shut, Close, Delete, FailAll
<1>8. ASSUME NEW t \in Threads, Proceed(t)
      PROVE  SuccessInv'
  BY <1>3, <1>8, SuccessReturns, SuccessWaited, SuccessAttach DEF Proceed
<1>9. ASSUME NEW t \in Threads, NEW o \in Ops,
             \/ ReceiveNow(t, o) \/ Wait(t, o)
             \/ \E blocks \in BOOLEAN : ReceiveLater(t, o, blocks)
      PROVE  SuccessInv'
  BY <1>9, SuccessNow, SuccessWait, SuccessLater
<1>10. ASSUME NEW m \in Packets, Arrive(m)
       PROVE  SuccessInv'
  BY <1>10, SuccessArrive
<1>11. QED
  BY <1>3, <1>4, <1>6, <1>7, <1>8, <1>9, <1>10 DEF Next

\* Where buffers have one size, what an operation reports is what is in its buffer.
THEOREM SuccessAgrees ==
  ASSUME EqualBuffers
  PROVE  Spec => []SuccessInv
<1>1. WaitInv /\ SuccessInv /\ [Next]_vars => SuccessInv'
  BY SuccessStep
<1>2. QED
  BY <1>1, SuccessInit, WaitsAgree, PTL DEF Spec

\* A receive that the application may ask about has data exactly if it reports success.
THEOREM DataWithSuccess ==
  ASSUME EqualBuffers
  PROVE  Spec => []SuccessHasData
<1>1. SuccessInv => SuccessHasData
  BY DEF SuccessInv, OneBuffer, SuccessHasData, Posted
<1>2. QED
  BY <1>1, SuccessAgrees, PTL

-----------------------------------------------------------------------------
(* Where the packets are.  All receives pending at an endpoint are given   *)
(* the same buffer; what follows is about endpoints at which one packet    *)
(* receive is pending at a time.                                           *)

OneReceive == MaxPending["pkt"] <= 1

OnePacket ==
  \A o, p \in Ops :
    kind[OpOf[o].ep] = "pkt" /\ OpOf[o].ep = OpOf[p].ep
      /\ status[o] = "pending" /\ status[p] = "pending" => o = p

Distinct(s) == \A i, j \in 1 .. Len(s) : s[i].id = s[j].id => i = j
QueueOnce == \A e \in Endpoints : Distinct(rxQueue[e])

\* The packet is in the buffer of an operation.
Got(id) == \E o \in Ops : given[o] # <<>> /\ given[o][1].id = id

\* A packet has not come, or is queued, or was handed out, or was given back.
Kept(m) ==
  \/ m.id \notin arrived /\ m.id \notin Ids(rxQueue[m.ep]) /\ m.id \notin dropped /\ ~Got(m.id)
  \/ m.id \in arrived /\ m.id \in Ids(rxQueue[m.ep]) /\ m.id \notin dropped /\ ~Got(m.id)
  \/ /\ m.id \in arrived /\ m.id \notin Ids(rxQueue[m.ep])
     /\ m.id \in dropped <=> ~Got(m.id)

\* A buffer was given to one operation, and is held until that is freed.
PacketOnce ==
  \A o, p \in Ops :
    kind[OpOf[o].ep] = "pkt" /\ given[o] # <<>> /\ given[p] # <<>>
      /\ given[o][1].id = given[p][1].id => o = p
HeldInv ==
  /\ freed \subseteq Ops /\ \A o \in freed : given[o] # <<>>
  /\ held = {given[o][1].id : o \in HandedOut}

PacketsIn == (\A m \in Packets : Kept(m)) /\ QueueOnce /\ PacketOnce /\ HeldInv

PacketInv == OnePacket /\ (~late => PacketsIn)

\* What is in a queue.
LEMMA IdsIn ==
  ASSUME NEW D, NEW s \in Seq(D)
  PROVE  \A x : x \in Ids(s) <=> \E i \in 1 .. Len(s) : s[i].id = x
<1>1. DOMAIN s = 1 .. Len(s)
  OBVIOUS
<1>2. QED
  BY <1>1 DEF Ids

\* A queue that is longer by one that was not in it.
LEMMA IdsAppend ==
  ASSUME NEW D, NEW s \in Seq(D), NEW d \in D, Distinct(s), d.id \notin Ids(s)
  PROVE  /\ Distinct(Append(s, d))
         /\ \A x : x \in Ids(Append(s, d)) <=> x \in Ids(s) \/ x = d.id
<1>1. PICK a \in Seq(D) : a = Append(s, d)
  BY Longer
<1>2. /\ Len(s) \in Nat /\ Len(a) = Len(s) + 1
      /\ \A i \in 1 .. Len(s) : a[i] = s[i] /\ i \in 1 .. Len(a)
      /\ a[Len(s) + 1] = d /\ Len(s) + 1 \in 1 .. Len(a)
      /\ \A i \in 1 .. Len(a) : i \in 1 .. Len(s) \/ i = Len(s) + 1
  BY <1>1
<1>3. /\ \A x : x \in Ids(s) <=> \E i \in 1 .. Len(s) : s[i].id = x
      /\ \A x : x \in Ids(a) <=> \E i \in 1 .. Len(a) : a[i].id = x
  BY IdsIn
<1>4. \A i, j \in 1 .. Len(a) : a[i].id = a[j].id => i = j
  BY <1>2, <1>3 DEF Distinct
<1>5. \A x : x \in Ids(a) <=> x \in Ids(s) \/ x = d.id
  BY <1>2, <1>3
<1>6. QED
  BY <1>1, <1>4, <1>5 DEF Distinct

\* A queue without its head.
LEMMA IdsTail ==
  ASSUME NEW D, NEW s \in Seq(D), s # <<>>, Distinct(s)
  PROVE  /\ Distinct(Tail(s))
         /\ \A x : x \in Ids(Tail(s)) <=> x \in Ids(s) /\ x # Head(s).id
         /\ Head(s).id \in Ids(s)
<1>1. PICK a \in Seq(D) : a = Tail(s)
  BY TailIs
<1>2. /\ Len(s) \in Nat /\ Len(s) > 0 /\ Len(a) = Len(s) - 1 /\ Head(s) = s[1]
      /\ \A i \in 1 .. Len(a) : i + 1 \in 1 .. Len(s) /\ a[i] = s[i + 1]
  BY <1>1, TailIs
<1>3. /\ 1 \in 1 .. Len(s)
      /\ \A i \in 1 .. Len(s) : i = 1 \/ (i - 1 \in 1 .. Len(a) /\ i = (i - 1) + 1)
      /\ \A i \in 1 .. Len(a) : i + 1 # 1
      /\ \A i, j \in 1 .. Len(a) : i + 1 = j + 1 => i = j
  BY <1>2
<1>4. /\ \A x : x \in Ids(s) <=> \E i \in 1 .. Len(s) : s[i].id = x
      /\ \A x : x \in Ids(a) <=> \E i \in 1 .. Len(a) : a[i].id = x
  BY IdsIn
<1>5. \A i, j \in 1 .. Len(a) : a[i].id = a[j].id => i = j
  BY <1>2, <1>3 DEF Distinct
<1>6. ASSUME NEW x
      PROVE  x \in Ids(a) <=> x \in Ids(s) /\ x # Head(s).id
  <2>1. ASSUME NEW i \in 1 .. Len(a), a[i].id = x
        PROVE  x \in Ids(s) /\ x # Head(s).id
    BY <1>2, <1>3, <1>4, <2>1 DEF Distinct
  <2>2. ASSUME NEW i \in 1 .. Len(s), s[i].id = x, x # Head(s).id
        PROVE  x \in Ids(a)
    <3>1. i - 1 \in 1 .. Len(a) /\ a[i - 1] = s[i]
      BY <1>2, <1>3, <2>2
    <3>2. QED
      BY <1>4, <2>2, <3>1
  <2>3. QED
    BY <1>4, <2>1, <2>2
<1>7. Head(s).id \in Ids(s)
  BY <1>2, <1>3, <1>4
<1>8. QED
  BY <1>1, <1>5, <1>6, <1>7 DEF Distinct

\* What is queued at an endpoint is for it.
LEMMA QueuedThere ==
  ASSUME DataTypes, NEW e \in Endpoints, NEW x \in Ids(rxQueue[e])
  PROVE  /\ \E n \in Packets : n.ep = e /\ n.id = x
         /\ \A n \in Packets : n.id = x => n.ep = e
<1>1. rxQueue[e] \in Seq(ItemsAt(e))
  BY DEF DataTypes
<1>2. PICK i \in 1 .. Len(rxQueue[e]) : rxQueue[e][i].id = x
  BY <1>1, IdsIn
<1>3. rxQueue[e][i] \in ItemsAt(e)
  BY <1>1
<1>4. \E n \in Packets : n.ep = e /\ n.id = x
  BY <1>2, <1>3 DEF ItemsAt
<1>5. QED
  BY <1>4, RequestsAssumption

\* The operations of G at e, which had nothing, get the buffer with the packet x.
Handed(e, G, new, x) ==
  /\ e \in Endpoints /\ G \subseteq Ops /\ G # {}
  /\ \A o \in G : OpOf[o].ep = e /\ given[o] = <<>>
  /\ kind[e] = "pkt" => \A o, p \in G : o = p
  /\ new # <<>> /\ new[1].id = x /\ ~Got(x)
  /\ \A o \in Ops : given'[o] = IF o \in G THEN new ELSE given[o]
  /\ held' = IF kind[e] = "pkt" THEN held \cup {x} ELSE held
  /\ UNCHANGED <<kind, freed>>

\* A buffer is handed to operations that had none.
LEMMA HandOver ==
  ASSUME PacketOnce, HeldInv, NEW e, NEW G, NEW new, NEW x, Handed(e, G, new, x)
  PROVE  /\ PacketOnce' /\ HeldInv'
         /\ \A y : Got(y)' <=> Got(y) \/ y = x
<1>1. /\ e \in Endpoints /\ G \subseteq Ops /\ G # {}
      /\ \A o \in G : OpOf[o].ep = e /\ given[o] = <<>>
      /\ kind[e] = "pkt" => \A o, p \in G : o = p
      /\ new # <<>> /\ new[1].id = x /\ ~Got(x)
      /\ \A o \in Ops : given'[o] = IF o \in G THEN new ELSE given[o]
      /\ held' = IF kind[e] = "pkt" THEN held \cup {x} ELSE held
      /\ UNCHANGED <<kind, freed>>
  BY DEF Handed
<1>2. \A o \in Ops : o \notin G => given'[o] = given[o] /\ (given[o] # <<>> => given[o][1].id # x)
  BY <1>1 DEF Got
<1>3. \A o \in G : given'[o] = new /\ given[o] = <<>> /\ OpOf[o].ep = e
  BY <1>1
<1>4. PacketOnce'
  <2> SUFFICES ASSUME NEW o \in Ops, NEW p \in Ops, kind[OpOf[o].ep] = "pkt",
                      given'[o] # <<>>, given'[p] # <<>>, given'[o][1].id = given'[p][1].id
               PROVE  o = p
    BY <1>1 DEF PacketOnce
  <2>1. CASE o \in G /\ p \in G
    BY <1>1, <1>3, <2>1
  <2>2. CASE o \in G /\ p \notin G
    BY <1>1, <1>2, <1>3, <2>2
  <2>3. CASE o \notin G /\ p \in G
    BY <1>1, <1>2, <1>3, <2>3
  <2>4. CASE o \notin G /\ p \notin G
    BY <1>1, <1>2, <2>4 DEF PacketOnce
  <2>5. QED
    BY <1>1, <2>1, <2>2, <2>3, <2>4
<1>5. HeldInv'
  <2>1. \A o \in freed : o \in Ops /\ o \notin G /\ given'[o] # <<>>
    BY <1>1, <1>2, <1>3 DEF HeldInv
  <2>2. \A o \in Ops : o \in HandedOut' <=> o \in HandedOut \/ (o \in G /\ kind[e] = "pkt")
    BY <1>1, <1>2, <1>3, <2>1 DEF HandedOut
  <2>3. \A o \in HandedOut : given'[o] = given[o] /\ o \in Ops
    BY <1>1, <1>2, <1>3 DEF HandedOut
  <2>4. \A y : y \in {given[o][1].id : o \in HandedOut} <=> \E o \in HandedOut : given[o][1].id = y
    OBVIOUS
  <2>5. \A y : y \in {given'[o][1].id : o \in HandedOut'}
               <=> \E o \in HandedOut' : given'[o][1].id = y
    OBVIOUS
  <2>6. HandedOut' \subseteq Ops
    BY DEF HandedOut
  <2> HIDE DEF HandedOut
  <2>7. \A y : (\E o \in HandedOut' : given'[o][1].id = y)
               <=> (\E o \in HandedOut : given[o][1].id = y) \/ (y = x /\ kind[e] = "pkt")
    BY <1>1, <1>3, <2>2, <2>3, <2>6
  <2>8. \A y : y \in held' <=> y \in held \/ (y = x /\ kind[e] = "pkt")
    BY <1>1
  <2>9. \A y : y \in held' <=> y \in {given'[o][1].id : o \in HandedOut'}
    BY <1>1, <2>4, <2>5, <2>7, <2>8 DEF HeldInv
  <2>10. held' = {given'[o][1].id : o \in HandedOut'}
    BY <1>1, <2>9
  <2>11. QED
    BY <1>1, <2>1, <2>10 DEF HeldInv
<1>6. ASSUME NEW y
      PROVE  Got(y)' <=> Got(y) \/ y = x
  BY <1>1, <1>2, <1>3 DEF Got
<1>7. QED
  BY <1>1, <1>4, <1>5, <1>6

\* The head of a queue goes to an operation that had nothing.
LEMMA PacketTaken ==
  ASSUME WaitInv, PacketsIn, NEW o \in Ops, given[o] = <<>>,
         rxQueue[OpOf[o].ep] # <<>>, Take(o),
         kind[OpOf[o].ep] = "pkt" => state[OpOf[o].ep] \in {"open", "shut"},
         UNCHANGED <<kind, state, arrived, dropped, freed>>
  PROVE  PacketsIn'
<1> DEFINE e == OpOf[o].ep
<1>1. e \in Endpoints /\ DataTypes
  BY Sorts DEF WaitInv
<1>2. PICK q \in Seq(ItemsAt(e)) : q = rxQueue[e] /\ q # <<>> /\ Distinct(q)
  BY <1>1 DEF DataTypes, PacketsIn, QueueOnce
<1>3. PICK h \in ItemsAt(e) : h = Head(q)
  BY <1>2, TailIs
<1>4. h.id \in Ids(rxQueue[e])
  BY <1>2, <1>3, IdsTail
<1>5. PICK n \in Packets : n.ep = e /\ n.id = h.id
  <2>1. PICK x \in Ids(rxQueue[e]) : x = h.id
    BY <1>4
  <2>2. \E n \in Packets : n.ep = e /\ n.id = x
    <3> HIDE DEF e
    <3>1. QED
      BY <1>1, QueuedThere
  <2>3. QED
    BY <2>1, <2>2
<1>6. CASE Give(q, {o}) /\ Consume(e, q)
  <2>1. PICK new : new = <<h>>
    OBVIOUS
  <2>2. \A p \in Ops : given'[p] = IF p \in {o} THEN new ELSE given[p]
    <3>1. Append(<<>>, h) = new
      BY <2>1
    <3>2. given' = [p \in Ops |-> IF p \in {o} THEN Append(given[p], h) ELSE given[p]]
      BY <1>3, <1>6 DEF Give
    <3>3. QED
      BY <3>1, <3>2
  <2>3. held' = IF kind[e] = "pkt" THEN held \cup {h.id} ELSE held
    BY <1>3, <1>6 DEF Consume
  <2>4. ~Got(h.id)
    BY <1>4, <1>5 DEF PacketsIn, Kept
  <2>5. new # <<>> /\ new[1].id = h.id
    BY <2>1
  <2>6. PICK G \in SUBSET Ops : G = {o}
    OBVIOUS
  <2>7. \A p \in Ops : given'[p] = IF p \in G THEN new ELSE given[p]
    BY <2>2, <2>6
  <2>8. G # {} /\ \A p \in G : p = o /\ OpOf[p].ep = e /\ given[p] = <<>>
    BY <2>6
  <2>9. /\ PacketOnce' /\ HeldInv'
        /\ \A y : Got(y)' <=> Got(y) \/ y = h.id
    <3> HIDE DEF e
    <3>1. \A p, r \in G : p = r
      BY <2>8
    <3>2. PacketOnce /\ HeldInv
      BY DEF PacketsIn
    <3>3. PICK x : x = h.id
      OBVIOUS
    <3>4. /\ new[1].id = x /\ new # <<>> /\ ~Got(x)
          /\ held' = IF kind[e] = "pkt" THEN held \cup {x} ELSE held
      BY <2>3, <2>4, <2>5, <3>3
    <3>5. \A p \in G : OpOf[p].ep = e /\ given[p] = <<>>
      BY <2>8
    <3>6. /\ PacketOnce' /\ HeldInv'
          /\ \A y : Got(y)' <=> Got(y) \/ y = x
      <4>1. Handed(e, G, new, x)
        BY <1>1, <2>7, <2>8, <3>1, <3>4, <3>5 DEF Handed
      <4>2. QED
        BY <3>2, <4>1, HandOver
    <3>7. QED
      BY <3>3, <3>6
  <2>10. /\ rxQueue'[e] = Tail(q) /\ \A f \in Endpoints : f # e => rxQueue'[f] = rxQueue[f]
    BY <1>1, <1>2, <1>6, Consumes
  <2>11. Distinct(Tail(q)) /\ \A x : x \in Ids(Tail(q)) <=> x \in Ids(q) /\ x # h.id
    BY <1>2, <1>3, IdsTail
  <2> HIDE DEF e
  <2>12. QueueOnce'
    BY <2>10, <2>11 DEF PacketsIn, QueueOnce
  <2>13. ASSUME NEW m \in Packets
         PROVE  Kept(m)'
    <3>1. m.ep \in Endpoints /\ Kept(m)
      BY PacketIs DEF PacketsIn
    <3>2. CASE m = n
      <4>1. m.id \in arrived /\ m.id \notin dropped
        BY <1>2, <1>4, <1>5, <3>1, <3>2 DEF Kept
      <4>2. m.id \notin Ids(rxQueue'[m.ep]) /\ Got(m.id)'
        BY <1>5, <2>9, <2>10, <2>11, <3>2
      <4>3. QED
        BY <4>1, <4>2 DEF Kept
    <3>3. CASE m # n
      <4>1. m.id # h.id
        BY <1>5, <3>3, RequestsAssumption
      <4>2. m.id \in Ids(rxQueue'[m.ep]) <=> m.id \in Ids(rxQueue[m.ep])
        BY <1>2, <2>10, <2>11, <3>1, <4>1
      <4>3. Got(m.id)' <=> Got(m.id)
        BY <2>9, <4>1
      <4>4. QED
        BY <3>1, <4>2, <4>3 DEF Kept
    <3>4. QED
      BY <3>2, <3>3
  <2>14. QED
    BY <2>9, <2>12, <2>13 DEF PacketsIn
<1>7. CASE /\ rxQueue' = IF kind[e] = "scl" THEN [rxQueue EXCEPT ![e][1].size = 0]
                         ELSE rxQueue
           /\ UNCHANGED <<held, given>>
  <2>1. ASSUME NEW f \in Endpoints
        PROVE  /\ Distinct(rxQueue'[f])
               /\ \A x : x \in Ids(rxQueue'[f]) <=> x \in Ids(rxQueue[f])
    <3>1. Distinct(rxQueue[f])
      BY DEF PacketsIn, QueueOnce
    <3>2. CASE rxQueue'[f] = rxQueue[f]
      BY <3>1, <3>2
    <3>3. CASE rxQueue'[f] # rxQueue[f]
      <4>1. f = e /\ rxQueue'[f] = [q EXCEPT ![1] = [q[1] EXCEPT !.size = 0]]
        BY <1>1, <1>2, <1>7, <3>3 DEF DataTypes
      <4>2. PICK d : d = [q[1] EXCEPT !.size = 0]
        OBVIOUS
      <4>3. q[1] \in ItemsAt(e)
        BY <1>2
      <4>4. d.id = q[1].id /\ d \in ItemsAt(e)
        BY <4>2, <4>3 DEF ItemsAt
      <4>5. PICK r \in Seq(ItemsAt(e)) : r = rxQueue'[f]
        BY <4>1, <4>2, <4>4
      <4>6. Len(r) = Len(q) /\ \A i \in 1 .. Len(q) : r[i].id = q[i].id
        BY <4>1, <4>2, <4>4, <4>5
      <4>7. \A x : x \in Ids(r) <=> x \in Ids(q)
        BY <4>6, IdsIn
      <4>8. Distinct(r)
        BY <1>2, <4>6 DEF Distinct
      <4>9. QED
        BY <1>2, <4>1, <4>5, <4>7, <4>8
    <3>4. QED
      BY <3>2, <3>3
  <2>2. QueueOnce'
    BY <2>1 DEF QueueOnce
  <2>3. \A m \in Packets : Kept(m)'
    <3>1. \A y : Got(y)' <=> Got(y)
      BY <1>7 DEF Got
    <3>2. QED
      BY <2>1, <3>1, PacketIs DEF PacketsIn, Kept
  <2>4. PacketOnce' /\ HeldInv'
    BY <1>7 DEF PacketsIn, PacketOnce, HeldInv, HandedOut
  <2>5. QED
    BY <2>2, <2>3, <2>4 DEF PacketsIn
<1>8. QED
  BY <1>2, <1>6, <1>7 DEF Take

\* What does not touch the data.
LEMMA PacketSame ==
  ASSUME PacketsIn, UNCHANGED <<kind, rxQueue, held, given, arrived, dropped, freed>>
  PROVE  PacketsIn'
<1>1. \A y : Got(y)' <=> Got(y)
  BY DEF Got
<1>2. \A m \in Packets : Kept(m)'
  BY <1>1 DEF PacketsIn, Kept
<1>3. QED
  BY <1>2 DEF PacketsIn, QueueOnce, PacketOnce, HeldInv, HandedOut

\* An endpoint that goes away gives back what it has.
LEMMA PacketDrained ==
  ASSUME WaitInv, PacketsIn, NEW e \in Endpoints, Drain(e),
         UNCHANGED <<kind, held, given, arrived, freed>>
  PROVE  PacketsIn'
<1>1. /\ rxQueue'[e] = <<>> /\ \A f \in Endpoints : f # e => rxQueue'[f] = rxQueue[f]
      /\ dropped' = dropped \cup Ids(rxQueue[e])
  BY DEF Drain, WaitInv, DataTypes
<1>2. Distinct(<<>>) /\ \A x : x \notin Ids(<<>>)
  BY DEF Distinct, Ids
<1>3. QueueOnce'
  BY <1>1, <1>2 DEF PacketsIn, QueueOnce
<1>4. PacketOnce' /\ HeldInv'
  BY DEF PacketsIn, PacketOnce, HeldInv, HandedOut
<1>5. ASSUME NEW m \in Packets
      PROVE  Kept(m)'
  <2>1. m.ep \in Endpoints /\ Kept(m) /\ (Got(m.id)' <=> Got(m.id))
    BY PacketIs DEF PacketsIn, Got
  <2>2. m.id \in Ids(rxQueue[e]) => m.ep = e
    BY QueuedThere DEF WaitInv
  <2>3. CASE m.ep = e
    <3>1. m.id \notin Ids(rxQueue'[m.ep])
      BY <1>1, <1>2, <2>3
    <3>2. QED
      BY <1>1, <2>1, <2>3, <3>1 DEF Kept
  <2>4. CASE m.ep # e
    <3>1. rxQueue'[m.ep] = rxQueue[m.ep] /\ (m.id \in dropped' <=> m.id \in dropped)
      BY <1>1, <2>1, <2>2, <2>4
    <3>2. QED
      BY <2>1, <3>1 DEF Kept
  <2>5. QED
    BY <2>3, <2>4
<1>6. QED
  BY <1>3, <1>4, <1>5 DEF PacketsIn

\* A packet is freed once, by the operation that has it.
LEMMA PacketFreed ==
  ASSUME WaitInv, PacketsIn, NEW o \in Ops, FreePacket(o)
  PROVE  PacketsIn'
<1>1. /\ kind[OpOf[o].ep] = "pkt" /\ given[o] # <<>> /\ o \notin freed
      /\ freed' = freed \cup {o} /\ held' = held \ {given[o][1].id}
      /\ UNCHANGED <<kind, rxQueue, given, arrived, dropped>>
  BY DEF FreePacket
<1>2. \A m \in Packets : Kept(m)'
  <2>1. \A y : Got(y)' <=> Got(y)
    BY <1>1 DEF Got
  <2>2. QED
    BY <1>1, <2>1 DEF PacketsIn, Kept
<1>3. QueueOnce' /\ PacketOnce'
  BY <1>1 DEF PacketsIn, QueueOnce, PacketOnce
<1>4. HeldInv'
  <2>1. \A p : p \in HandedOut' <=> p \in HandedOut /\ p # o
    BY <1>1 DEF HandedOut
  <2>2. o \in HandedOut /\ \A p \in HandedOut : p # o => given[p][1].id # given[o][1].id
    BY <1>1 DEF HandedOut, PacketsIn, PacketOnce
  <2>3. held = {given[p][1].id : p \in HandedOut}
    BY DEF PacketsIn, HeldInv
  <2>4. held' = {given'[p][1].id : p \in HandedOut'}
    <3> HIDE DEF HandedOut
    <3>1. \A y : y \in held' <=> (\E p \in HandedOut : given[p][1].id = y) /\ y # given[o][1].id
      BY <1>1, <2>3
    <3>2. \A y : (\E p \in HandedOut : given[p][1].id = y) /\ y # given[o][1].id
                 <=> \E p \in HandedOut' : given[p][1].id = y
      BY <2>1, <2>2
    <3>3. \A y : y \in {given'[p][1].id : p \in HandedOut'}
                 <=> \E p \in HandedOut' : given[p][1].id = y
      BY <1>1
    <3>4. QED
      BY <3>1, <3>2, <3>3
  <2>5. QED
    BY <1>1, <2>4, Sorts DEF PacketsIn, HeldInv
<1>5. QED
  BY <1>2, <1>3, <1>4 DEF PacketsIn

\* A packet that arrives is handed to those who wait for it, or queued.
LEMMA PacketArrives ==
  ASSUME OneReceive, WaitInv, SuccessInv, OnePacket, PacketsIn, ~late,
         NEW m \in Packets, Arrive(m)
  PROVE  PacketsIn'
<1> DEFINE e == m.ep
           q == Append(rxQueue[e], m)
<1>1. /\ e \in Endpoints /\ m \in ItemsAt(e) /\ DataTypes
      /\ rxQueue[e] \in Seq(ItemsAt(e)) /\ Distinct(rxQueue[e])
  BY PacketIs DEF WaitInv, DataTypes, PacketsIn, QueueOnce
<1>2. /\ m.id \notin arrived /\ arrived' = arrived \cup {m.id}
      /\ Give(q, {Original(r) : r \in Copied(e, m)})
      /\ \/ Copied(e, m) # {} /\ Consume(e, q)
         \/ Copied(e, m) = {} /\ rxQueue' = [rxQueue EXCEPT ![e] = q] /\ held' = held
      /\ UNCHANGED <<kind, dropped, freed>>
  BY DEF Arrive
<1>3. m.id \notin Ids(rxQueue[e]) /\ m.id \notin dropped /\ ~Got(m.id)
  BY <1>2 DEF PacketsIn, Kept
<1>4. \A n \in Packets : n # m => n.id # m.id
  BY RequestsAssumption
<1>5. CASE Copied(e, m) = {}
  <2>1. \A o \in Ops : given'[o] = given[o]
    BY <1>2, <1>5 DEF Give
  <2>2. /\ rxQueue'[e] = q /\ \A f \in Endpoints : f # e => rxQueue'[f] = rxQueue[f]
        /\ held' = held
    BY <1>1, <1>2, <1>5 DEF DataTypes
  <2>3. Distinct(q) /\ \A x : x \in Ids(q) <=> x \in Ids(rxQueue[e]) \/ x = m.id
    BY <1>1, <1>3, IdsAppend
  <2> HIDE DEF q, e
  <2>4. QueueOnce'
    BY <2>2, <2>3 DEF PacketsIn, QueueOnce
  <2>5. PacketOnce' /\ HeldInv'
    <3>1. PacketOnce'
      BY <1>2, <2>1 DEF PacketsIn, PacketOnce
    <3>2. HandedOut' = HandedOut /\ HandedOut \subseteq Ops
      BY <1>2, <2>1 DEF HandedOut
    <3>3. {given'[o][1].id : o \in HandedOut} = {given[o][1].id : o \in HandedOut}
      BY <2>1, <3>2
    <3>4. \A o \in freed : o \in Ops /\ given'[o] # <<>>
      BY <2>1 DEF PacketsIn, HeldInv
    <3>5. QED
      BY <1>2, <2>2, <3>1, <3>2, <3>3, <3>4 DEF PacketsIn, HeldInv
  <2>6. ASSUME NEW n \in Packets
        PROVE  Kept(n)'
    <3>1. n.ep \in Endpoints /\ Kept(n) /\ (Got(n.id)' <=> Got(n.id))
      BY <2>1, PacketIs DEF PacketsIn, Got
    <3>2. CASE n = m
      <4>1. m.id \in arrived' /\ m.id \in Ids(rxQueue'[m.ep])
        BY <1>2, <2>2, <2>3 DEF e
      <4>2. QED
        BY <1>2, <1>3, <3>1, <3>2, <4>1 DEF Kept
    <3>3. CASE n # m
      <4>1. n.id # m.id
        BY <1>4, <3>3
      <4>2. /\ n.id \in arrived' <=> n.id \in arrived
            /\ n.id \in Ids(rxQueue'[n.ep]) <=> n.id \in Ids(rxQueue[n.ep])
        BY <1>2, <2>2, <2>3, <3>1, <4>1
      <4>3. QED
        BY <1>2, <3>1, <4>2 DEF Kept
    <3>4. QED
      BY <3>2, <3>3
  <2>7. QED
    BY <2>4, <2>5, <2>6 DEF PacketsIn
<1>6. CASE Copied(e, m) # {}
  <2>1. PICK G : G = {Original(r) : r \in Copied(e, m)}
    OBVIOUS
  <2>2. G # {} /\ \A o \in G : o \in Ops /\ OpOf[o].ep = e /\ status[o] = "pending"
    <3>1. \A r \in Copied(e, m) : r \in PendingAt(e)
      BY DEF Copied
    <3>2. ASSUME NEW r \in PendingAt(e)
          PROVE  /\ Original(r) \in Ops /\ OpOf[Original(r)].ep = e
                 /\ status[Original(r)] = "pending"
      <4>1. Original(r) \in Ops /\ OpOf[Original(r)].ep = e
        BY <1>1, OriginalsThere DEF WaitInv
      <4>2. CASE r \in Ops
        BY <1>1, <4>1, <4>2, PendingThere DEF Original, WaitInv
      <4>3. CASE r \in Threads \cup Pool /\ Replica(r) /\ copyOf[r] = Original(r)
        BY <1>1, <4>1, <4>3, Together DEF SuccessInv
      <4>4. QED
        BY <1>1, <4>2, <4>3, OriginalsThere DEF WaitInv
    <3>3. QED
      BY <1>6, <2>1, <3>1, <3>2
  <2>3. \A o \in G : given[o] = <<>>
    BY <2>2 DEF SuccessInv, OneBuffer
  <2>4. rxQueue[e] = <<>> /\ state[e] = "open"
    BY <2>2 DEF WaitInv, NoDataOps
  <2>5. q = <<m>> /\ Head(q) = m /\ Tail(q) = <<>>
    BY <2>4
  <2>6. PICK new : new = <<m>>
    OBVIOUS
  <2>7. PICK x : x = m.id
    OBVIOUS
  <2>8. \A o \in Ops : given'[o] = IF o \in G THEN new ELSE given[o]
    <3>1. Append(<<>>, m) = new
      BY <2>6
    <3>2. given' = [o \in Ops |-> IF o \in G THEN Append(given[o], m) ELSE given[o]]
      BY <1>2, <2>1, <2>5 DEF Give
    <3>3. QED
      BY <2>3, <3>1, <3>2
  <2>9. Consume(e, q)
    BY <1>2, <1>6
  <2>10. held' = IF kind[e] = "pkt" THEN held \cup {x} ELSE held
    <3> HIDE DEF q
    <3>1. QED
      BY <2>4, <2>5, <2>7, <2>9 DEF Consume
  <2>11. /\ rxQueue'[e] = <<>> /\ \A f \in Endpoints : f # e => rxQueue'[f] = rxQueue[f]
    <3> HIDE DEF q
    <3>1. rxQueue' = [rxQueue EXCEPT ![e] = <<>>]
      BY <2>5, <2>9 DEF Consume
    <3>2. QED
      BY <1>1, <3>1 DEF DataTypes
  <2>12. new # <<>> /\ new[1].id = x /\ ~Got(x)
    BY <1>3, <2>6, <2>7
  <2>13. G \in SUBSET Ops /\ \A o \in G : OpOf[o].ep = e /\ given[o] = <<>>
    BY <2>2, <2>3
  <2>14. kind[e] = "pkt" => \A o, p \in G : o = p
    BY <2>2 DEF OnePacket
  <2> HIDE DEF e, q
  <2>15. PacketOnce /\ HeldInv
    BY DEF PacketsIn
  <2>16. /\ PacketOnce' /\ HeldInv'
         /\ \A y : Got(y)' <=> Got(y) \/ y = x
    <3>1. e \in Endpoints /\ UNCHANGED <<kind, freed>>
      BY <1>1, <1>2
    <3>2. Handed(e, G, new, x)
      BY <2>2, <2>8, <2>10, <2>12, <2>13, <2>14, <3>1 DEF Handed
    <3>3. QED
      BY <2>15, <3>2, HandOver
  <2>17. QueueOnce'
    <3>1. Distinct(<<>>)
      BY DEF Distinct
    <3>2. QED
      BY <2>11, <3>1 DEF PacketsIn, QueueOnce
  <2>18. \A f \in Endpoints : rxQueue'[f] = rxQueue[f]
    BY <2>4, <2>11
  <2>19. ASSUME NEW n \in Packets
         PROVE  Kept(n)'
    <3>1. n.ep \in Endpoints /\ Kept(n) /\ rxQueue'[n.ep] = rxQueue[n.ep]
      BY <2>18, PacketIs DEF PacketsIn
    <3>2. CASE n = m
      <4>1. m.id \in arrived' /\ m.id \notin Ids(rxQueue'[m.ep]) /\ Got(m.id)'
        BY <1>2, <1>3, <2>7, <2>16, <3>1, <3>2 DEF e
      <4>2. QED
        BY <1>2, <1>3, <3>2, <4>1 DEF Kept
    <3>3. CASE n # m
      <4>1. (n.id \in arrived' <=> n.id \in arrived) /\ (Got(n.id)' <=> Got(n.id))
        BY <1>2, <1>4, <2>7, <2>16, <3>3
      <4>2. QED
        BY <1>2, <3>1, <4>1 DEF Kept
    <3>4. QED
      BY <3>2, <3>3
  <2>20. QED
    BY <2>16, <2>17, <2>19 DEF PacketsIn
<1>7. QED
  BY <1>5, <1>6

\* What comes for an endpoint that is gone.
LEMMA PacketNowhere ==
  ASSUME PacketsIn, NEW m \in Packets, ArriveNowhere(m)
  PROVE  PacketsIn'
<1>1. /\ m.id \notin arrived /\ arrived' = arrived \cup {m.id} /\ dropped' = dropped \cup {m.id}
      /\ UNCHANGED <<kind, rxQueue, held, given, freed>>
  BY DEF ArriveNowhere
<1>2. ASSUME NEW n \in Packets
      PROVE  Kept(n)'
  <2>1. Kept(n) /\ (Got(n.id)' <=> Got(n.id))
    BY <1>1 DEF PacketsIn, Got
  <2>2. n # m => n.id # m.id
    BY RequestsAssumption
  <2>3. QED
    BY <1>1, <2>1, <2>2 DEF Kept
<1>3. QED
  BY <1>1, <1>2 DEF PacketsIn, QueueOnce, PacketOnce, HeldInv, HandedOut

\* One packet receive at a time is pending at an endpoint.
LEMMA OnePacketStep ==
  ASSUME OneReceive, WaitInv, OnePacket, [Next]_vars
  PROVE  OnePacket'
<1>1. kind' = kind
  BY ZenonT(40) DEF Next, Proceed, vars, data, Arrive, ArriveNowhere, ReceiveNow, Wait, ReceiveLater,
         ReceiveReturns, WaitReturns, WaitAnyReturns, TestNext, AttachAll, AttachFails, TimeUp,
         WaitAny, Cancel, FreePacket, Shut, Close, Delete
<1>2. ASSUME \A o \in Ops : status'[o] = "pending" => status[o] = "pending"
      PROVE  OnePacket'
  BY <1>1, <1>2 DEF OnePacket
<1>3. ASSUME NEW t \in Threads, NEW o \in Ops, NEW blocks \in BOOLEAN,
             ReceiveLater(t, o, blocks)
      PROVE  OnePacket'
  <2>1. /\ status' = [status EXCEPT ![o] = "pending"]
        /\ Cardinality(PendingAt(OpOf[o].ep) \cap Ops) < MaxPending[kind[OpOf[o].ep]]
    BY <1>3 DEF ReceiveLater, Start, Finish
  <2>2. \A p \in Ops : p # o => status'[p] = status[p]
    BY <2>1, Sorts DEF WaitInv, ControlInv, ControlTypes
  <2>3. ASSUME kind[OpOf[o].ep] = "pkt"
        PROVE  \A p \in Ops : OpOf[p].ep = OpOf[o].ep => status[p] # "pending"
    <3>1. PICK S : S = PendingAt(OpOf[o].ep) \cap Ops
      OBVIOUS
    <3>2. IsFiniteSet(S)
      <4>1. pending \in Seq(Structs) /\ DOMAIN pending = 1 .. Len(pending) /\ Len(pending) \in Nat
        BY DEF WaitInv, ControlInv, ControlTypes
      <4>2. IsFiniteSet(1 .. Len(pending))
        BY <4>1, FS_Interval
      <4>3. pending \in Surjection(1 .. Len(pending), Elements(pending))
        BY <4>1 DEF Surjection, Elements
      <4>4. IsFiniteSet(Elements(pending)) /\ S \subseteq Elements(pending)
        BY <3>1, <4>2, <4>3, FS_Surjection DEF PendingAt
      <4>5. QED
        BY <4>4, FS_Subset
    <3>3. Cardinality(S) \in Nat /\ Cardinality(S) < MaxPending["pkt"]
      BY <2>1, <2>3, <3>1, <3>2, FS_CardinalityType
    <3>4. MaxPending["pkt"] \in Nat /\ MaxPending["pkt"] <= 1
      BY RequestsAssumption DEF OneReceive
    <3>5. Cardinality(S) = 0
      BY <3>3, <3>4
    <3>6. S = {}
      BY <3>2, <3>5, FS_EmptySet
    <3>7. \A p \in Ops : p \notin PendingAt(OpOf[o].ep)
      BY <3>1, <3>6
    <3>8. QED
      BY <3>7, PendingThere, Sorts DEF WaitInv
  <2>4. QED
    BY <1>1, <2>2, <2>3 DEF OnePacket
<1>4. status \in [Structs -> Outcomes \cup {"unused"}] /\ ControlInv
  BY DEF WaitInv, ControlInv, ControlTypes
<1>5. ASSUME NEW e \in Endpoints, NEW x \in Outcomes \ {"pending"}, NEW result,
             Resume(PendingAt(e), result),
             result \in [PendingAt(e) -> Outcomes \ {"pending"}]
      PROVE  OnePacket'
  BY <1>2, <1>4, <1>5, NoneLeft
<1>6. ASSUME NEW m \in Packets, Arrive(m)
      PROVE  OnePacket'
  <2>1. m.ep \in Endpoints
    BY PacketIs
  <2>2. QED
    BY <1>2, <1>4, <1>6, <2>1, Answers, NoneLeft DEF Arrive
<1>7. ASSUME NEW e \in Endpoints,
             \/ Shut(e) \/ Close(e) \/ Delete(e)
             \/ \E o \in Ops : Cancel(o) /\ e = OpOf[o].ep
      PROVE  OnePacket'
  BY <1>2, <1>4, <1>7, Answers, NoneLeft DEF Shut, Close, Delete, FailAll, Cancel
<1>8. ASSUME NEW o, NEW result, Settles(o, result)
      PROVE  OnePacket'
  BY <1>2, <1>4, <1>8, Sorts DEF Settles
<1>9. ASSUME NEW t \in Threads, WaitReturns(t) \/ WaitAnyReturns(t)
      PROVE  OnePacket'
  BY <1>2, <1>4, <1>8, <1>9, ControlWaitReturns, ControlAnyReturns
<1>10. ASSUME NEW t \in Threads, NEW o \in Ops, ReceiveNow(t, o)
       PROVE  OnePacket'
  <2>1. status[o] # "pending" /\ (Take(o) \/ Finish(o, "failed"))
    BY <1>10 DEF ReceiveNow, Start
  <2>2. QED
    BY <1>8, <2>1, TakeSettles DEF Finish, Settles, Outcomes
<1>11. ASSUME NEW t \in Threads, ReceiveReturns(t)
       PROVE  OnePacket'
  <2>1. call[t].what = "recv" /\ awake[t]
    BY <1>11 DEF ReceiveReturns
  <2>2. PICK o \in Ops : o = call[t].ops[1]
    BY <1>4, <2>1, Sleepers
  <2>3. status[o] # "pending"
    BY <1>4, <2>1, <2>2 DEF ControlInv, CallInv, CallSound, Ended
  <2>4. Take(o) \/ Finish(o, "failed") \/ status' = status
    BY <1>11, <2>2 DEF ReceiveReturns
  <2>5. QED
    BY <1>2, <1>8, <2>3, <2>4, TakeSettles DEF Finish, Settles, Outcomes
<1>12. ASSUME NEW t \in Threads, NEW o \in Ops, Wait(t, o)
       PROVE  OnePacket'
  BY <1>2, <1>4, <1>12, Sorts DEF Wait
<1>13. ASSUME NEW t \in Threads, AttachAll(t)
       PROVE  OnePacket'
  <2>1. PICK s \in Seq(Pool) : \A r \in Structs : ~In(r, s) => status'[r] = status[r]
    BY <1>4, <1>13, AttachEffect
  <2>2. \A p \in Ops : p \in Structs /\ ~In(p, s)
    BY Sorts DEF In
  <2>3. QED
    BY <1>2, <2>1, <2>2
<1>14. ASSUME status' = status
       PROVE  OnePacket'
  BY <1>2, <1>14
<1>15. ASSUME NEW t \in Threads, NEW list \in WaitLists, WaitAny(t, list)
       PROVE  OnePacket'
  BY <1>14, <1>15 DEF WaitAny
<1>16. ASSUME NEW t \in Threads, TestNext(t) \/ AttachFails(t) \/ TimeUp(t)
       PROVE  OnePacket'
  BY <1>14, <1>16 DEF TestNext, AttachFails, TimeUp
<1>17. ASSUME \/ \E m \in Packets : ArriveNowhere(m)
              \/ \E o \in Ops : FreePacket(o)
              \/ UNCHANGED vars
       PROVE  OnePacket'
  BY <1>14, <1>17 DEF ArriveNowhere, FreePacket, vars
<1>18. ASSUME NEW t \in Threads, Proceed(t)
       PROVE  OnePacket'
  BY <1>9, <1>11, <1>13, <1>16, <1>18 DEF Proceed
<1>19. ASSUME NEW o \in Ops, Cancel(o)
       PROVE  OnePacket'
  BY <1>7, <1>19, Sorts
<1>20. QED
  BY <1>3, <1>6, <1>7, <1>10, <1>12, <1>15, <1>16, <1>17, <1>18, <1>19 DEF Next

\* At first no packet has come.
LEMMA PacketInit == Init => PacketInv
<1> SUFFICES ASSUME Init
             PROVE  PacketInv
  OBVIOUS
<1>1. /\ status = [r \in Structs |-> "unused"] /\ given = [o \in Ops |-> <<>>]
      /\ rxQueue = [e \in Endpoints |-> <<>>] /\ held = {} /\ freed = {}
      /\ arrived = {} /\ dropped = {}
  BY DEF Init
<1>2. OnePacket
  BY <1>1, Sorts DEF OnePacket
<1>3. Distinct(<<>>) /\ \A x : x \notin Ids(<<>>)
  BY DEF Distinct, Ids
<1>4. QueueOnce
  BY <1>1, <1>3 DEF QueueOnce
<1>5. \A o \in Ops : given[o] = <<>>
  BY <1>1
<1>6. \A m \in Packets : Kept(m)
  <2>1. \A m \in Packets : m.id \notin Ids(rxQueue[m.ep])
    BY <1>1, <1>3, PacketIs
  <2>2. QED
    BY <1>1, <1>5, <2>1 DEF Kept, Got
<1>7. PacketOnce /\ HeldInv
  BY <1>1, <1>5 DEF PacketOnce, HeldInv, HandedOut
<1>8. QED
  BY <1>2, <1>4, <1>6, <1>7 DEF PacketInv, PacketsIn

\* A receive, at once or after it was woken, takes a packet into an empty buffer.
LEMMA PacketReceived ==
  ASSUME WaitInv, SuccessInv, PacketsIn, ~late, NEW t \in Threads,
         \/ \E o \in Ops : ReceiveNow(t, o)
         \/ ReceiveReturns(t)
  PROVE  PacketsIn'
<1>1. CASE ReceiveReturns(t)
  <2>1. /\ call[t].what = "recv"
        /\ UNCHANGED <<kind, state, arrived, dropped, freed>>
    BY <1>1 DEF ReceiveReturns
  <2>2. PICK o \in Ops : o = call[t].ops[1]
    BY <2>1, Sleepers DEF WaitInv
  <2>3. CASE UNCHANGED <<rxQueue, held, given>>
    BY <2>1, <2>3, PacketSame
  <2>4. CASE kind[OpOf[o].ep] = "scl" /\ rxQueue[OpOf[o].ep] # <<>> /\ Take(o)
    <3>1. given[o] = <<>>
      BY <2>1, <2>2, <2>4 DEF SuccessInv, BlockedOnce
    <3>2. QED
      BY <2>1, <2>4, <3>1, PacketTaken
  <2>5. QED
    BY <1>1, <2>2, <2>3, <2>4 DEF ReceiveReturns
<1>2. ASSUME NEW o \in Ops, ReceiveNow(t, o)
      PROVE  PacketsIn'
  <2>1. status[o] = "unused" /\ UNCHANGED <<kind, state, arrived, dropped, freed>>
    BY <1>2 DEF ReceiveNow, Start
  <2>2. CASE UNCHANGED <<rxQueue, held, given>>
    BY <2>1, <2>2, PacketSame
  <2>3. CASE MayTake(OpOf[o].ep) /\ rxQueue[OpOf[o].ep] # <<>> /\ Take(o)
    <3>1. given[o] = <<>>
      BY <2>1 DEF SuccessInv, OneBuffer
    <3>2. state[OpOf[o].ep] \in {"open", "shut"}
      BY <2>3 DEF MayTake
    <3>3. QED
      BY <2>1, <2>3, <3>1, <3>2, PacketTaken
  <2>4. QED
    BY <1>2, <2>2, <2>3 DEF ReceiveNow
<1>3. QED
  BY <1>1, <1>2

\* Every step leaves each packet in one place.
LEMMA PacketStep ==
  ASSUME OneReceive, WaitInv, SuccessInv, PacketInv, [Next]_vars
  PROVE  PacketInv'
<1>1. OnePacket'
  BY OnePacketStep DEF PacketInv
<1>2. ~late' => ~late
  BY ZenonT(40) DEF Next, Proceed, vars, data, Arrive, ArriveNowhere, ReceiveNow, Wait, ReceiveLater,
         ReceiveReturns, WaitReturns, WaitAnyReturns, TestNext, AttachAll, AttachFails, TimeUp,
         WaitAny, Cancel, FreePacket, Shut, Close, Delete
<1> SUFFICES ASSUME ~late
             PROVE  PacketsIn'
  BY <1>1, <1>2 DEF PacketInv
<1>3. PacketsIn /\ OnePacket
  BY DEF PacketInv
<1>4. ASSUME NEW t \in Threads, Proceed(t) \/ TimeUp(t)
      PROVE  PacketsIn'
  <2>1. CASE ReceiveReturns(t)
    BY <1>3, <2>1, PacketReceived
  <2>2. CASE ~ReceiveReturns(t)
    <3>1. UNCHANGED data
      BY <1>4, <2>2 DEF Proceed, WaitReturns, WaitAnyReturns, TestNext, AttachAll, AttachFails,
                        TimeUp
    <3>2. QED
      BY <1>3, <3>1, PacketSame DEF data
  <2>3. QED
    BY <2>1, <2>2
<1>5. ASSUME NEW t \in Threads, NEW o \in Ops,
             \/ ReceiveNow(t, o) \/ Wait(t, o)
             \/ \E blocks \in BOOLEAN : ReceiveLater(t, o, blocks)
      PROVE  PacketsIn'
  <2>1. CASE ReceiveNow(t, o)
    BY <1>3, <2>1, PacketReceived
  <2>2. CASE Wait(t, o) \/ \E blocks \in BOOLEAN : ReceiveLater(t, o, blocks)
    <3>1. UNCHANGED data
      BY <2>2 DEF Wait, ReceiveLater
    <3>2. QED
      BY <1>3, <3>1, PacketSame DEF data
  <2>3. QED
    BY <1>5, <2>1, <2>2
<1>6. ASSUME NEW m \in Packets, Arrive(m) \/ ArriveNowhere(m)
      PROVE  PacketsIn'
  BY <1>3, <1>6, PacketArrives, PacketNowhere
<1>7. ASSUME NEW t \in Threads, NEW list \in WaitLists, WaitAny(t, list)
      PROVE  PacketsIn'
  BY <1>3, <1>7, PacketSame DEF WaitAny, data
<1>8. ASSUME NEW o \in Ops, Cancel(o) \/ FreePacket(o)
      PROVE  PacketsIn'
  BY <1>3, <1>8, PacketSame, PacketFreed DEF Cancel, data
<1>9. ASSUME NEW e \in Endpoints, Shut(e) \/ Close(e) \/ Delete(e)
      PROVE  PacketsIn'
  BY <1>3, <1>9, PacketSame, PacketDrained DEF Shut, Close, Delete
<1>10. CASE UNCHANGED vars
  BY <1>3, <1>10, PacketSame DEF vars, data
<1>11. QED
  BY <1>4, <1>5, <1>6, <1>7, <1>8, <1>9, <1>10 DEF Next

\* With buffers of one size and one packet receive at a time, packets are not lost.
THEOREM PacketsAgree ==
  ASSUME EqualBuffers, OneReceive
  PROVE  Spec => []PacketInv
<1>1. WaitInv /\ SuccessInv /\ PacketInv /\ [Next]_vars => PacketInv'
  BY PacketStep
<1>2. QED
  BY <1>1, PacketInit, WaitsAgree, SuccessAgrees, PTL DEF Spec

\* A packet that came is queued, or with the operation that reported it, or was given back,
\* and MCAPI_Buf_Wait_List has those that are in the hands of the application.
THEOREM PacketsKept ==
  ASSUME EqualBuffers, OneReceive
  PROVE  Spec => []PacketKept
<1>1. WaitInv /\ SuccessInv /\ PacketInv => PacketKept
  <2> SUFFICES ASSUME WaitInv, SuccessInv, PacketInv, ~late
               PROVE  /\ \A m \in Packets : m.id \in arrived =>
                           \/ /\ m.id \in Ids(rxQueue[m.ep]) /\ ReceivedBy(m.id) = {}
                              /\ m.id \notin dropped
                           \/ /\ m.id \notin Ids(rxQueue[m.ep])
                              /\ ReceivedBy(m.id) = {} <=> m.id \in dropped
                      /\ held = {given[o][1].id : o \in HandedOut}
    BY DEF PacketKept
  <2>1. \A o \in Ops : /\ DOMAIN given[o] = {} \/ DOMAIN given[o] = {1}
                       /\ given[o] # <<>> <=> 1 \in DOMAIN given[o]
                       /\ given[o] # <<>> => status[o] = "success"
    <3> SUFFICES ASSUME NEW o \in Ops
                 PROVE  /\ DOMAIN given[o] = {} \/ DOMAIN given[o] = {1}
                        /\ given[o] # <<>> <=> 1 \in DOMAIN given[o]
                        /\ given[o] # <<>> => status[o] = "success"
      OBVIOUS
    <3>1. PICK s \in Seq(ItemsAt(OpOf[o].ep)) : s = given[o]
      BY DEF WaitInv, DataTypes
    <3>2. Len(s) \in Nat /\ Len(s) <= 1 /\ (s # <<>> => status[o] = "success")
      BY <3>1 DEF SuccessInv, OneBuffer
    <3>3. DOMAIN s = 1 .. Len(s) /\ (s = <<>> <=> Len(s) = 0)
      OBVIOUS
    <3>4. QED
      BY <3>1, <3>2, <3>3
  <2>2. \A y : ReceivedBy(y) = {} <=> ~Got(y)
    BY <2>1 DEF ReceivedBy, Got
  <2>3. QED
    BY <2>2 DEF PacketInv, PacketsIn, Kept, HeldInv
<1>2. QED
  BY <1>1, WaitsAgree, PacketsAgree, SuccessAgrees, PTL
=============================================================================
