----------------------- MODULE ShmTransport_delivery -----------------------
(***************************************************************************)
(* Who owns the buffers of the shared memory driver, and in which order    *)
(* messages arrive, for any number of nodes, buffers, descriptors and      *)
(* sends.  The first layer, on the invariant of the driver's control,      *)
(* follows each buffer through hands and queues; the second reads the      *)
(* messages in those buffers as lines that move on from the ring to the    *)
(* receiver.  Both assume that a notification does not fail: when one      *)
(* does, shm.c gives back a buffer whose descriptor is visible already,    *)
(* and the properties fail.  The third takes the lines together to the     *)
(* queues of module Transport, one per destination and priority, and shows *)
(* that the driver implements that module.                                 *)
(***************************************************************************)
EXTENDS ShmTransport_proofs

(* Where a buffer can be, as two functions: what each thread has in hand,  *)
(* and the queues of every node.                                           *)
Places == Nodes \X Stages
Queues == [q \in Places |-> Queue(q[1], q[2])]
Hands  == [t \in Threads |-> IF InHand(t) THEN buf[t] ELSE NoBuffer]

\* Every buffer of M is in one hand or at one position of one queue, no other
\* buffer is anywhere.
Held(H, b)   == \E t \in Threads : H[t] = b
Queued(Q, b) == \E q \in Places : \E i \in 1 .. Len(Q[q]) : Q[q][i] = b
HandsApart(H) == \A t, u \in Threads : H[t] = H[u] /\ H[t] \in Buffers => t = u
QueuesApart(Q) ==
  \A q, r \in Places : \A i \in 1 .. Len(Q[q]), j \in 1 .. Len(Q[r]) :
    Q[q][i] = Q[r][j] => q = r /\ i = j
Owned(Q, H, M) ==
  /\ HandsApart(H) /\ QueuesApart(Q)
  /\ \A b \in Buffers : ~ (Held(H, b) /\ Queued(Q, b))
  /\ \A b \in Buffers : b \in M <=> Held(H, b) \/ Queued(Q, b)

PoolInv == /\ Owned(Queues, Hands, mask)
           /\ used = Cardinality(mask)

-----------------------------------------------------------------------------
(* Queues: taking the head of one, appending to one.                       *)

Dropped(Q, q)  == [Q EXCEPT ![q] = Tail(Q[q])]
Added(Q, q, b) == [Q EXCEPT ![q] = Append(Q[q], b)]

\* What a sequence is after an element was appended.
LEMMA AppendProperties2 ==
  ASSUME NEW S, NEW s \in Seq(S), NEW b \in S
  PROVE  /\ Append(s, b) \in Seq(S)
         /\ Len(s) \in Nat /\ Len(Append(s, b)) = Len(s) + 1
         /\ \A i \in 1 .. Len(s) : Append(s, b)[i] = s[i]
         /\ Append(s, b)[Len(s) + 1] = b
OBVIOUS

\* What it is after its head was taken.
LEMMA TailProperties2 ==
  ASSUME NEW S, NEW s \in Seq(S), s # <<>>
  PROVE  /\ Tail(s) \in Seq(S) /\ Head(s) \in S
         /\ Len(s) \in Nat /\ Len(s) > 0 /\ Len(Tail(s)) = Len(s) - 1
         /\ \A i \in 1 .. Len(s) - 1 : Tail(s)[i] = s[i + 1]
         /\ Head(s) = s[1]
OBVIOUS

\* Sequences that agree at every position are equal.
LEMMA SameSequence ==
  ASSUME NEW S, NEW s \in Seq(S), NEW u \in Seq(S), Len(s) = Len(u),
         \A i \in 1 .. Len(s) : s[i] = u[i]
  PROVE  s = u
OBVIOUS

\* A sequence given by its elements, one longer.
LEMMA AppendShape ==
  ASSUME NEW S, NEW m \in Nat, NEW F, \A i \in 1 .. m + 1 : F[i] \in S
  PROVE  [i \in 1 .. m + 1 |-> F[i]] = Append([i \in 1 .. m |-> F[i]], F[m + 1])
<1> DEFINE s == [i \in 1 .. m |-> F[i]]
           u == [i \in 1 .. m + 1 |-> F[i]]
<1>1. s \in Seq(S) /\ Len(s) = m /\ u \in Seq(S) /\ Len(u) = m + 1 /\ F[m + 1] \in S
  OBVIOUS
<1>2. /\ Append(s, F[m + 1]) \in Seq(S) /\ Len(Append(s, F[m + 1])) = m + 1
      /\ \A i \in 1 .. m : Append(s, F[m + 1])[i] = s[i]
      /\ Append(s, F[m + 1])[m + 1] = F[m + 1]
  BY <1>1, AppendProperties2
<1>3. \A i \in 1 .. m + 1 : u[i] = Append(s, F[m + 1])[i]
  BY <1>2
<1>4. u = Append(s, F[m + 1])
  BY <1>1, <1>2, <1>3, SameSequence
<1>5. QED
  BY <1>4

\* And one shorter.
LEMMA TailShape ==
  ASSUME NEW S, NEW m \in Nat, NEW F, \A i \in 1 .. m + 1 : F[i] \in S
  PROVE  /\ [i \in 1 .. m |-> F[i + 1]] = Tail([i \in 1 .. m + 1 |-> F[i]])
         /\ Head([i \in 1 .. m + 1 |-> F[i]]) = F[1]
<1> DEFINE s == [i \in 1 .. m + 1 |-> F[i]]
           u == [i \in 1 .. m |-> F[i + 1]]
<1>1. /\ s \in Seq(S) /\ Len(s) = m + 1 /\ s # <<>> /\ u \in Seq(S) /\ Len(u) = m
  OBVIOUS
<1>2. /\ Tail(s) \in Seq(S) /\ Len(Tail(s)) = m
      /\ \A i \in 1 .. m : Tail(s)[i] = s[i + 1]
      /\ Head(s) = s[1]
  BY <1>1, TailProperties2
<1>3. \A i \in 1 .. m : u[i] = Tail(s)[i]
  BY <1>2
<1>4. u = Tail(s) /\ Head(s) = F[1]
  BY <1>1, <1>2, <1>3, SameSequence
<1>5. QED
  BY <1>4

\* The head of a queue is gone from the queues, and nothing else.
LEMMA DropHead ==
  ASSUME NEW Q \in [Places -> Seq(Buffers)], QueuesApart(Q),
         NEW q \in Places, Q[q] # <<>>
  PROVE  /\ Dropped(Q, q) \in [Places -> Seq(Buffers)]
         /\ QueuesApart(Dropped(Q, q))
         /\ Head(Q[q]) \in Buffers /\ Queued(Q, Head(Q[q]))
         /\ \A b \in Buffers : Queued(Dropped(Q, q), b) <=> Queued(Q, b) /\ b # Head(Q[q])
<1> DEFINE D == Dropped(Q, q)
<1>1. /\ Q[q] \in Seq(Buffers) /\ Tail(Q[q]) \in Seq(Buffers) /\ Head(Q[q]) \in Buffers
      /\ Len(Q[q]) \in Nat /\ Len(Q[q]) > 0 /\ Len(Tail(Q[q])) = Len(Q[q]) - 1
      /\ \A i \in 1 .. Len(Q[q]) - 1 : Tail(Q[q])[i] = Q[q][i + 1]
      /\ Head(Q[q]) = Q[q][1]
  <2>1. Q[q] \in Seq(Buffers)
    OBVIOUS
  <2>2. QED
    BY <2>1, TailProperties2
<1>2. D \in [Places -> Seq(Buffers)] /\ D[q] = Tail(Q[q])
      /\ \A r \in Places : r # q => D[r] = Q[r]
  BY <1>1 DEF Dropped
<1> HIDE DEF D
<1>3. \A i \in 1 .. Len(D[q]) : i + 1 \in 1 .. Len(Q[q]) /\ D[q][i] = Q[q][i + 1]
  BY <1>1, <1>2
<1>4. QueuesApart(D)
  <2>1. ASSUME NEW r \in Places, NEW s \in Places,
               NEW i \in 1 .. Len(D[r]), NEW j \in 1 .. Len(D[s]), D[r][i] = D[s][j]
        PROVE  r = s /\ i = j
    <3>1. CASE r = q /\ s = q
      BY <1>3, <2>1, <3>1 DEF QueuesApart
    <3>2. CASE r = q /\ s # q
      <4>1. i + 1 \in 1 .. Len(Q[q]) /\ j \in 1 .. Len(Q[s]) /\ Q[q][i + 1] = Q[s][j]
        BY <1>2, <1>3, <2>1, <3>2
      <4>2. QED
        BY <3>2, <4>1 DEF QueuesApart
    <3>3. CASE r # q /\ s = q
      <4>1. i \in 1 .. Len(Q[r]) /\ j + 1 \in 1 .. Len(Q[q]) /\ Q[r][i] = Q[q][j + 1]
        BY <1>2, <1>3, <2>1, <3>3
      <4>2. QED
        BY <3>3, <4>1 DEF QueuesApart
    <3>4. CASE r # q /\ s # q
      BY <1>2, <2>1, <3>4 DEF QueuesApart
    <3>5. QED
      BY <3>1, <3>2, <3>3, <3>4
  <2>2. QED
    BY <2>1 DEF QueuesApart
<1>5. 1 \in 1 .. Len(Q[q])
  BY <1>1
<1>6. Queued(Q, Head(Q[q]))
  BY <1>1, <1>5 DEF Queued
<1>7. ASSUME NEW b \in Buffers, Queued(D, b)
      PROVE  Queued(Q, b) /\ b # Head(Q[q])
  <2>1. PICK r \in Places : \E i \in 1 .. Len(D[r]) : D[r][i] = b
    BY <1>7 DEF Queued
  <2>0. PICK i \in 1 .. Len(D[r]) : D[r][i] = b
    BY <2>1
  <2>2. CASE r = q
    <3>1. i + 1 \in 1 .. Len(Q[q]) /\ Q[q][i + 1] = b /\ i + 1 # 1
      BY <1>3, <2>0, <2>2
    <3>2. QED
      BY <1>1, <1>5, <3>1 DEF Queued, QueuesApart
  <2>3. CASE r # q
    <3>1. i \in 1 .. Len(Q[r]) /\ Q[r][i] = b
      BY <1>2, <2>0, <2>3
    <3>2. QED
      BY <1>1, <1>5, <2>3, <3>1 DEF Queued, QueuesApart
  <2>4. QED
    BY <2>2, <2>3
<1>8. ASSUME NEW b \in Buffers, Queued(Q, b), b # Head(Q[q])
      PROVE  Queued(D, b)
  <2>1. PICK r \in Places : \E i \in 1 .. Len(Q[r]) : Q[r][i] = b
    BY <1>8 DEF Queued
  <2>0. PICK i \in 1 .. Len(Q[r]) : Q[r][i] = b
    BY <2>1
  <2>2. CASE r = q
    <3>1. i - 1 \in 1 .. Len(Q[q]) - 1 /\ (i - 1) + 1 = i
      BY <1>1, <1>8, <2>0, <2>2
    <3>2. i - 1 \in 1 .. Len(D[q]) /\ D[q][i - 1] = b
      BY <1>1, <1>2, <2>0, <2>2, <3>1
    <3>3. QED
      BY <3>2 DEF Queued
  <2>3. CASE r # q
    BY <1>2, <2>0, <2>3 DEF Queued
  <2>4. QED
    BY <2>2, <2>3
<1>9. QED
  BY <1>1, <1>2, <1>4, <1>6, <1>7, <1>8 DEF D

\* A buffer that was in no queue comes to the end of one.
LEMMA AddLast ==
  ASSUME NEW Q \in [Places -> Seq(Buffers)], QueuesApart(Q),
         NEW q \in Places, NEW b \in Buffers, ~ Queued(Q, b)
  PROVE  /\ Added(Q, q, b) \in [Places -> Seq(Buffers)]
         /\ QueuesApart(Added(Q, q, b))
         /\ \A c \in Buffers : Queued(Added(Q, q, b), c) <=> Queued(Q, c) \/ c = b
<1> DEFINE A == Added(Q, q, b)
           L == Len(Q[q])
<1>1. /\ Q[q] \in Seq(Buffers) /\ Append(Q[q], b) \in Seq(Buffers)
      /\ L \in Nat /\ Len(Append(Q[q], b)) = L + 1
      /\ \A i \in 1 .. L : Append(Q[q], b)[i] = Q[q][i]
      /\ Append(Q[q], b)[L + 1] = b
  <2>1. Q[q] \in Seq(Buffers)
    OBVIOUS
  <2>2. QED
    BY <2>1, AppendProperties2
<1>2. /\ A \in [Places -> Seq(Buffers)] /\ A[q] = Append(Q[q], b)
      /\ \A r \in Places : r # q => A[r] = Q[r]
  BY <1>1 DEF Added
<1> HIDE DEF A, L
<1>3. ASSUME NEW r \in Places, NEW i \in 1 .. Len(A[r])
      PROVE  \/ i \in 1 .. Len(Q[r]) /\ A[r][i] = Q[r][i]
             \/ r = q /\ i = L + 1 /\ A[r][i] = b
  <2>1. CASE r # q
    BY <1>2, <2>1
  <2>2. CASE r = q
    <3>1. i \in 1 .. L + 1 /\ A[q] = Append(Q[q], b)
      BY <1>1, <1>2, <2>2
    <3>2. i \in 1 .. L \/ i = L + 1
      BY <1>1, <3>1
    <3>3. QED
      BY <1>1, <2>2, <3>1, <3>2 DEF L
  <2>3. QED
    BY <2>1, <2>2
<1>4. \A r \in Places : \A i \in 1 .. Len(Q[r]) : Q[r][i] # b
  BY DEF Queued
<1>5. QueuesApart(A)
  <2>1. ASSUME NEW r \in Places, NEW t \in Places, NEW i \in 1 .. Len(A[r]),
               NEW j \in 1 .. Len(A[t]), A[r][i] = A[t][j]
        PROVE  r = t /\ i = j
    <3>1. CASE i \in 1 .. Len(Q[r]) /\ A[r][i] = Q[r][i]
      <4>1. j \in 1 .. Len(Q[t]) /\ A[t][j] = Q[t][j]
        BY <1>3, <1>4, <2>1, <3>1
      <4>2. Q[r][i] = Q[t][j]
        BY <2>1, <3>1, <4>1
      <4>3. QED
        BY <3>1, <4>1, <4>2 DEF QueuesApart
    <3>2. CASE r = q /\ i = L + 1 /\ A[r][i] = b
      <4>1. t = q /\ j = L + 1
        BY <1>3, <1>4, <2>1, <3>2
      <4>2. QED
        BY <3>2, <4>1
    <3>3. QED
      BY <1>3, <3>1, <3>2
  <2>2. QED
    BY <2>1 DEF QueuesApart
<1>6. ASSUME NEW c \in Buffers, Queued(A, c)
      PROVE  Queued(Q, c) \/ c = b
  BY <1>3, <1>6 DEF Queued
<1>7. ASSUME NEW c \in Buffers, Queued(Q, c) \/ c = b
      PROVE  Queued(A, c)
  <2>1. CASE c = b
    <3>1. L + 1 \in 1 .. Len(A[q]) /\ A[q][L + 1] = b
      BY <1>1, <1>2
    <3>2. QED
      BY <2>1, <3>1 DEF Queued
  <2>2. CASE Queued(Q, c)
    <3>1. PICK r \in Places : \E i \in 1 .. Len(Q[r]) : Q[r][i] = c
      BY <2>2 DEF Queued
    <3>0. PICK i \in 1 .. Len(Q[r]) : Q[r][i] = c
      BY <3>1
    <3>2. i \in 1 .. Len(A[r]) /\ A[r][i] = c
      <4>1. CASE r # q
        BY <1>2, <3>0, <4>1
      <4>2. CASE r = q
        <5>1. i \in 1 .. L /\ A[q] = Append(Q[q], b)
          BY <1>2, <3>0, <4>2 DEF L
        <5>2. QED
          BY <1>1, <3>0, <4>2, <5>1
      <4>3. QED
        BY <4>1, <4>2
    <3>3. QED
      BY <3>2 DEF Queued
  <2>3. QED
    BY <1>7, <2>1, <2>2
<1>8. QED
  BY <1>2, <1>5, <1>6, <1>7 DEF A

-----------------------------------------------------------------------------
(* What the pool's invariant survives.                                     *)

HandTypes(H) == H \in [Threads -> Buffers \cup {NoBuffer}]

\* An empty hand holds no buffer.
LEMMA BufferIsNotNone == NoBuffer \notin Buffers
BY ShmAssumption DEF NoBuffer, Buffers

\* The head of one queue moves to the end of another.
LEMMA OwnedMove ==
  ASSUME NEW Q \in [Places -> Seq(Buffers)], NEW H, NEW M, Owned(Q, H, M),
         NEW q \in Places, NEW r \in Places, q # r, Q[q] # <<>>
  PROVE  Owned(Added(Dropped(Q, q), r, Head(Q[q])), H, M)
<1> DEFINE b == Head(Q[q])
           D == Dropped(Q, q)
           A == Added(D, r, b)
<1>1. /\ D \in [Places -> Seq(Buffers)] /\ QueuesApart(D)
      /\ b \in Buffers /\ Queued(Q, b)
      /\ \A c \in Buffers : Queued(D, c) <=> Queued(Q, c) /\ c # b
  BY DropHead DEF Owned
<1> HIDE DEF b, D
<1>2. ~ Queued(D, b)
  BY <1>1
<1>3. QueuesApart(A) /\ \A c \in Buffers : Queued(A, c) <=> Queued(D, c) \/ c = b
  BY <1>1, <1>2, AddLast
<1> HIDE DEF A
<1>4. \A c \in Buffers : Queued(A, c) <=> Queued(Q, c)
  BY <1>1, <1>3
<1>5. Owned(A, H, M)
  BY <1>3, <1>4 DEF Owned
<1>6. QED
  BY <1>5 DEF A, D, b

\* The head of a queue is taken into an empty hand.
LEMMA OwnedTake ==
  ASSUME NEW Q \in [Places -> Seq(Buffers)], NEW H, NEW M, HandTypes(H), Owned(Q, H, M),
         NEW q \in Places, Q[q] # <<>>, NEW t \in Threads, H[t] = NoBuffer
  PROVE  Owned(Dropped(Q, q), [H EXCEPT ![t] = Head(Q[q])], M)
<1> DEFINE b == Head(Q[q])
           D == Dropped(Q, q)
           G == [H EXCEPT ![t] = b]
<1>1. /\ QueuesApart(D)
      /\ b \in Buffers /\ Queued(Q, b)
      /\ \A c \in Buffers : Queued(D, c) <=> Queued(Q, c) /\ c # b
  BY DropHead DEF Owned
<1> HIDE DEF b, D
<1>2. \A u \in Threads : G[u] = IF u = t THEN b ELSE H[u]
  BY DEF HandTypes
<1> HIDE DEF G
<1>3. ~ Held(H, b)
  BY <1>1 DEF Owned
<1>4. HandsApart(G)
  BY <1>2, <1>3 DEF HandsApart, Held, Owned
<1>5. \A c \in Buffers : Held(G, c) <=> Held(H, c) \/ c = b
  BY <1>2, BufferIsNotNone DEF Held
<1>6. Owned(D, G, M)
  BY <1>1, <1>3, <1>4, <1>5 DEF Owned
<1>7. QED
  BY <1>6 DEF G, D, b

\* The buffer in a hand is appended to a queue.
LEMMA OwnedPut ==
  ASSUME NEW Q \in [Places -> Seq(Buffers)], NEW H, NEW M, HandTypes(H), Owned(Q, H, M),
         NEW q \in Places, NEW t \in Threads, H[t] \in Buffers
  PROVE  Owned(Added(Q, q, H[t]), [H EXCEPT ![t] = NoBuffer], M)
<1> DEFINE b == H[t]
           A == Added(Q, q, b)
           G == [H EXCEPT ![t] = NoBuffer]
<1>1. Held(H, b) /\ ~ Queued(Q, b)
  BY DEF Held, Owned
<1>2. QueuesApart(A) /\ \A c \in Buffers : Queued(A, c) <=> Queued(Q, c) \/ c = b
  BY <1>1, AddLast DEF Owned
<1> HIDE DEF A
<1>3. \A u \in Threads : G[u] = IF u = t THEN NoBuffer ELSE H[u]
  BY DEF HandTypes
<1> HIDE DEF G
<1>4. HandsApart(G)
  BY <1>3, BufferIsNotNone DEF HandsApart, Owned
<1>5. \A c \in Buffers : Held(G, c) <=> Held(H, c) /\ c # b
  BY <1>3, BufferIsNotNone DEF Held, HandsApart, Owned
<1>6. Owned(A, G, M)
  BY <1>1, <1>2, <1>4, <1>5 DEF Owned
<1>7. QED
  BY <1>6 DEF G, A

\* A clear bit is set and its buffer taken into an empty hand.
LEMMA OwnedAlloc ==
  ASSUME NEW Q, NEW H, NEW M, HandTypes(H), Owned(Q, H, M),
         NEW b \in Buffers \ M, NEW t \in Threads, H[t] = NoBuffer
  PROVE  Owned(Q, [H EXCEPT ![t] = b], M \cup {b})
<1> DEFINE G == [H EXCEPT ![t] = b]
<1>1. ~ Held(H, b) /\ ~ Queued(Q, b)
  BY DEF Owned
<1>2. \A u \in Threads : G[u] = IF u = t THEN b ELSE H[u]
  BY DEF HandTypes
<1> HIDE DEF G
<1>3. HandsApart(G)
  BY <1>1, <1>2 DEF HandsApart, Held, Owned
<1>4. \A c \in Buffers : Held(G, c) <=> Held(H, c) \/ c = b
  BY <1>2, BufferIsNotNone DEF Held
<1>5. Owned(Q, G, M \cup {b})
  BY <1>1, <1>3, <1>4 DEF Owned
<1>6. QED
  BY <1>5 DEF G

\* The buffer in a hand is given back and its bit cleared.
LEMMA OwnedFree ==
  ASSUME NEW Q, NEW H, NEW M, HandTypes(H), Owned(Q, H, M),
         NEW t \in Threads, H[t] \in Buffers
  PROVE  H[t] \in M /\ Owned(Q, [H EXCEPT ![t] = NoBuffer], M \ {H[t]})
<1> DEFINE b == H[t]
           G == [H EXCEPT ![t] = NoBuffer]
<1>1. Held(H, b) /\ ~ Queued(Q, b)
  BY DEF Held, Owned
<1>2. \A u \in Threads : G[u] = IF u = t THEN NoBuffer ELSE H[u]
  BY DEF HandTypes
<1> HIDE DEF G
<1>3. HandsApart(G)
  BY <1>2, BufferIsNotNone DEF HandsApart, Owned
<1>4. \A c \in Buffers : Held(G, c) <=> Held(H, c) /\ c # b
  BY <1>2, BufferIsNotNone DEF Held, HandsApart, Owned
<1>5. b \in M /\ Owned(Q, G, M \ {b})
  BY <1>1, <1>3, <1>4 DEF Owned
<1>6. QED
  BY <1>5 DEF G

-----------------------------------------------------------------------------
(* How the steps of the driver act on hands and queues.                    *)

Skip(n) == IF HeadTaken(n) THEN 1 ELSE 0

\* The ring as a queue: the visible descriptors, less one the receive thread has
\* already taken.
LEMMA RingQueue ==
  ASSUME DriverInv, NEW n \in Nodes
  PROVE  /\ Skip(n) \in {0, 1} /\ count[n] - Skip(n) \in 0 .. RingSize
         /\ Queue(n, "ring") =
              [i \in 1 .. count[n] - Skip(n) |-> Desc(n, Skip(n) + i - 1).buf]
         /\ Queue(n, "ring") \in Seq(Buffers)
         /\ Len(Queue(n, "ring")) = count[n] - Skip(n)
<1>1. /\ get[n] \in Int /\ count[n] \in 0 .. RingSize /\ RingSize \in Nat
      /\ HeadTaken(n) => count[n] > 0
      /\ \A o \in 0 .. count[n] - 1 : Filled(Desc(n, o).buf)
  BY ShmAssumption DEF DriverInv, TypeOK, RingTypes, RingsSound, RingSound, Slots
<1>2. Skip(n) \in {0, 1} /\ count[n] - Skip(n) \in 0 .. RingSize
  BY <1>1 DEF Skip
<1>3. ASSUME NEW i \in 1 .. count[n] - Skip(n)
      PROVE  Pending(n)[i] = Desc(n, Skip(n) + i - 1)
  <2>1. get[n] + Skip(n) + i - 1 = get[n] + (Skip(n) + i - 1)
    BY <1>1, <1>2
  <2>2. QED
    BY <2>1 DEF Pending, Desc, Skip
<1>4. DOMAIN Pending(n) = 1 .. count[n] - Skip(n)
  BY DEF Pending, Skip
<1>5. Queue(n, "ring") = [i \in DOMAIN Pending(n) |-> Pending(n)[i].buf]
  BY DEF Queue
<1>6. Queue(n, "ring") =
        [i \in 1 .. count[n] - Skip(n) |-> Desc(n, Skip(n) + i - 1).buf]
  BY <1>3, <1>4, <1>5
<1>7. ASSUME NEW i \in 1 .. count[n] - Skip(n)
      PROVE  Desc(n, Skip(n) + i - 1).buf \in Buffers
  <2>1. Skip(n) + i - 1 \in 0 .. count[n] - 1
    BY <1>1, <1>2
  <2>2. QED
    BY <1>1, <2>1 DEF Filled
<1>8. Queue(n, "ring") \in Seq(Buffers) /\ Len(Queue(n, "ring")) = count[n] - Skip(n)
  BY <1>2, <1>6, <1>7
<1>9. QED
  BY <1>2, <1>6, <1>8

\* The same of the next state.
RingQueueShape == \A n \in Nodes :
  Queue(n, "ring") = [i \in 1 .. count[n] - Skip(n) |-> Desc(n, Skip(n) + i - 1).buf]

\* Of every node.
LEMMA RingQueueNow == DriverInv => RingQueueShape
BY RingQueue DEF RingQueueShape

\* The same after a step.
LEMMA RingQueueNext == DriverInv' => RingQueueShape'
BY RingQueueNow, PTL

\* The other queues are variables.
LEMMA OtherQueues ==
  ASSUME NEW n
  PROVE  /\ Queue(n, "prio0") = rxQueue[n][0]
         /\ Queue(n, "prio1") = rxQueue[n][1]
         /\ Queue(n, "endp") = endpQueue[n]
BY DEF Queue

\* Queues hold buffers, and a hand one or none.
LEMMA QueueTypes ==
  ASSUME DriverInv
  PROVE  /\ Queues \in [Places -> Seq(Buffers)]
         /\ HandTypes(Hands)
<1>1. ASSUME NEW n \in Nodes, NEW k \in Stages
      PROVE  Queue(n, k) \in Seq(Buffers)
  BY RingQueue, OtherQueues DEF DriverInv, TypeOK, NodeTypes, Stages, Prios
<1>2. Queues \in [Places -> Seq(Buffers)]
  BY <1>1 DEF Queues, Places
<1>3. HandTypes(Hands)
  BY DEF HandTypes, Hands, DriverInv, TypeOK, ThreadTypes
<1>4. QED
  BY <1>2, <1>3

\* The queues as a function, at each place.
LEMMA QueuesAt ==
  /\ Queues = [q \in Places |-> Queues[q]]
  /\ \A n \in Nodes, k \in Stages : <<n, k>> \in Places /\ Queues[<<n, k>>] = Queue(n, k)
  /\ Queues' = [q \in Places |-> Queues'[q]]
  /\ \A n \in Nodes, k \in Stages : Queues'[<<n, k>>] = Queue(n, k)'
  /\ \A q \in Places : \E n \in Nodes, k \in Stages : q = <<n, k>>
BY DEF Queues, Places

\* No queue changes.
LEMMA QueuesSame ==
  ASSUME \A n \in Nodes, k \in Stages : Queue(n, k)' = Queue(n, k)
  PROVE  Queues' = Queues
BY DEF Queues, Places

\* One queue loses its head.
LEMMA QueuesDropped ==
  ASSUME NEW n \in Nodes, NEW k \in Stages,
         Queue(n, k)' = Tail(Queue(n, k)),
         \A m \in Nodes, l \in Stages : <<m, l>> # <<n, k>> => Queue(m, l)' = Queue(m, l)
  PROVE  Queues' = Dropped(Queues, <<n, k>>)
<1>1. ASSUME NEW q \in Places
      PROVE  Queues'[q] = Dropped(Queues, <<n, k>>)[q]
  <2>1. PICK m \in Nodes, l \in Stages : q = <<m, l>>
    BY QueuesAt
  <2>2. Queues[q] = Queue(m, l) /\ Queues'[q] = Queue(m, l)'
    BY <2>1, QueuesAt
  <2>3. CASE q = <<n, k>>
    <3>1. m = n /\ l = k
      BY <2>1, <2>3
    <3>2. QED
      BY <2>2, <2>3, <3>1, QueuesAt DEF Dropped
  <2>4. CASE q # <<n, k>>
    BY <2>1, <2>2, <2>4, QueuesAt DEF Dropped
  <2>5. QED
    BY <2>3, <2>4
<1>2. Dropped(Queues, <<n, k>>) = [q \in Places |-> Dropped(Queues, <<n, k>>)[q]]
  BY QueuesAt DEF Dropped
<1>3. QED
  BY <1>1, <1>2, QueuesAt

\* One queue is appended to.
LEMMA QueuesAdded ==
  ASSUME NEW n \in Nodes, NEW k \in Stages, NEW b,
         Queue(n, k)' = Append(Queue(n, k), b),
         \A m \in Nodes, l \in Stages : <<m, l>> # <<n, k>> => Queue(m, l)' = Queue(m, l)
  PROVE  Queues' = Added(Queues, <<n, k>>, b)
<1>1. ASSUME NEW q \in Places
      PROVE  Queues'[q] = Added(Queues, <<n, k>>, b)[q]
  <2>1. PICK m \in Nodes, l \in Stages : q = <<m, l>>
    BY QueuesAt
  <2>2. Queues[q] = Queue(m, l) /\ Queues'[q] = Queue(m, l)'
    BY <2>1, QueuesAt
  <2>3. CASE q = <<n, k>>
    <3>1. m = n /\ l = k
      BY <2>1, <2>3
    <3>2. QED
      BY <2>2, <2>3, <3>1, QueuesAt DEF Added
  <2>4. CASE q # <<n, k>>
    BY <2>1, <2>2, <2>4, QueuesAt DEF Added
  <2>5. QED
    BY <2>3, <2>4
<1>2. Added(Queues, <<n, k>>, b) = [q \in Places |-> Added(Queues, <<n, k>>, b)[q]]
  BY QueuesAt DEF Added
<1>3. QED
  BY <1>1, <1>2, QueuesAt

\* The head of one queue goes to the end of another of the same node.
LEMMA QueuesMoved ==
  ASSUME NEW n \in Nodes, NEW k \in Stages, NEW j \in Stages, j # k,
         Queue(n, k)' = Tail(Queue(n, k)),
         Queue(n, j)' = Append(Queue(n, j), Head(Queue(n, k))),
         \A m \in Nodes, l \in Stages :
           <<m, l>> # <<n, k>> /\ <<m, l>> # <<n, j>> => Queue(m, l)' = Queue(m, l)
  PROVE  Queues' = Added(Dropped(Queues, <<n, k>>), <<n, j>>, Head(Queues[<<n, k>>]))
<1> DEFINE A == Added(Dropped(Queues, <<n, k>>), <<n, j>>, Head(Queues[<<n, k>>]))
<1>1. /\ <<n, j>> # <<n, k>>
      /\ A = [q \in Places |-> A[q]]
      /\ \A q \in Places : A[q] = IF q = <<n, j>> THEN Append(Queues[q], Head(Queues[<<n, k>>]))
                                  ELSE IF q = <<n, k>> THEN Tail(Queues[q]) ELSE Queues[q]
  BY QueuesAt DEF Added, Dropped
<1> HIDE DEF A
<1>2. ASSUME NEW q \in Places
      PROVE  Queues'[q] = A[q]
  <2>1. PICK m \in Nodes, l \in Stages : q = <<m, l>>
    BY QueuesAt
  <2>2. /\ Queues[q] = Queue(m, l) /\ Queues'[q] = Queue(m, l)'
        /\ Queues[<<n, k>>] = Queue(n, k)
    BY <2>1, QueuesAt
  <2>3. CASE q = <<n, j>>
    <3>1. m = n /\ l = j
      BY <2>1, <2>3
    <3>2. QED
      BY <1>1, <2>2, <2>3, <3>1
  <2>4. CASE q = <<n, k>>
    <3>1. m = n /\ l = k
      BY <2>1, <2>4
    <3>2. QED
      BY <1>1, <2>2, <2>4, <3>1
  <2>5. CASE q # <<n, j>> /\ q # <<n, k>>
    BY <1>1, <2>1, <2>2, <2>5
  <2>6. QED
    BY <2>3, <2>4, <2>5
<1>3. Queues' = A
  BY <1>1, <1>2, QueuesAt
<1>4. QED
  BY <1>3 DEF A

\* The queue of a ring that is left alone.
LEMMA RingQueueSame ==
  ASSUME NEW n \in Nodes, ring'[n] = ring[n], get'[n] = get[n], count'[n] = count[n],
         HeadTaken(n)' <=> HeadTaken(n)
  PROVE  Queue(n, "ring")' = Queue(n, "ring")
BY DEF Queue, Pending

\* A step that leaves the rings' queues and the others alone.
LEMMA QueuesUnchanged ==
  ASSUME \A n \in Nodes : Queue(n, "ring")' = Queue(n, "ring"),
         rxQueue' = rxQueue, endpQueue' = endpQueue
  PROVE  Queues' = Queues
<1>1. ASSUME NEW n \in Nodes, NEW k \in Stages
      PROVE  Queue(n, k)' = Queue(n, k)
  BY DEF Queue, Stages
<1>2. QED
  BY <1>1, QueuesSame

\* The descriptor that becomes visible joins the ring of the destination.
LEMMA CommitQueues ==
  ASSUME DriverInv, DriverInv', NEW n \in Nodes, EnqCommit(n)
  PROVE  /\ msg[Api(n)].dst \in Nodes /\ msg[Api(n)].prio \in Prios
         /\ Queues' = Added(Queues, <<msg[Api(n)].dst, "ring">>, buf[Api(n)])
<1>1. PICK d \in Nodes : d = msg[Api(n)].dst /\ msg[Api(n)].prio \in Prios
  BY MessageFacts DEF EnqCommit, Goto, DriverInv, CallsSound, CallSound, Sending, Enqueuing
<1>2. \A m \in Nodes : HeadTaken(m)' <=> HeadTaken(m)
  BY ThreadFacts, ThreadKinds
     DEF EnqCommit, Goto, HeadTaken, DriverInv, TypeOK, ThreadTypes
<1>3. ASSUME NEW m \in Nodes, m # d
      PROVE  Queue(m, "ring")' = Queue(m, "ring")
  BY <1>1, <1>2, <1>3, RingQueueSame DEF EnqCommit, DriverInv, TypeOK, RingTypes
<1>4. Queue(d, "ring")' = Append(Queue(d, "ring"), buf[Api(n)])
  <2>1. PICK s \in {0, 1}, c \in Nat :
          /\ s = Skip(d) /\ c = count[d] /\ c - s \in Nat
          /\ Skip(d)' = s /\ count'[d] = c + 1 /\ \A o : Desc(d, o)' = Desc(d, o)
    <3>1. count[d] \in Nat /\ count'[d] = count[d] + 1
      BY <1>1 DEF EnqCommit, DriverInv, TypeOK, RingTypes
    <3>2. Skip(d)' = Skip(d) /\ Skip(d) \in {0, 1} /\ count[d] - Skip(d) \in Nat
      BY <1>2, RingQueue DEF Skip
    <3>3. \A o : Desc(d, o)' = Desc(d, o)
      BY DEF EnqCommit, Desc
    <3>4. QED
      BY <3>1, <3>2, <3>3
  <2>2. Desc(d, c).buf = buf[Api(n)]
    <3>1. ring[d][put[d]] = [buf |-> buf[Api(n)], prio |-> msg[Api(n)].prio]
      BY <1>1 DEF EnqCommit, Goto, DriverInv, CallsSound, CallSound
    <3>2. Desc(d, c) = ring[d][put[d]]
      BY <2>1 DEF Desc, DriverInv, RingsSound, RingSound
    <3>3. QED
      BY <3>1, <3>2
  <2>3. Queue(d, "ring") = [i \in 1 .. c - s |-> Desc(d, s + i - 1).buf]
    BY <2>1, RingQueue
  <2>4. Queue(d, "ring")' = [i \in 1 .. (c + 1) - s |-> Desc(d, s + i - 1).buf]
    <3>1. Queue(d, "ring")'
            = [i \in 1 .. count'[d] - Skip(d)' |-> Desc(d, Skip(d) + i - 1)'.buf]
      BY RingQueueNext DEF RingQueueShape
    <3>2. QED
      BY <3>1, <2>1
  <2>5. s + ((c - s) + 1) - 1 = c /\ (c + 1) - s = (c - s) + 1
    BY <2>1
  <2>6. QED
    <3> DEFINE m == c - s
               F == [i \in 1 .. m + 1 |-> Desc(d, s + i - 1).buf]
    <3>1. Queue(d, "ring") \in Seq(Buffers) /\ Len(Queue(d, "ring")) = m
      BY <2>1, RingQueue
    <3>2. buf[Api(n)] \in Buffers
      BY DEF EnqCommit, Goto, DriverInv, BuffersSound, Filled, Enqueuing
    <3>3. \A i \in 1 .. m : Queue(d, "ring")[i] \in Buffers /\ F[i] = Queue(d, "ring")[i]
      BY <2>3, <3>1
    <3>4. m \in Nat /\ F[m + 1] = buf[Api(n)]
      <4>1. m \in Nat
        BY <2>1
      <4>2. F[m + 1] = Desc(d, s + (m + 1) - 1).buf /\ s + (m + 1) - 1 = c
        BY <2>1, <4>1
      <4>3. QED
        BY <2>1, <2>2, <2>5, <4>1, <4>2
    <3> HIDE DEF F, m
    <3>5. ASSUME NEW i \in 1 .. m + 1
          PROVE  F[i] \in Buffers
      <4>1. i \in 1 .. m \/ i = m + 1
        BY <3>4
      <4>2. QED
        BY <3>2, <3>3, <3>4, <4>1
    <3>6. [i \in 1 .. m + 1 |-> F[i]] = Append([i \in 1 .. m |-> F[i]], F[m + 1])
      BY <3>4, <3>5, AppendShape
    <3>7. [i \in 1 .. m |-> F[i]] = Queue(d, "ring")
      BY <2>3, <3>4 DEF F, m
    <3>8. [i \in 1 .. m + 1 |-> F[i]] = Queue(d, "ring")'
      BY <2>4, <2>5 DEF F, m
    <3>9. QED
      BY <3>4, <3>6, <3>7, <3>8
<1>5. rxQueue' = rxQueue /\ endpQueue' = endpQueue
  BY DEF EnqCommit, nodeVars
<1>6. ASSUME NEW m \in Nodes, NEW k \in Stages, <<m, k>> # <<d, "ring">>
      PROVE  Queue(m, k)' = Queue(m, k)
  BY <1>3, <1>5, <1>6 DEF Queue, Stages
<1>7. Queues' = Added(Queues, <<d, "ring">>, buf[Api(n)])
  BY <1>4, <1>6, QueuesAdded DEF Stages
<1>8. QED
  BY <1>1, <1>7

PrioStage(p) == IF p = 0 THEN "prio0" ELSE "prio1"

\* shm_poll moves the head of the ring to the receive queue of its priority.
LEMMA PollQueues ==
  ASSUME DriverInv, DriverInv', NEW n \in Nodes, Poll(n), count[n] > 0
  PROVE  /\ NextDesc(n).prio \in Prios
         /\ Queue(n, "ring") # <<>> /\ Head(Queue(n, "ring")) = NextDesc(n).buf
         /\ Queues' = Added(Dropped(Queues, <<n, "ring">>), <<n, PrioStage(NextDesc(n).prio)>>,
                            Head(Queues[<<n, "ring">>]))
<1>1. PICK c \in Nat : /\ c = count[n] /\ c > 0 /\ count'[n] = c
                       /\ Skip(n) = 0 /\ Skip(n)' = 1
                       /\ \A o : Desc(n, o)' = Desc(n, o)
  <2>1. count[n] \in Nat /\ count' = count
    BY DEF Poll, ringVars, DriverInv, TypeOK, RingTypes
  <2>2. Skip(n) = 0
    BY DEF Poll, Skip, HeadTaken
  <2>3. Skip(n)' = 1
    BY ThreadFacts DEF Poll, Skip, HeadTaken, DriverInv, TypeOK, ThreadTypes
  <2>4. \A o : Desc(n, o)' = Desc(n, o)
    BY DEF Poll, ringVars, Desc
  <2>5. QED
    BY <2>1, <2>2, <2>3, <2>4
<1>2. /\ Queue(n, "ring") = [i \in 1 .. c |-> Desc(n, i - 1).buf]
      /\ Queue(n, "ring") \in Seq(Buffers) /\ Len(Queue(n, "ring")) = c
  <2>1. \A i \in 1 .. c : 0 + i - 1 = i - 1
    OBVIOUS
  <2>2. QED
    BY <1>1, <2>1, RingQueue
<1>3. Queue(n, "ring")' = [i \in 1 .. c - 1 |-> Desc(n, i).buf]
  <2>1. Queue(n, "ring")'
          = [i \in 1 .. count'[n] - Skip(n)' |-> Desc(n, Skip(n) + i - 1)'.buf]
    BY RingQueueNext DEF RingQueueShape
  <2>2. \A i \in 1 .. c - 1 : 1 + i - 1 = i
    OBVIOUS
  <2>3. QED
    BY <1>1, <2>1, <2>2
<1> DEFINE m == c - 1
           F == [i \in 1 .. m + 1 |-> Desc(n, i - 1).buf]
<1>4. m \in Nat /\ m + 1 = c /\ Queue(n, "ring") = [i \in 1 .. m + 1 |-> F[i]]
  BY <1>1, <1>2
<1>5. Queue(n, "ring")' = [i \in 1 .. m |-> F[i + 1]]
  <2>1. \A i \in 1 .. m : i + 1 \in 1 .. m + 1 /\ (i + 1) - 1 = i
    BY <1>4
  <2>2. \A i \in 1 .. m : F[i + 1] = Desc(n, i).buf
    BY <2>1
  <2>3. QED
    BY <1>3, <2>2
<1>6. F[1] = NextDesc(n).buf
  <2>1. F[1] = Desc(n, 0).buf
    BY <1>4
  <2>2. QED
    BY <2>1, HeadDesc DEF DriverInv, TypeOK, RingTypes
<1> HIDE DEF m, F
<1>7. \A i \in 1 .. m + 1 : F[i] \in Buffers
  BY <1>2, <1>4
<1>8. Queue(n, "ring")' = Tail(Queue(n, "ring")) /\ Head(Queue(n, "ring")) = NextDesc(n).buf
  BY <1>4, <1>5, <1>6, <1>7, TailShape
<1>9. PICK p \in Prios : p = NextDesc(n).prio
  BY DEF NextDesc, DriverInv, TypeOK, RingTypes
<1>10. /\ rxQueue' = [rxQueue EXCEPT ![n][p] = Append(rxQueue[n][p], NextDesc(n).buf)]
       /\ endpQueue' = endpQueue
  BY <1>1, <1>9 DEF Poll
<1>11. Queue(n, PrioStage(p))' = Append(Queue(n, PrioStage(p)), Head(Queue(n, "ring")))
  BY <1>8, <1>10 DEF PrioStage, Queue, Prios, DriverInv, TypeOK, NodeTypes
<1>12. \A k \in Nodes : k # n => Queue(k, "ring")' = Queue(k, "ring")
  <2>1. \A k \in Nodes : k # n => (HeadTaken(k)' <=> HeadTaken(k))
    BY ThreadFacts, ThreadKinds DEF Poll, HeadTaken, DriverInv, TypeOK, ThreadTypes
  <2>2. QED
    BY <2>1, RingQueueSame DEF Poll, ringVars
<1>13. ASSUME NEW k \in Nodes, NEW l \in Stages, <<k, l>> # <<n, "ring">>,
              <<k, l>> # <<n, PrioStage(p)>>
       PROVE  Queue(k, l)' = Queue(k, l)
  <2>1. \A q \in Prios : k # n \/ q # p => rxQueue'[k][q] = rxQueue[k][q]
    BY <1>10 DEF DriverInv, TypeOK, NodeTypes
  <2>2. CASE l = "ring"
    BY <1>12, <1>13, <2>2
  <2>3. CASE l = "prio0"
    <3>1. k # n \/ 0 # p
      BY <1>13, <2>3 DEF PrioStage
    <3>2. QED
      BY <2>1, <2>3, <3>1, OtherQueues DEF Queue, Prios
  <2>4. CASE l = "prio1"
    <3>1. k # n \/ 1 # p
      BY <1>13, <2>4 DEF PrioStage
    <3>2. QED
      BY <2>1, <2>4, <3>1, OtherQueues DEF Queue, Prios
  <2>5. CASE l = "endp"
    BY <1>10, <2>5 DEF Queue
  <2>6. QED
    BY <2>2, <2>3, <2>4, <2>5 DEF Stages
<1>14. PrioStage(p) \in Stages /\ PrioStage(p) # "ring" /\ "ring" \in Stages
  BY DEF PrioStage, Stages
<1>15. Queues' = Added(Dropped(Queues, <<n, "ring">>), <<n, PrioStage(p)>>,
                       Head(Queues[<<n, "ring">>]))
  BY <1>8, <1>11, <1>13, <1>14, QueuesMoved
<1>16. QED
  BY <1>1, <1>2, <1>8, <1>9, <1>15

\* shm_desc_consume drops a descriptor that was taken before: nothing moves.
LEMMA ConsumeQueues ==
  ASSUME DriverInv, DriverInv', NEW n \in Nodes, ConsUpdate(n)
  PROVE  Queues' = Queues
<1>1. PICK c \in Nat : /\ c = count[n] /\ c > 0 /\ c <= RingSize /\ count'[n] = c - 1
                       /\ Skip(n) = 1 /\ Skip(n)' = 0
                       /\ get[n] \in Slots /\ get'[n] = (get[n] + 1) % RingSize
                       /\ ring' = ring
  <2>1. /\ count[n] \in 0 .. RingSize /\ count'[n] = count[n] - 1
        /\ get[n] \in Slots /\ get'[n] = (get[n] + 1) % RingSize
        /\ ring' = ring
    BY DEF ConsUpdate, DriverInv, TypeOK, RingTypes
  <2>2. HeadTaken(n) /\ count[n] > 0
    BY DEF ConsUpdate, Goto, HeadTaken, DriverInv, RingsSound, RingSound
  <2>3. Skip(n) = 1
    BY <2>2 DEF Skip
  <2>4. Skip(n)' = 0
    BY ThreadFacts DEF ConsUpdate, Goto, Skip, HeadTaken, DriverInv, TypeOK, ThreadTypes
  <2>5. QED
    BY <2>1, <2>2, <2>3, <2>4, ShmAssumption
<1>2. ASSUME NEW i \in 1 .. c - 1
      PROVE  Desc(n, 0 + i - 1)' = Desc(n, 1 + i - 1)
  <2>1. /\ 0 + i - 1 = i - 1 /\ 1 + i - 1 = i /\ (i - 1) + 1 = i
        /\ i - 1 \in 0 .. RingSize - 1
    BY <1>1, ShmAssumption
  <2>2. (((get[n] + 1) % RingSize) + (i - 1)) % RingSize = (get[n] + ((i - 1) + 1)) % RingSize
    BY <1>1, <2>1, SlotShift
  <2>3. QED
    BY <1>1, <2>1, <2>2 DEF Desc
<1>3. Queue(n, "ring") = [i \in 1 .. c - 1 |-> Desc(n, 1 + i - 1).buf]
  BY <1>1, RingQueue
<1>4. Queue(n, "ring")' = [i \in 1 .. c - 1 |-> Desc(n, 0 + i - 1)'.buf]
  <2>1. Queue(n, "ring")'
          = [i \in 1 .. count'[n] - Skip(n)' |-> Desc(n, Skip(n) + i - 1)'.buf]
    BY RingQueueNext DEF RingQueueShape
  <2>2. QED
    BY <1>1, <2>1
<1>5. Queue(n, "ring")' = Queue(n, "ring")
  BY <1>2, <1>3, <1>4
<1>6. \A k \in Nodes : k # n => Queue(k, "ring")' = Queue(k, "ring")
  <2>1. \A k \in Nodes : k # n => (HeadTaken(k)' <=> HeadTaken(k))
    BY ThreadFacts, ThreadKinds
       DEF ConsUpdate, Goto, HeadTaken, DriverInv, TypeOK, ThreadTypes
  <2>2. QED
    BY <2>1, RingQueueSame DEF ConsUpdate, DriverInv, TypeOK, RingTypes
<1>7. QED
  BY <1>5, <1>6, QueuesUnchanged DEF ConsUpdate, nodeVars

\* mcapi_rx_data takes the head of a receive queue; for an open endpoint it
\* joins the queue of the endpoint.
LEMMA DeliverQueues ==
  ASSUME DriverInv, NEW n \in Nodes, RxDeliver(n)
  PROVE  LET k == PrioStage(NextPrio(n))
             q == <<n, k>> IN
         /\ k \in Stages /\ Queue(n, k) = rxQueue[n][NextPrio(n)] /\ Queue(n, k) # <<>>
         /\ content[Head(Queue(n, k))].known =>
              Queues' = Added(Dropped(Queues, q), <<n, "endp">>, Head(Queues[q]))
         /\ ~ content[Head(Queue(n, k))].known => Queues' = Dropped(Queues, q)
<1>1. PICK p \in Prios : p = NextPrio(n)
  BY DEF NextPrio, Prios
<1>2. PICK k \in Stages : k = PrioStage(p) /\ k \in {"prio0", "prio1"}
  BY DEF PrioStage, Stages
<1>3. Queue(n, k) = rxQueue[n][p] /\ rxQueue[n][p] # <<>>
  BY <1>1, <1>2 DEF PrioStage, Prios, Queue, RxDeliver
<1>4. rxQueue' = [rxQueue EXCEPT ![n][p] = Tail(rxQueue[n][p])]
  BY <1>1 DEF RxDeliver
<1>5. Queue(n, k)' = Tail(Queue(n, k))
  BY <1>2, <1>3, <1>4 DEF PrioStage, Prios, Queue, DriverInv, TypeOK, NodeTypes
<1>6. \A m \in Nodes : Queue(m, "ring")' = Queue(m, "ring")
  <2>1. \A m \in Nodes : HeadTaken(m)' <=> HeadTaken(m)
    BY ThreadFacts, ThreadKinds DEF RxDeliver, HeadTaken, DriverInv, TypeOK, ThreadTypes
  <2>2. QED
    BY <2>1, RingQueueSame DEF RxDeliver, ringVars
<1>7. ASSUME NEW m \in Nodes, NEW l \in Stages, <<m, l>> # <<n, k>>, l # "endp"
      PROVE  Queue(m, l)' = Queue(m, l)
  <2>1. \A q \in Prios : m # n \/ q # p => rxQueue'[m][q] = rxQueue[m][q]
    BY <1>4 DEF DriverInv, TypeOK, NodeTypes
  <2>2. CASE l = "ring"
    BY <1>6, <2>2
  <2>3. CASE l = "prio0"
    <3>1. m # n \/ 0 # p
      BY <1>2, <1>7, <2>3 DEF PrioStage
    <3>2. QED
      BY <2>1, <2>3, <3>1 DEF Queue, Prios
  <2>4. CASE l = "prio1"
    <3>1. m # n \/ 1 # p
      BY <1>2, <1>7, <2>4 DEF PrioStage
    <3>2. QED
      BY <2>1, <2>4, <3>1 DEF Queue, Prios
  <2>5. QED
    BY <1>7, <2>2, <2>3, <2>4 DEF Stages
<1>8. CASE content[Head(Queue(n, k))].known
  <2>1. endpQueue' = [endpQueue EXCEPT ![n] = Append(endpQueue[n], Head(Queue(n, k)))]
    BY <1>1, <1>3, <1>8 DEF RxDeliver
  <2>2. Queue(n, "endp")' = Append(Queue(n, "endp"), Head(Queue(n, k)))
    BY <2>1 DEF Queue, DriverInv, TypeOK, NodeTypes
  <2>3. \A m \in Nodes : m # n => Queue(m, "endp")' = Queue(m, "endp")
    BY <2>1 DEF Queue, DriverInv, TypeOK, NodeTypes
  <2>4. Queues' = Added(Dropped(Queues, <<n, k>>), <<n, "endp">>, Head(Queues[<<n, k>>]))
    <3>1. \A m \in Nodes, l \in Stages :
            <<m, l>> # <<n, k>> /\ <<m, l>> # <<n, "endp">> => Queue(m, l)' = Queue(m, l)
      BY <1>7, <2>3
    <3>2. "endp" \in Stages /\ "endp" # k
      BY <1>2 DEF Stages
    <3>3. QED
      BY <1>5, <2>2, <3>1, <3>2, QueuesMoved
  <2>5. QED
    BY <1>1, <1>2, <1>3, <1>8, <2>4
<1>9. CASE ~ content[Head(Queue(n, k))].known
  <2>1. endpQueue' = endpQueue
    BY <1>1, <1>3, <1>9 DEF RxDeliver
  <2>2. \A m \in Nodes : Queue(m, "endp")' = Queue(m, "endp")
    BY <2>1 DEF Queue
  <2>3. Queues' = Dropped(Queues, <<n, k>>)
    BY <1>5, <1>7, <2>2, QueuesDropped
  <2>4. QED
    BY <1>1, <1>2, <1>3, <1>9, <2>3
<1>10. QED
  BY <1>8, <1>9

\* msg_recv takes the head of the endpoint's queue.
LEMMA ReceiveQueues ==
  ASSUME DriverInv, NEW n \in Nodes, Receive(n)
  PROVE  /\ Queue(n, "endp") = endpQueue[n] /\ Queue(n, "endp") # <<>>
         /\ Queues' = Dropped(Queues, <<n, "endp">>)
<1>1. Queue(n, "endp") = endpQueue[n] /\ Queue(n, "endp") # <<>>
  BY DEF Receive, Queue
<1>2. endpQueue' = [endpQueue EXCEPT ![n] = Tail(endpQueue[n])] /\ rxQueue' = rxQueue
  BY DEF Receive
<1>3. Queue(n, "endp")' = Tail(Queue(n, "endp"))
  BY <1>2 DEF Queue, DriverInv, TypeOK, NodeTypes
<1>4. \A m \in Nodes : Queue(m, "ring")' = Queue(m, "ring")
  <2>1. \A m \in Nodes : HeadTaken(m)' <=> HeadTaken(m)
    BY ThreadFacts, ThreadKinds
       DEF Receive, Goto, HeadTaken, DriverInv, TypeOK, ThreadTypes
  <2>2. QED
    BY <2>1, RingQueueSame DEF Receive, ringVars
<1>5. ASSUME NEW m \in Nodes, NEW l \in Stages, <<m, l>> # <<n, "endp">>
      PROVE  Queue(m, l)' = Queue(m, l)
  <2>1. l # "endp" \/ m # n
    BY <1>5
  <2>2. QED
    BY <1>2, <1>4, <2>1 DEF Queue, Stages, DriverInv, TypeOK, NodeTypes
<1>6. "endp" \in Stages
  BY DEF Stages
<1>7. QED
  BY <1>1, <1>3, <1>5, <1>6, QueuesDropped

\* shm_desc_enqueue writes at put_idx, where no visible descriptor is.
LEMMA StoreQueues ==
  ASSUME DriverInv, DriverInv', NEW n \in Nodes, EnqStore(n)
  PROVE  Queues' = Queues
<1>1. PICK d \in Nodes : d = msg[Api(n)].dst
  BY MessageFacts DEF EnqStore, Goto, DriverInv, CallsSound, CallSound, Sending, Enqueuing
<1>2. \A m \in Nodes : HeadTaken(m)' <=> HeadTaken(m)
  BY ThreadFacts, ThreadKinds
     DEF EnqStore, Goto, HeadTaken, DriverInv, TypeOK, ThreadTypes
<1>3. rxQueue' = rxQueue /\ endpQueue' = endpQueue /\ get' = get /\ count' = count
  BY DEF EnqStore, nodeVars
<1>4. CASE RingFull(d)
  <2>1. ring' = ring
    BY <1>1, <1>4 DEF EnqStore
  <2>2. QED
    BY <1>2, <1>3, <2>1, RingQueueSame, QueuesUnchanged
<1>5. CASE ~ RingFull(d)
  <2>1. /\ get[d] \in Slots /\ put[d] \in Slots /\ count[d] \in 0 .. RingSize - 1
        /\ put[d] = (get[d] + count[d]) % RingSize
    <3>1. get[d] \in Slots /\ put[d] \in Slots /\ count[d] \in 0 .. RingSize
      BY DEF DriverInv, TypeOK, RingTypes
    <3>2. count[d] \in 0 .. RingSize - 1
      BY <1>5, <3>1, ShmAssumption DEF RingFull
    <3>3. QED
      BY <3>1, <3>2 DEF DriverInv, RingsSound, RingSound
  <2>2. ring' = [ring EXCEPT ![d][put[d]] =
                   [buf |-> buf[Api(n)], prio |-> msg[Api(n)].prio]]
    BY <1>1, <1>5 DEF EnqStore
  <2>3. ASSUME NEW m \in Nodes, m # d
        PROVE  Queue(m, "ring")' = Queue(m, "ring")
    BY <1>2, <1>3, <2>2, <2>3, RingQueueSame DEF DriverInv, TypeOK, RingTypes
  <2>4. ASSUME NEW o \in 0 .. count[d] - 1
        PROVE  Desc(d, o)' = Desc(d, o)
    <3>1. o \in 0 .. RingSize - 1 /\ o # count[d] /\ o \in 0 .. RingSize
      BY <2>1, ShmAssumption
    <3>2. (get[d] + o) % RingSize # put[d] /\ (get[d] + o) % RingSize \in Slots
      BY <2>1, <3>1, SlotInjective, ModWrap
    <3>3. QED
      BY <1>3, <2>1, <2>2, <3>2 DEF Desc, DriverInv, TypeOK, RingTypes
  <2>5. PICK s \in {0, 1}, c \in Nat :
          /\ s = Skip(d) /\ s = Skip(d)' /\ c = count[d] /\ c = count'[d]
          /\ c - s \in Nat
    BY <1>2, <1>3, <2>1, RingQueue DEF Skip
  <2>6. Queue(d, "ring") = [i \in 1 .. c - s |-> Desc(d, s + i - 1).buf]
    BY <2>5, RingQueue
  <2>7. Queue(d, "ring")' = [i \in 1 .. c - s |-> Desc(d, s + i - 1)'.buf]
    <3>1. Queue(d, "ring")'
            = [i \in 1 .. count'[d] - Skip(d)' |-> Desc(d, Skip(d) + i - 1)'.buf]
      BY RingQueueNext DEF RingQueueShape
    <3>2. QED
      BY <2>5, <3>1
  <2>8. \A i \in 1 .. c - s : s + i - 1 \in 0 .. count[d] - 1
    BY <2>5
  <2>9. Queue(d, "ring")' = Queue(d, "ring")
    BY <2>4, <2>6, <2>7, <2>8
  <2>10. QED
    BY <1>3, <2>3, <2>9, QueuesUnchanged
<1>6. QED
  BY <1>4, <1>5

Quiet ==
  \/ \E call \in Traffic : StartSend(call)
  \/ \E n \in Nodes : \/ GetBuffer(n)
                      \/ EnqLock(n) \/ EnqStore(n) \/ EnqUnlock(n) \/ Notify(n)
                      \/ Interrupt(n)
                      \/ RxWait(n) \/ (Poll(n) /\ count[n] = 0)
                      \/ ConsLock(n) \/ ConsUpdate(n) \/ ConsUnlock(n)
                      \/ RxLock(n) \/ RxDone(n)
  \/ \E t \in Threads : Free(t)

\* No other step touches a queue.
LEMMA QuietQueues ==
  ASSUME DriverInv, DriverInv', Quiet
  PROVE  Queues' = Queues
<1> USE ThreadFacts, ThreadKinds DEF Goto, DriverInv, TypeOK, ThreadTypes
<1>1. ASSUME \A m \in Nodes : HeadTaken(m)' <=> HeadTaken(m),
             ring' = ring, get' = get, count' = count,
             rxQueue' = rxQueue, endpQueue' = endpQueue
      PROVE  Queues' = Queues
  BY <1>1, RingQueueSame, QueuesUnchanged
<1>2. CASE \E call \in Traffic : StartSend(call)
  <2>1. \A m \in Nodes : HeadTaken(m)' <=> HeadTaken(m)
    BY <1>2, CallFacts DEF StartSend, HeadTaken
  <2>2. QED
    BY <1>1, <1>2, <2>1 DEF StartSend, ringVars
<1>3. ASSUME NEW n \in Nodes, GetBuffer(n) \/ EnqLock(n) \/ EnqUnlock(n) \/ Notify(n)
      PROVE  Queues' = Queues
  <2>1. \A m \in Nodes : HeadTaken(m)' <=> HeadTaken(m)
    BY <1>3 DEF GetBuffer, GetLock, GetScan, GetMark, GetUnlock, EnqLock, EnqUnlock, Notify,
                Return, HeadTaken
  <2>2. /\ ring' = ring /\ get' = get /\ count' = count
        /\ rxQueue' = rxQueue /\ endpQueue' = endpQueue
    BY <1>3 DEF GetBuffer, GetLock, GetScan, GetMark, GetUnlock, EnqLock, EnqUnlock, Notify,
                ringVars, nodeVars
  <2>3. QED
    BY <1>1, <2>1, <2>2
<1>4. ASSUME NEW n \in Nodes,
             Interrupt(n) \/ RxWait(n) \/ (Poll(n) /\ count[n] = 0) \/ ConsLock(n)
             \/ ConsUnlock(n) \/ RxLock(n) \/ RxDone(n)
      PROVE  Queues' = Queues
  <2>1. \A m \in Nodes : HeadTaken(m)' <=> HeadTaken(m)
    BY <1>4 DEF Interrupt, RxWait, Poll, ConsLock, ConsUnlock, RxLock, RxDone, HeadTaken
  <2>2. /\ ring' = ring /\ get' = get /\ count' = count
        /\ rxQueue' = rxQueue /\ endpQueue' = endpQueue
    BY <1>4 DEF Interrupt, RxWait, Poll, ConsLock, ConsUnlock, RxLock, RxDone, ringVars,
                nodeVars
  <2>3. QED
    BY <1>1, <2>1, <2>2
<1>5. ASSUME NEW t \in Threads, Free(t)
      PROVE  Queues' = Queues
  <2>1. \A m \in Nodes : HeadTaken(m)' <=> HeadTaken(m)
    BY <1>5 DEF Free, FreeLock, FreeClear, FreeUnlock, AfterFree, HeadTaken
  <2>2. QED
    BY <1>1, <1>5, <2>1 DEF Free, FreeLock, FreeClear, FreeUnlock, ringVars, nodeVars
<1>6. QED
  BY <1>2, <1>3, <1>4, <1>5, StoreQueues, ConsumeQueues DEF Quiet

\* What each thread has in hand, before and after a step.
LEMMA HandsAt ==
  \A t \in Threads : /\ Hands[t] = IF InHand(t) THEN buf[t] ELSE NoBuffer
                     /\ Hands'[t] = IF InHand(t)' THEN buf'[t] ELSE NoBuffer
BY DEF Hands

\* A step only changes the hand of the thread that takes it.
LEMMA HandsFrame ==
  ASSUME NEW t \in Threads, NEW h, Hands'[t] = h,
         \A u \in Threads : u # t => pc'[u] = pc[u] /\ buf'[u] = buf[u] /\ (ok'[u] <=> ok[u])
  PROVE  Hands' = [Hands EXCEPT ![t] = h]
<1>1. \A u \in Threads : u # t => (InHand(u)' <=> InHand(u))
  BY DEF InHand
<1>2. \A u \in Threads : Hands'[u] = IF u = t THEN h ELSE Hands[u]
  BY <1>1, HandsAt
<1>3. Hands' = [u \in Threads |-> Hands'[u]] /\ Hands = [u \in Threads |-> Hands[u]]
  BY DEF Hands
<1>4. QED
  BY <1>2, <1>3

\* A thread that keeps what it has, while nobody else does a step.
LEMMA HandsSame ==
  ASSUME NEW t \in Threads, Hands'[t] = Hands[t],
         \A u \in Threads : u # t => pc'[u] = pc[u] /\ buf'[u] = buf[u] /\ (ok'[u] <=> ok[u])
  PROVE  Hands' = Hands
<1>1. Hands' = [Hands EXCEPT ![t] = Hands[t]]
  BY HandsFrame
<1>2. Hands = [u \in Threads |-> Hands[u]]
  BY DEF Hands
<1>3. QED
  BY <1>1, <1>2

\* The steps after which everybody has in hand what he had before.
HandsQuiet ==
  \/ \E call \in Traffic : StartSend(call)
  \/ \E n \in Nodes : \/ GetLock(n) \/ GetScan(n) \/ GetUnlock(n)
                      \/ EnqLock(n) \/ EnqStore(n) \/ EnqUnlock(n) \/ Notify(n)
                      \/ Interrupt(n) \/ PollRing(n) \/ RxLock(n) \/ RxDone(n)
                      \/ (RxDeliver(n) /\ content[Head(rxQueue[n][NextPrio(n)])].known)
  \/ \E t \in Threads : FreeLock(t) \/ FreeUnlock(t)

\* The quiet steps leave every hand as it is.
LEMMA QuietHands ==
  ASSUME DriverInv, NotifyMayFail = FALSE, HandsQuiet
  PROVE  Hands' = Hands
<1> USE ThreadFacts, ThreadKinds DEF Goto, DriverInv, TypeOK, ThreadTypes
<1>1. CASE \E call \in Traffic : StartSend(call)
  <2>1. PICK call \in Traffic : StartSend(call)
    BY <1>1
  <2>2. Api(call.src) \in Threads
    BY CallFacts
  <2>3. Hands'[Api(call.src)] = Hands[Api(call.src)]
    BY <2>1, <2>2, HandsAt DEF StartSend, InHand
  <2>4. QED
    BY <2>1, <2>2, <2>3, HandsSame DEF StartSend
<1>2. ASSUME NEW n \in Nodes, GetLock(n) \/ GetScan(n) \/ GetUnlock(n)
      PROVE  Hands' = Hands
  <2>1. Hands'[Api(n)] = Hands[Api(n)]
    BY <1>2, HandsAt DEF GetLock, GetScan, GetUnlock, Return, InHand
  <2>2. QED
    BY <1>2, <2>1, HandsSame DEF GetLock, GetScan, GetUnlock, Return
<1>3. ASSUME NEW n \in Nodes, EnqLock(n) \/ EnqStore(n) \/ EnqUnlock(n) \/ Notify(n)
      PROVE  Hands' = Hands
  <2>1. Hands'[Api(n)] = Hands[Api(n)]
    <3>1. CASE EnqLock(n)
      BY <3>1, HandsAt DEF EnqLock, InHand
    <3>2. CASE EnqStore(n)
      BY <3>2, HandsAt DEF EnqStore, InHand
    <3>3. CASE EnqUnlock(n)
      BY <3>3, HandsAt DEF EnqUnlock, InHand
    <3>4. CASE Notify(n)
      BY <3>4, HandsAt DEF Notify, Return, InHand
    <3>5. QED
      BY <1>3, <3>1, <3>2, <3>3, <3>4
  <2>2. QED
    BY <1>3, <2>1, HandsSame DEF EnqLock, EnqStore, EnqUnlock, Notify, Return
<1>4. ASSUME NEW n \in Nodes, Interrupt(n) \/ PollRing(n) \/ RxLock(n) \/ RxDone(n)
      PROVE  Hands' = Hands
  <2>1. Hands'[Rx(n)] = Hands[Rx(n)]
    BY <1>4, HandsAt DEF Interrupt, PollRing, RxWait, Poll, ConsLock, ConsUpdate, ConsUnlock,
                         RxLock, RxDone, InHand
  <2>2. QED
    BY <1>4, <2>1, HandsSame DEF Interrupt, PollRing, RxWait, Poll, ConsLock, ConsUpdate,
                                 ConsUnlock, RxLock, RxDone
<1>5. ASSUME NEW n \in Nodes, RxDeliver(n), content[Head(rxQueue[n][NextPrio(n)])].known
      PROVE  Hands' = Hands
  <2>1. pc' = pc /\ buf' = buf /\ ok' = ok
    BY <1>5 DEF RxDeliver
  <2>2. QED
    BY <2>1 DEF Hands, InHand
<1>6. ASSUME NEW t \in Threads, FreeLock(t) \/ FreeUnlock(t)
      PROVE  Hands' = Hands
  <2>1. AfterFree(t) \in {"idle", "rx_drain"}
    BY DEF AfterFree
  <2>2. Hands'[t] = Hands[t]
    BY <1>6, <2>1, HandsAt DEF FreeLock, FreeUnlock, InHand
  <2>3. QED
    BY <1>6, <2>2, HandsSame DEF FreeLock, FreeUnlock
<1>7. QED
  BY <1>1, <1>2, <1>3, <1>4, <1>5, <1>6 DEF HandsQuiet

\* get_sm_buff_index marks the free buffer it found: from here the call has it
\* in hand.
LEMMA MarkHands ==
  ASSUME DriverInv, NEW n \in Nodes, GetMark(n)
  PROVE  /\ Api(n) \in Threads /\ Hands[Api(n)] = NoBuffer /\ buf[Api(n)] \in Buffers \ mask
         /\ Hands' = [Hands EXCEPT ![Api(n)] = buf[Api(n)]]
<1> USE ThreadFacts DEF Goto, DriverInv, TypeOK, ThreadTypes
<1>1. Hands[Api(n)] = NoBuffer
  BY HandsAt DEF GetMark, InHand
<1>2. buf[Api(n)] \in Buffers \ mask
  BY DEF GetMark, CallsSound, CallSound
<1>3. Hands'[Api(n)] = buf[Api(n)]
  BY <1>2, HandsAt, BufferIsNotNone DEF GetMark, InHand
<1>4. QED
  BY <1>1, <1>2, <1>3, HandsFrame DEF GetMark

\* The buffer leaves the hand when its descriptor becomes visible.
LEMMA CommitHands ==
  ASSUME DriverInv, NEW n \in Nodes, EnqCommit(n)
  PROVE  /\ Api(n) \in Threads /\ Hands[Api(n)] = buf[Api(n)] /\ buf[Api(n)] \in Buffers
         /\ Hands' = [Hands EXCEPT ![Api(n)] = NoBuffer]
<1> USE ThreadFacts DEF Goto, DriverInv, TypeOK, ThreadTypes
<1>1. buf[Api(n)] \in Buffers
  BY DEF EnqCommit, BuffersSound, Filled, Enqueuing
<1>2. Hands[Api(n)] = buf[Api(n)]
  BY <1>1, HandsAt, BufferIsNotNone DEF EnqCommit, InHand
<1>3. ok[Api(n)]
  BY DEF EnqCommit, CallsSound, CallSound, Freeing
<1>4. Hands'[Api(n)] = NoBuffer
  BY <1>3, HandsAt DEF EnqCommit, InHand
<1>5. QED
  BY <1>1, <1>2, <1>4, HandsFrame DEF EnqCommit

\* A packet without an endpoint is taken in hand to be recovered.
LEMMA DiscardHands ==
  ASSUME DriverInv, NEW n \in Nodes, RxDeliver(n),
         ~ content[Head(rxQueue[n][NextPrio(n)])].known
  PROVE  /\ Rx(n) \in Threads /\ Hands[Rx(n)] = NoBuffer
         /\ Hands' = [Hands EXCEPT ![Rx(n)] = Head(rxQueue[n][NextPrio(n)])]
<1> USE ThreadFacts DEF Goto, DriverInv, TypeOK, ThreadTypes
<1> DEFINE b == Head(rxQueue[n][NextPrio(n)])
<1>1. Hands[Rx(n)] = NoBuffer
  BY HandsAt DEF RxDeliver, InHand
<1>2. b \in Buffers
  <2>1. rxQueue[n][NextPrio(n)] \in Seq(Buffers) /\ rxQueue[n][NextPrio(n)] # <<>>
    <3>1. NextPrio(n) \in Prios
      BY DEF NextPrio, Prios
    <3>2. rxQueue[n][NextPrio(n)] \in Seq(Buffers)
      BY <3>1 DEF NodeTypes
    <3>3. QED
      BY <3>2 DEF RxDeliver
  <2>2. QED
    BY <2>1, TailProperties2
<1>3. pc' = [pc EXCEPT ![Rx(n)] = "free_lock"] /\ buf' = [buf EXCEPT ![Rx(n)] = b]
      /\ ok' = ok
  BY DEF RxDeliver
<1> HIDE DEF b
<1>4. Hands'[Rx(n)] = b
  BY <1>2, <1>3, HandsAt, BufferIsNotNone DEF InHand
<1>5. Hands' = [Hands EXCEPT ![Rx(n)] = b]
  BY <1>3, <1>4, HandsFrame
<1>6. QED
  BY <1>1, <1>5 DEF b

\* msg_recv has the buffer in hand until it is recovered.
LEMMA ReceiveHands ==
  ASSUME DriverInv, NEW n \in Nodes, Receive(n)
  PROVE  /\ Api(n) \in Threads /\ Hands[Api(n)] = NoBuffer
         /\ Hands' = [Hands EXCEPT ![Api(n)] = Head(endpQueue[n])]
<1> USE ThreadFacts DEF Goto, DriverInv, TypeOK, ThreadTypes
<1> DEFINE b == Head(endpQueue[n])
<1>1. Hands[Api(n)] = NoBuffer
  BY HandsAt DEF Receive, InHand
<1>2. b \in Buffers
  <2>1. endpQueue[n] \in Seq(Buffers) /\ endpQueue[n] # <<>>
    BY DEF Receive, NodeTypes
  <2>2. QED
    BY <2>1, TailProperties2
<1>3. pc' = [pc EXCEPT ![Api(n)] = "free_lock"] /\ buf' = [buf EXCEPT ![Api(n)] = b]
      /\ ok' = ok
  BY DEF Receive
<1> HIDE DEF b
<1>4. Hands'[Api(n)] = b
  BY <1>2, <1>3, HandsAt, BufferIsNotNone DEF InHand
<1>5. Hands' = [Hands EXCEPT ![Api(n)] = b]
  BY <1>3, <1>4, HandsFrame
<1>6. QED
  BY <1>1, <1>5 DEF b

\* clear_sm_buff_index: the buffer is out of the hand and its bit toggled.
LEMMA ClearHands ==
  ASSUME DriverInv, NEW t \in Threads, FreeClear(t)
  PROVE  /\ Hands[t] = buf[t] /\ buf[t] \in Buffers
         /\ Hands' = [Hands EXCEPT ![t] = NoBuffer]
<1> USE DEF Goto, DriverInv, TypeOK, ThreadTypes
<1>1. buf[t] \in Buffers
  BY DEF FreeClear, BuffersSound
<1>2. Hands[t] = buf[t]
  BY <1>1, HandsAt, BufferIsNotNone DEF FreeClear, InHand
<1>3. Hands'[t] = NoBuffer
  BY HandsAt DEF FreeClear, InHand
<1>4. QED
  BY <1>1, <1>2, <1>3, HandsFrame DEF FreeClear

-----------------------------------------------------------------------------
(* The pool's invariant.                                                   *)

\* A set of buffers is finite and no larger than the pool.
LEMMA PoolSize ==
  ASSUME NEW M \in SUBSET Buffers
  PROVE  /\ IsFiniteSet(M) /\ Cardinality(M) \in 0 .. NumBuffers
         /\ \A b \in Buffers \ M : Cardinality(M \cup {b}) = Cardinality(M) + 1
         /\ \A b \in M : Cardinality(M \ {b}) = Cardinality(M) - 1 /\ Cardinality(M) > 0
<1>1. IsFiniteSet(Buffers) /\ Cardinality(Buffers) = NumBuffers
  BY FS_Interval, ShmAssumption DEF Buffers
<1>2. IsFiniteSet(M) /\ Cardinality(M) <= NumBuffers
  BY <1>1, FS_Subset
<1>3. Cardinality(M) \in Nat
  BY <1>2, FS_CardinalityType
<1>4. ASSUME NEW b \in Buffers \ M
      PROVE  Cardinality(M \cup {b}) = Cardinality(M) + 1
  BY <1>2, FS_AddElement
<1>5. ASSUME NEW b \in M
      PROVE  Cardinality(M \ {b}) = Cardinality(M) - 1 /\ Cardinality(M) > 0
  <2>1. Cardinality(M \ {b}) = Cardinality(M) - 1
    BY <1>2, FS_RemoveElement
  <2>2. Cardinality(M) # 0
    BY <1>2, FS_EmptySet
  <2>3. QED
    BY <1>3, <2>1, <2>2
<1>6. QED
  BY <1>2, <1>3, <1>4, <1>5, ShmAssumption

\* Hence shm_buff_count never wraps.
LEMMA CountExact ==
  ASSUME NEW k \in 0 .. NumBuffers
  PROVE  k % CountModulus = k
BY ShmAssumption

\* No buffer is in use at first.
LEMMA PoolInit ==
  ASSUME Init
  PROVE  PoolInv
<1>1. \A t \in Threads : Hands[t] = NoBuffer
  BY DEF Hands, InHand, Init
<1>2. \A n \in Nodes, k \in Stages : Len(Queue(n, k)) = 0
  <2>1. ASSUME NEW n \in Nodes
        PROVE  Len(Queue(n, "ring")) = 0
    <3>1. count[n] = 0 /\ ~ HeadTaken(n)
      BY ThreadKinds, ThreadFacts DEF Init, HeadTaken, Rx
    <3>2. DOMAIN Pending(n) = 1 .. 0
      BY <3>1 DEF Pending
    <3>3. QED
      BY <3>2 DEF Queue
  <2>2. QED
    BY <2>1 DEF Init, Queue, Stages, Prios
<1>3. ASSUME NEW q \in Places
      PROVE  Len(Queues[q]) = 0
  <2>1. PICK n \in Nodes, k \in Stages : q = <<n, k>>
    BY QueuesAt
  <2>2. QED
    BY <1>2, <2>1, QueuesAt
<1>4. \A b \in Buffers : ~ Held(Hands, b) /\ ~ Queued(Queues, b)
  BY <1>1, <1>3, BufferIsNotNone DEF Held, Queued
<1>5. HandsApart(Hands) /\ QueuesApart(Queues)
  BY <1>1, <1>3, BufferIsNotNone DEF HandsApart, QueuesApart
<1>6. mask = {} /\ used = Cardinality(mask)
  BY FS_EmptySet DEF Init
<1>7. QED
  BY <1>4, <1>5, <1>6 DEF PoolInv, Owned

\* Every step keeps each marked buffer in exactly one hand or queue.
LEMMA PoolStep ==
  ASSUME NotifyMayFail = FALSE, DriverInv, DriverInv', PoolInv, Next
  PROVE  PoolInv'
<1> USE QueueTypes
<1>1. mask \in SUBSET Buffers /\ used = Cardinality(mask)
      /\ Owned(Queues, Hands, mask)
  BY DEF PoolInv, DriverInv, TypeOK, PoolTypes
<1>2. ASSUME Owned(Queues', Hands', mask), mask' = mask, used' = used
      PROVE  PoolInv'
  BY <1>1, <1>2 DEF PoolInv
<1>3. CASE Quiet /\ HandsQuiet
  <2>1. Queues' = Queues /\ Hands' = Hands
    BY <1>3, QuietQueues, QuietHands
  <2>2. mask' = mask /\ used' = used
    <3>1. ASSUME NEW call \in Traffic, StartSend(call)
          PROVE  mask' = mask /\ used' = used
      BY <3>1 DEF StartSend, poolVars
    <3>2. ASSUME NEW n \in Nodes,
                 \/ GetLock(n) \/ GetScan(n) \/ GetUnlock(n)
                 \/ EnqLock(n) \/ EnqStore(n) \/ EnqUnlock(n) \/ Notify(n)
          PROVE  mask' = mask /\ used' = used
      BY <3>2 DEF GetLock, GetScan, GetUnlock, EnqLock, EnqStore, EnqUnlock, Notify, poolVars
    <3>3. ASSUME NEW n \in Nodes,
                 Interrupt(n) \/ PollRing(n) \/ RxLock(n) \/ RxDone(n) \/ RxDeliver(n)
          PROVE  mask' = mask /\ used' = used
      BY <3>3 DEF Interrupt, PollRing, RxWait, Poll, ConsLock, ConsUpdate, ConsUnlock,
                  RxLock, RxDone, RxDeliver, poolVars
    <3>4. ASSUME NEW t \in Threads, FreeLock(t) \/ FreeUnlock(t)
          PROVE  mask' = mask /\ used' = used
      BY <3>4 DEF FreeLock, FreeUnlock, poolVars
    <3>5. QED
      BY ONLY <1>3, <3>1, <3>2, <3>3, <3>4 DEF HandsQuiet
  <2>3. QED
    BY <1>1, <1>2, <2>1, <2>2
<1>4. ASSUME NEW n \in Nodes, GetMark(n)
      PROVE  PoolInv'
  <2>1. Queues' = Queues
    BY <1>4, QuietQueues DEF Quiet, GetBuffer
  <2> DEFINE b == buf[Api(n)]
  <2>2. /\ Api(n) \in Threads /\ Hands[Api(n)] = NoBuffer /\ b \in Buffers \ mask
        /\ Hands' = [Hands EXCEPT ![Api(n)] = b]
    BY <1>4, MarkHands
  <2>3. mask' = mask \cup {b} /\ used' = (used + 1) % CountModulus
    BY <1>4 DEF GetMark
  <2> HIDE DEF b
  <2>4. Owned(Queues', Hands', mask')
    BY <1>1, <2>1, <2>2, <2>3, OwnedAlloc
  <2>5. used' = Cardinality(mask')
    <3>1. mask' \in SUBSET Buffers /\ Cardinality(mask') = Cardinality(mask) + 1
      BY <1>1, <2>2, <2>3, PoolSize
    <3>2. Cardinality(mask') \in 0 .. NumBuffers
      BY <3>1, PoolSize
    <3>3. QED
      BY <1>1, <2>3, <3>1, <3>2, CountExact
  <2>6. QED
    BY <2>4, <2>5 DEF PoolInv
<1>5. ASSUME NEW n \in Nodes, EnqCommit(n)
      PROVE  PoolInv'
  <2>1. PICK d \in Nodes : d = msg[Api(n)].dst
    BY <1>5, CommitQueues
  <2>2. Queues' = Added(Queues, <<d, "ring">>, buf[Api(n)])
    BY <1>5, <2>1, CommitQueues
  <2>3. /\ Api(n) \in Threads /\ Hands[Api(n)] = buf[Api(n)] /\ buf[Api(n)] \in Buffers
        /\ Hands' = [Hands EXCEPT ![Api(n)] = NoBuffer]
    BY <1>5, CommitHands
  <2>4. <<d, "ring">> \in Places
    BY DEF Places, Stages
  <2>5. Owned(Queues', Hands', mask)
    BY <1>1, <2>2, <2>3, <2>4, OwnedPut
  <2>6. QED
    BY <1>2, <1>5, <2>5 DEF EnqCommit, poolVars
<1>6. ASSUME NEW n \in Nodes, Poll(n), count[n] > 0
      PROVE  PoolInv'
  <2>1. PICK k \in Stages : k = PrioStage(NextDesc(n).prio) /\ k # "ring"
    BY DEF PrioStage, Stages
  <2>2. /\ Queues[<<n, "ring">>] # <<>>
        /\ Queues' = Added(Dropped(Queues, <<n, "ring">>), <<n, k>>, Head(Queues[<<n, "ring">>]))
    BY <1>6, <2>1, PollQueues, QueuesAt DEF Stages
  <2>3. <<n, "ring">> \in Places /\ <<n, k>> \in Places /\ <<n, "ring">> # <<n, k>>
    BY <2>1 DEF Places, Stages
  <2>4. Owned(Queues', Hands, mask)
    BY <1>1, <2>2, <2>3, OwnedMove
  <2>5. Hands' = Hands
    BY <1>6, QuietHands DEF HandsQuiet, PollRing
  <2>6. QED
    BY <1>2, <1>6, <2>4, <2>5 DEF Poll, poolVars
<1>7. ASSUME NEW n \in Nodes, RxDeliver(n)
      PROVE  PoolInv'
  <2>1. PICK k \in Stages : k = PrioStage(NextPrio(n)) /\ k # "endp"
    BY DEF PrioStage, Stages
  <2>2. /\ Queue(n, k) = rxQueue[n][NextPrio(n)] /\ Queues[<<n, k>>] = Queue(n, k)
        /\ Queue(n, k) # <<>>
    BY <1>7, <2>1, DeliverQueues, QueuesAt
  <2>3. <<n, "endp">> \in Places /\ <<n, k>> \in Places /\ <<n, "endp">> # <<n, k>>
    BY <2>1 DEF Places, Stages
  <2>4. mask' = mask /\ used' = used
    BY <1>7 DEF RxDeliver, poolVars
  <2>5. CASE content[Head(Queue(n, k))].known
    <3>1. Queues' = Added(Dropped(Queues, <<n, k>>), <<n, "endp">>, Head(Queues[<<n, k>>]))
      BY <1>7, <2>1, <2>5, DeliverQueues
    <3>2. Hands' = Hands
      BY <1>7, <2>2, <2>5, QuietHands DEF HandsQuiet
    <3>3. Owned(Queues', Hands', mask)
      BY <1>1, <2>2, <2>3, <3>1, <3>2, OwnedMove
    <3>4. QED
      BY <1>2, <2>4, <3>3
  <2>6. CASE ~ content[Head(Queue(n, k))].known
    <3>1. Queues' = Dropped(Queues, <<n, k>>)
      BY <1>7, <2>1, <2>6, DeliverQueues
    <3>2. /\ Rx(n) \in Threads /\ Hands[Rx(n)] = NoBuffer
          /\ Hands' = [Hands EXCEPT ![Rx(n)] = Head(Queues[<<n, k>>])]
      BY <1>7, <2>2, <2>6, DiscardHands
    <3>3. Owned(Queues', Hands', mask)
      BY <1>1, <2>2, <2>3, <3>1, <3>2, OwnedTake
    <3>4. QED
      BY <1>2, <2>4, <3>3
  <2>7. QED
    BY <2>5, <2>6
<1>8. ASSUME NEW n \in Nodes, Receive(n)
      PROVE  PoolInv'
  <2>1. <<n, "endp">> \in Places /\ Queues[<<n, "endp">>] = endpQueue[n]
        /\ endpQueue[n] # <<>>
    BY <1>8, ReceiveQueues, QueuesAt DEF Stages
  <2>2. Queues' = Dropped(Queues, <<n, "endp">>)
    BY <1>8, ReceiveQueues
  <2>3. /\ Api(n) \in Threads /\ Hands[Api(n)] = NoBuffer
        /\ Hands' = [Hands EXCEPT ![Api(n)] = Head(endpQueue[n])]
    BY <1>8, ReceiveHands
  <2>4. Owned(Queues', Hands', mask)
    BY <1>1, <2>1, <2>2, <2>3, OwnedTake
  <2>5. QED
    BY <1>2, <1>8, <2>4 DEF Receive, poolVars
<1>9. ASSUME NEW t \in Threads, FreeClear(t)
      PROVE  PoolInv'
  <2>1. Queues' = Queues
    BY <1>9, QuietQueues DEF Quiet, Free
  <2>2. PICK b \in Buffers : b = buf[t] /\ b = Hands[t]
    BY <1>9, ClearHands
  <2>3. Hands' = [Hands EXCEPT ![t] = NoBuffer]
    BY <1>9, ClearHands
  <2>4. b \in mask /\ Owned(Queues, Hands', mask \ {b})
    <3>1. Hands[t] \in mask
          /\ Owned(Queues, [Hands EXCEPT ![t] = NoBuffer], mask \ {Hands[t]})
      <4>1. HandTypes(Hands) /\ Hands[t] \in Buffers
        BY <2>2
      <4>2. QED
        BY ONLY <1>1, <1>9, <4>1, OwnedFree
    <3>2. QED
      BY <2>2, <2>3, <3>1
  <2>5. mask' = mask \ {b} /\ used' = (used - 1) % CountModulus
    BY <1>9, <2>2, <2>4 DEF FreeClear, Toggle
  <2>6. used' = Cardinality(mask')
    <3>1. Cardinality(mask') = Cardinality(mask) - 1 /\ Cardinality(mask') \in 0 .. NumBuffers
      BY <1>1, <2>4, <2>5, PoolSize
    <3>2. QED
      BY <1>1, <2>5, <3>1, CountExact
  <2>7. QED
    BY <2>1, <2>4, <2>5, <2>6 DEF PoolInv
<1>10. \/ Quiet /\ HandsQuiet
       \/ \E n \in Nodes : \/ GetMark(n) \/ EnqCommit(n) \/ (Poll(n) /\ count[n] > 0)
                           \/ RxDeliver(n) \/ Receive(n)
       \/ \E t \in Threads : FreeClear(t)
  <2>1. \A n \in Nodes : Poll(n) => count[n] > 0 \/ count[n] = 0
    BY DEF Poll
  <2>2. QED
    BY <2>1 DEF Next, Quiet, HandsQuiet, GetBuffer, Transmit, PollRing, RxData, Free
<1>11. QED
  BY <1>3, <1>4, <1>5, <1>6, <1>7, <1>8, <1>9, <1>10

\* While notifications do not fail, every buffer whose bit is set is in exactly
\* one hand or queue, and the count is the number of bits set.
THEOREM PoolInvariant ==
  ASSUME NotifyMayFail = FALSE
  PROVE  Spec => []PoolInv
<1>1. Init => PoolInv
  BY PoolInit
<1>2. DriverInv /\ DriverInv' /\ PoolInv /\ [Next]_vars => PoolInv'
  <2>1. ASSUME DriverInv, DriverInv', PoolInv, Next
        PROVE  PoolInv'
    BY <2>1, PoolStep
  <2>2. ASSUME PoolInv, UNCHANGED vars
        PROVE  PoolInv'
    <3>1. Queues' = Queues /\ Hands' = Hands
      BY <2>2 DEF vars, ringVars, nodeVars, threadVars, Queues, Hands, Queue, Pending,
                  HeadTaken, InHand
    <3>2. mask' = mask /\ used' = used
      BY <2>2 DEF vars, poolVars
    <3>3. QED
      BY <2>2, <3>1, <3>2 DEF PoolInv
  <2>3. QED
    BY <2>1, <2>2
<1>3. QED
  BY <1>1, <1>2, DriverInvariant, PTL DEF Spec

\* Whoever holds a buffer is a thread that has it in hand, or a position in a queue.
LEMMA HoldersShape ==
  ASSUME DriverInv, NEW b \in Buffers, NEW x
  PROVE  x \in Holders(b) <=>
           \/ x \in Threads /\ Hands[x] = b
           \/ \E n \in Nodes, k \in Stages : \E i \in 1 .. Len(Queue(n, k)) :
                x = <<n, k, i>> /\ Queue(n, k)[i] = b
<1>1. ASSUME NEW n \in Nodes, NEW k \in Stages
      PROVE  Indices(Queue(n, k), b) = {i \in 1 .. Len(Queue(n, k)) : Queue(n, k)[i] = b}
  <2>1. Queue(n, k) \in Seq(Buffers)
    BY QueueTypes, QueuesAt
  <2>2. DOMAIN Queue(n, k) = 1 .. Len(Queue(n, k))
    BY <2>1
  <2>3. QED
    BY <2>2 DEF Indices
<1>2. \A t \in Threads : InHand(t) /\ buf[t] = b <=> Hands[t] = b
  BY HandsAt, BufferIsNotNone
<1>3. x \in Holders(b) <=>
           \/ x \in Threads /\ InHand(x) /\ buf[x] = b
           \/ \E n \in Nodes, k \in Stages : \E i \in Indices(Queue(n, k), b) : x = <<n, k, i>>
  <2> DEFINE T(n, k) == {n} \X {k} \X Indices(Queue(n, k), b)
  <2>1. \A n, k : x \in T(n, k) <=> \E i \in Indices(Queue(n, k), b) : x = <<n, k, i>>
    OBVIOUS
  <2>2. x \in Holders(b) <=>
           \/ x \in {t \in Threads : InHand(t) /\ buf[t] = b}
           \/ x \in UNION {T(n, k) : n \in Nodes, k \in Stages}
    BY DEF Holders
  <2> HIDE DEF T
  <2>3. x \in UNION {T(n, k) : n \in Nodes, k \in Stages}
          <=> \E n \in Nodes, k \in Stages : x \in T(n, k)
    OBVIOUS
  <2>4. QED
    BY <2>1, <2>2, <2>3
<1>4. QED
  BY <1>1, <1>2, <1>3

\* What is at a position of a queue is queued.
LEMMA QueuedSomewhere ==
  ASSUME NEW b, NEW n \in Nodes, NEW k \in Stages, NEW i \in 1 .. Len(Queue(n, k)),
         Queue(n, k)[i] = b
  PROVE  Queued(Queues, b)
<1>1. <<n, k>> \in Places /\ Queues[<<n, k>>] = Queue(n, k)
  BY QueuesAt
<1>2. QED
  BY <1>1 DEF Queued

\* The pool's invariant says of Holders what BufferOwnedOnce says.
LEMMA OwnedOnce ==
  ASSUME DriverInv, PoolInv
  PROVE  BufferOwnedOnce
<1>1. Owned(Queues, Hands, mask) /\ used = Cardinality(mask)
  BY DEF PoolInv
<1>2. ASSUME NEW b \in Buffers, b \notin mask
      PROVE  Cardinality(Holders(b)) = 0
  <2>1. ~ Held(Hands, b) /\ ~ Queued(Queues, b)
    BY <1>1, <1>2 DEF Owned
  <2>2. \A x : x \notin Holders(b)
    BY <2>1, HoldersShape, QueuedSomewhere DEF Held
  <2>3. Holders(b) = {}
    BY <2>2
  <2>4. QED
    BY <2>3, FS_EmptySet
<1>3. ASSUME NEW b \in Buffers, b \in mask
      PROVE  Cardinality(Holders(b)) = 1
  <2>1. CASE Held(Hands, b)
    <3>1. PICK t \in Threads : Hands[t] = b
      BY <2>1 DEF Held
    <3>2. ~ Queued(Queues, b)
      BY <1>1, <2>1 DEF Owned
    <3>3. \A x : x \in Holders(b) <=> x \in Threads /\ Hands[x] = b
      BY <3>2, HoldersShape, QueuedSomewhere
    <3>4. \A x : x \in Holders(b) <=> x = t
      BY <1>1, <3>1, <3>3 DEF Owned, HandsApart
    <3>5. Holders(b) = {t}
      BY <3>4
    <3>6. QED
      BY <3>5, FS_Singleton
  <2>2. CASE ~ Held(Hands, b)
    <3>1. Queued(Queues, b)
      BY <1>1, <1>3, <2>2 DEF Owned
    <3>2. PICK q \in Places : \E i \in 1 .. Len(Queues[q]) : Queues[q][i] = b
      BY <3>1 DEF Queued
    <3>3. PICK i \in 1 .. Len(Queues[q]) : Queues[q][i] = b
      BY <3>2
    <3>4. PICK n \in Nodes, k \in Stages : q = <<n, k>>
      BY QueuesAt
    <3>5. i \in 1 .. Len(Queue(n, k)) /\ Queue(n, k)[i] = b
      BY <3>3, <3>4, QueuesAt
    <3>6. \A x : x \in Holders(b) <=>
            \E m \in Nodes, l \in Stages : \E j \in 1 .. Len(Queue(m, l)) :
                x = <<m, l, j>> /\ Queue(m, l)[j] = b
      BY <2>2, HoldersShape DEF Held
    <3>7. ASSUME NEW m \in Nodes, NEW l \in Stages, NEW j \in 1 .. Len(Queue(m, l)),
                 Queue(m, l)[j] = b
          PROVE  m = n /\ l = k /\ j = i
      <4>1. /\ <<m, l>> \in Places /\ Queues[<<m, l>>] = Queue(m, l)
            /\ <<n, k>> \in Places /\ Queues[<<n, k>>] = Queue(n, k)
        BY QueuesAt
      <4>2. <<m, l>> = <<n, k>> /\ j = i
        BY <1>1, <3>5, <3>7, <4>1 DEF Owned, QueuesApart
      <4>3. QED
        BY <4>2
    <3>8. \A x : x \in Holders(b) <=> x = <<n, k, i>>
      BY <3>5, <3>6, <3>7
    <3>9. Holders(b) = {<<n, k, i>>}
      BY <3>8
    <3>10. QED
      BY <3>9, FS_Singleton
  <2>3. QED
    BY <2>1, <2>2
<1>4. QED
  BY <1>1, <1>2, <1>3 DEF BufferOwnedOnce

\* shm_get_buffer and shm_free_buffer: whatever the numbers of nodes, buffers
\* and descriptors, no buffer is shared or lost and shm_buff_count is exact.
THEOREM PoolCorrect ==
  ASSUME NotifyMayFail = FALSE
  PROVE  Spec => []BufferOwnedOnce
<1>1. DriverInv /\ PoolInv => BufferOwnedOnce
  BY OwnedOnce
<1>2. QED
  BY <1>1, DriverInvariant, PoolInvariant, PTL

-----------------------------------------------------------------------------
(* What the messages look like on their way.                               *)

\* The line of messages at each place of a node; the last place is what its
\* receivers were handed.
LinePlaces == Nodes \X (Stages \cup {"done"})
Load(c, s) == [i \in DOMAIN s |-> c[s[i]]]
LineOf(Q, c, R) == [q \in LinePlaces |-> IF q[2] = "done" THEN R[q[1]] ELSE Load(c, Q[q])]
Line == LineOf(Queues, content, received)

Rank(k) == CASE k = "ring" -> 0 [] k = "prio0" -> 1 [] k = "prio1" -> 1
             [] k = "endp" -> 2 [] k = "done" -> 3

In(s, m)     == \E i \in 1 .. Len(s) : s[i] = m
Lined(L, m)  == \E q \in LinePlaces : In(L[q], m)
Follows(a, b) == a.src = b.src /\ a.prio = b.prio => a.seq < b.seq
Sorted(s)    == \A i, j \in 1 .. Len(s) : i < j => Follows(s[i], s[j])

\* Messages are where they belong, those of one sender and one priority in the
\* order of their numbers: at every place, and from place to place.
Fits(n, k, m) == /\ m.dst = n
                 /\ k = "prio0" => m.prio = 0
                 /\ k = "prio1" => m.prio = 1
Placed(L)  == \A n \in Nodes, k \in Stages \cup {"done"} :
                \A m \in Messages : In(L[<<n, k>>], m) => Fits(n, k, m)
Ordered(L) == \A n \in Nodes : \A k, l \in Stages \cup {"done"} : \A a, b \in Messages :
                Rank(k) > Rank(l) /\ In(L[<<n, k>>], a) /\ In(L[<<n, l>>], b)
                  => Follows(a, b)
InOrder(L) == Placed(L) /\ Ordered(L) /\ \A q \in LinePlaces : Sorted(L[q])

LineTypes(L) == L \in [LinePlaces -> Seq(Messages)]

\* The messages of a queue to which a buffer was appended.
LEMMA LoadAppend ==
  ASSUME NEW c, NEW s \in Seq(Buffers), NEW b \in Buffers
  PROVE  Load(c, Append(s, b)) = Append(Load(c, s), c[b])
<1> DEFINE S == {c[x] : x \in Buffers}
           l == Load(c, s)
           r == Load(c, Append(s, b))
<1>1. /\ Append(s, b) \in Seq(Buffers) /\ Len(s) \in Nat /\ Len(Append(s, b)) = Len(s) + 1
      /\ \A i \in 1 .. Len(s) : Append(s, b)[i] = s[i]
      /\ Append(s, b)[Len(s) + 1] = b
  BY AppendProperties2
<1>2. l \in Seq(S) /\ Len(l) = Len(s) /\ \A i \in 1 .. Len(s) : l[i] = c[s[i]]
  BY DEF Load
<1>3. /\ r \in Seq(S) /\ Len(r) = Len(s) + 1
      /\ \A i \in 1 .. Len(s) + 1 : r[i] = c[Append(s, b)[i]]
  BY <1>1 DEF Load
<1>4. c[b] \in S
  OBVIOUS
<1> HIDE DEF l, r, S
<1>5. /\ Append(l, c[b]) \in Seq(S) /\ Len(Append(l, c[b])) = Len(l) + 1
      /\ \A i \in 1 .. Len(l) : Append(l, c[b])[i] = l[i]
      /\ Append(l, c[b])[Len(l) + 1] = c[b]
  BY <1>2, <1>4, AppendProperties2
<1>6. ASSUME NEW i \in 1 .. Len(s) + 1
      PROVE  r[i] = Append(l, c[b])[i]
  <2>1. i \in 1 .. Len(s) \/ i = Len(s) + 1
    BY <1>1
  <2>2. QED
    BY <1>1, <1>2, <1>3, <1>5, <2>1
<1>7. r = Append(l, c[b])
  BY <1>2, <1>3, <1>5, <1>6, SameSequence
<1>8. QED
  BY <1>7 DEF l, r

\* The messages of a queue that lost its head.
LEMMA LoadTail ==
  ASSUME NEW c, NEW s \in Seq(Buffers), s # <<>>
  PROVE  /\ Load(c, Tail(s)) = Tail(Load(c, s))
         /\ Load(c, s) # <<>> /\ Head(Load(c, s)) = c[Head(s)]
<1> DEFINE S == {c[x] : x \in Buffers}
           l == Load(c, s)
           r == Load(c, Tail(s))
<1>1. /\ Tail(s) \in Seq(Buffers) /\ Len(s) \in Nat /\ Len(s) > 0
      /\ Len(Tail(s)) = Len(s) - 1
      /\ \A i \in 1 .. Len(s) - 1 : Tail(s)[i] = s[i + 1]
      /\ Head(s) = s[1]
  BY TailProperties2
<1>2. l \in Seq(S) /\ Len(l) = Len(s) /\ \A i \in 1 .. Len(s) : l[i] = c[s[i]]
  BY DEF Load
<1>3. /\ r \in Seq(S) /\ Len(r) = Len(s) - 1
      /\ \A i \in 1 .. Len(s) - 1 : r[i] = c[Tail(s)[i]]
  BY <1>1 DEF Load
<1> HIDE DEF l, r, S
<1>4. l # <<>>
  BY <1>1, <1>2
<1>5. /\ Tail(l) \in Seq(S) /\ Len(Tail(l)) = Len(l) - 1
      /\ \A i \in 1 .. Len(l) - 1 : Tail(l)[i] = l[i + 1]
      /\ Head(l) = l[1]
  BY <1>2, <1>4, TailProperties2
<1>6. ASSUME NEW i \in 1 .. Len(s) - 1
      PROVE  r[i] = Tail(l)[i]
  <2>1. i + 1 \in 1 .. Len(s)
    BY <1>1
  <2>2. QED
    BY <1>1, <1>2, <1>3, <1>5, <2>1
<1>7. r = Tail(l)
  BY <1>2, <1>3, <1>5, <1>6, SameSequence
<1>8. Head(l) = c[Head(s)]
  <2>1. 1 \in 1 .. Len(s)
    BY <1>1
  <2>2. QED
    BY <1>1, <1>2, <1>5, <2>1
<1>9. QED
  BY <1>4, <1>7, <1>8 DEF l, r

\* The lines, at each place.
LEMMA LineAt ==
  ASSUME NEW Q, NEW c, NEW R
  PROVE  /\ LineOf(Q, c, R) = [q \in LinePlaces |-> LineOf(Q, c, R)[q]]
         /\ \A q \in Places : /\ q \in LinePlaces /\ q[2] # "done"
                              /\ LineOf(Q, c, R)[q] = Load(c, Q[q])
         /\ \A n \in Nodes : /\ <<n, "done">> \in LinePlaces /\ <<n, "done">> \notin Places
                             /\ LineOf(Q, c, R)[<<n, "done">>] = R[n]
         /\ \A q \in LinePlaces : q \in Places \/ \E n \in Nodes : q = <<n, "done">>
BY DEF LineOf, LinePlaces, Places, Stages

\* A buffer appended to a queue puts its message at the end of the line.
LEMMA LineAdded ==
  ASSUME NEW Q \in [Places -> Seq(Buffers)], NEW c, NEW R,
         NEW q \in Places, NEW b \in Buffers
  PROVE  LineOf(Added(Q, q, b), c, R) = Added(LineOf(Q, c, R), q, c[b])
<1> DEFINE L == LineOf(Q, c, R)
           M == LineOf(Added(Q, q, b), c, R)
<1>1. Q[q] \in Seq(Buffers) /\ Added(Q, q, b)[q] = Append(Q[q], b)
      /\ \A r \in Places : r # q => Added(Q, q, b)[r] = Q[r]
  BY DEF Added
<1>2. M[q] = Append(L[q], c[b])
  <2>1. L[q] = Load(c, Q[q]) /\ M[q] = Load(c, Added(Q, q, b)[q])
    BY LineAt
  <2> HIDE DEF L, M
  <2>2. QED
    BY <1>1, <2>1, LoadAppend
<1>3. ASSUME NEW r \in LinePlaces, r # q
      PROVE  M[r] = L[r]
  <2>1. CASE r \in Places
    BY <1>1, <1>3, <2>1, LineAt
  <2>2. CASE \E n \in Nodes : r = <<n, "done">>
    BY <2>2, LineAt
  <2>3. QED
    BY <2>1, <2>2, LineAt
<1>4. M = [r \in LinePlaces |-> M[r]] /\ L = [r \in LinePlaces |-> L[r]] /\ q \in LinePlaces
  BY LineAt
<1> HIDE DEF L, M
<1>5. M = Added(L, q, c[b])
  BY <1>2, <1>3, <1>4 DEF Added
<1>6. QED
  BY <1>5 DEF L, M

\* The head of a queue takes its message from the line.
LEMMA LineDropped ==
  ASSUME NEW Q \in [Places -> Seq(Buffers)], NEW c, NEW R,
         NEW q \in Places, Q[q] # <<>>
  PROVE  /\ LineOf(Dropped(Q, q), c, R) = Dropped(LineOf(Q, c, R), q)
         /\ LineOf(Q, c, R)[q] # <<>> /\ Head(LineOf(Q, c, R)[q]) = c[Head(Q[q])]
<1> DEFINE L == LineOf(Q, c, R)
           M == LineOf(Dropped(Q, q), c, R)
<1>1. Q[q] \in Seq(Buffers) /\ Dropped(Q, q)[q] = Tail(Q[q])
      /\ \A r \in Places : r # q => Dropped(Q, q)[r] = Q[r]
  BY DEF Dropped
<1>2. M[q] = Tail(L[q]) /\ L[q] # <<>> /\ Head(L[q]) = c[Head(Q[q])]
  <2>1. L[q] = Load(c, Q[q]) /\ M[q] = Load(c, Dropped(Q, q)[q])
    BY LineAt
  <2> HIDE DEF L, M
  <2>2. QED
    BY <1>1, <2>1, LoadTail
<1>3. ASSUME NEW r \in LinePlaces, r # q
      PROVE  M[r] = L[r]
  <2>1. CASE r \in Places
    BY <1>1, <1>3, <2>1, LineAt
  <2>2. CASE \E n \in Nodes : r = <<n, "done">>
    BY <2>2, LineAt
  <2>3. QED
    BY <2>1, <2>2, LineAt
<1>4. M = [r \in LinePlaces |-> M[r]] /\ L = [r \in LinePlaces |-> L[r]] /\ q \in LinePlaces
  BY LineAt
<1> HIDE DEF L, M
<1>5. M = Dropped(L, q)
  BY <1>2, <1>3, <1>4 DEF Dropped
<1>6. QED
  BY <1>2, <1>5 DEF L, M

\* The head of a queue that moves on takes its message along.
LEMMA LineMoved ==
  ASSUME NEW Q \in [Places -> Seq(Buffers)], NEW c, NEW R,
         NEW q \in Places, NEW r \in Places, Q[q] # <<>>,
         NEW L, L = LineOf(Q, c, R)
  PROVE  /\ LineOf(Added(Dropped(Q, q), r, Head(Q[q])), c, R)
              = Added(Dropped(L, q), r, Head(L[q]))
         /\ LineOf(Dropped(Q, q), c, R) = Dropped(L, q)
         /\ L[q] # <<>> /\ Head(L[q]) = c[Head(Q[q])]
<1>1. /\ LineOf(Dropped(Q, q), c, R) = Dropped(L, q)
      /\ L[q] # <<>> /\ Head(L[q]) = c[Head(Q[q])]
  BY LineDropped
<1>2. Dropped(Q, q) \in [Places -> Seq(Buffers)] /\ Head(Q[q]) \in Buffers
  <2>1. Q[q] \in Seq(Buffers)
    OBVIOUS
  <2>2. Tail(Q[q]) \in Seq(Buffers) /\ Head(Q[q]) \in Buffers
    BY <2>1, TailProperties2
  <2>3. QED
    BY <2>2 DEF Dropped
<1>3. LineOf(Added(Dropped(Q, q), r, Head(Q[q])), c, R)
        = Added(LineOf(Dropped(Q, q), c, R), r, c[Head(Q[q])])
  <2>1. PICK D \in [Places -> Seq(Buffers)] : D = Dropped(Q, q)
    BY <1>2
  <2>2. PICK b \in Buffers : b = Head(Q[q])
    BY <1>2
  <2>3. LineOf(Added(D, r, b), c, R) = Added(LineOf(D, c, R), r, c[b])
    BY LineAdded, ZenonT(30)
  <2>4. QED
    BY <2>1, <2>2, <2>3
<1>4. QED
  BY <1>1, <1>3

\* The lines as a function of queues, contents and what was received.
LEMMA LineIs ==
  /\ Line = LineOf(Queues, content, received)
  /\ Line' = LineOf(Queues', content', received')
BY DEF Line

\* A receiver of node n is handed message m.
Handed(R, S, n, m) == S[n] = Append(R[n], m) /\ \A k \in Nodes : k # n => S[k] = R[k]

\* What a receiver is handed comes to the end of the line of what was received.
LEMMA LineReceived ==
  ASSUME NEW Q, NEW c, NEW R, NEW S, NEW n \in Nodes, NEW m, Handed(R, S, n, m)
  PROVE  LineOf(Q, c, S) = Added(LineOf(Q, c, R), <<n, "done">>, m)
<1> DEFINE L == LineOf(Q, c, R)
           M == LineOf(Q, c, S)
           d == <<n, "done">>
<1>1. S[n] = Append(R[n], m) /\ \A k \in Nodes : k # n => S[k] = R[k]
  BY DEF Handed
<1>2. M[d] = Append(L[d], m) /\ d \in LinePlaces
  BY <1>1, LineAt
<1>3. ASSUME NEW r \in LinePlaces, r # d
      PROVE  M[r] = L[r]
  <2>1. CASE r \in Places
    BY <2>1, LineAt
  <2>2. CASE \E k \in Nodes : r = <<k, "done">>
    <3>1. PICK k \in Nodes : r = <<k, "done">>
      BY <2>2
    <3>2. k # n
      BY <1>3, <3>1
    <3>3. QED
      BY <1>1, <3>1, <3>2, LineAt
  <2>3. QED
    BY <2>1, <2>2, LineAt
<1>4. M = [r \in LinePlaces |-> M[r]] /\ L = [r \in LinePlaces |-> L[r]]
  BY LineAt
<1> HIDE DEF L, M, d
<1>5. M = Added(L, d, m)
  BY <1>2, <1>3, <1>4 DEF Added
<1>6. QED
  BY <1>5 DEF L, M, d

-----------------------------------------------------------------------------
(* What keeps the order.                                                   *)

\* The head of a sorted line comes before the rest.
LEMMA InTail ==
  ASSUME NEW s \in Seq(Messages), s # <<>>, Sorted(s)
  PROVE  /\ Sorted(Tail(s)) /\ In(s, Head(s)) /\ Head(s) \in Messages
         /\ \A m : In(Tail(s), m) => In(s, m) /\ Follows(Head(s), m)
         /\ \A m : In(s, m) => m = Head(s) \/ In(Tail(s), m)
<1>1. /\ Len(s) \in Nat /\ Len(s) > 0 /\ Len(Tail(s)) = Len(s) - 1
      /\ \A i \in 1 .. Len(s) - 1 : Tail(s)[i] = s[i + 1]
      /\ Head(s) = s[1] /\ Head(s) \in Messages
  BY TailProperties2
<1>2. \A i \in 1 .. Len(Tail(s)) : i + 1 \in 1 .. Len(s) /\ 1 < i + 1 /\ Tail(s)[i] = s[i + 1]
  BY <1>1
<1>3. 1 \in 1 .. Len(s)
  BY <1>1
<1>4. Sorted(Tail(s))
  <2>1. ASSUME NEW i \in 1 .. Len(Tail(s)), NEW j \in 1 .. Len(Tail(s)), i < j
        PROVE  Follows(Tail(s)[i], Tail(s)[j])
    <3>1. i + 1 < j + 1
      BY <2>1
    <3>2. QED
      BY <1>2, <3>1 DEF Sorted
  <2>2. QED
    BY <2>1 DEF Sorted
<1>5. ASSUME NEW m, In(Tail(s), m)
      PROVE  In(s, m) /\ Follows(Head(s), m)
  BY <1>1, <1>2, <1>3, <1>5 DEF In, Sorted
<1>6. ASSUME NEW m, In(s, m), m # Head(s)
      PROVE  In(Tail(s), m)
  <2>1. PICK i \in 1 .. Len(s) : s[i] = m
    BY <1>6 DEF In
  <2>2. i - 1 \in 1 .. Len(s) - 1 /\ (i - 1) + 1 = i
    BY <1>1, <1>6, <2>1
  <2>3. i - 1 \in 1 .. Len(Tail(s)) /\ Tail(s)[i - 1] = m
    BY <1>1, <2>1, <2>2
  <2>4. QED
    BY <2>3 DEF In
<1>7. QED
  BY <1>1, <1>3, <1>4, <1>5, <1>6 DEF In

\* A line stays sorted if what is appended comes after what is there.
LEMMA InAppend ==
  ASSUME NEW s \in Seq(Messages), NEW h \in Messages
  PROVE  /\ \A m : In(Append(s, h), m) <=> In(s, m) \/ m = h
         /\ Sorted(s) /\ (\A m \in Messages : In(s, m) => Follows(m, h))
              => Sorted(Append(s, h))
<1> DEFINE a == Append(s, h)
<1>1. /\ Len(s) \in Nat /\ Len(a) = Len(s) + 1
      /\ \A i \in 1 .. Len(s) : a[i] = s[i]
      /\ a[Len(s) + 1] = h
  BY AppendProperties2
<1>2. \A i \in 1 .. Len(s) : s[i] \in Messages
  OBVIOUS
<1> HIDE DEF a
<1>3. \A i \in 1 .. Len(a) : i \in 1 .. Len(s) \/ i = Len(s) + 1
  BY <1>1
<1>4. Len(s) + 1 \in 1 .. Len(a) /\ \A i \in 1 .. Len(s) : i \in 1 .. Len(a)
  BY <1>1
<1>5. ASSUME NEW m
      PROVE  In(a, m) <=> In(s, m) \/ m = h
  BY <1>1, <1>3, <1>4 DEF In
<1>6. ASSUME Sorted(s), \A m \in Messages : In(s, m) => Follows(m, h)
      PROVE  Sorted(a)
  <2>1. ASSUME NEW i \in 1 .. Len(a), NEW j \in 1 .. Len(a), i < j
        PROVE  Follows(a[i], a[j])
    <3>1. i \in 1 .. Len(s)
      BY <1>1, <2>1
    <3>2. In(s, s[i]) /\ s[i] \in Messages /\ a[i] = s[i]
      BY <1>1, <1>2, <3>1 DEF In
    <3>3. CASE j \in 1 .. Len(s)
      BY <1>1, <1>6, <2>1, <3>1, <3>3 DEF Sorted
    <3>4. CASE j = Len(s) + 1
      BY <1>1, <1>6, <3>2, <3>4
    <3>5. QED
      BY <1>3, <3>3, <3>4
  <2>2. QED
    BY <2>1 DEF Sorted
<1>7. QED
  BY <1>5, <1>6 DEF a

\* The places of the lines are a stage of a node each.
LEMMA LinePlace ==
  /\ \A n \in Nodes, k \in Stages \cup {"done"} : <<n, k>> \in LinePlaces
  /\ \A q \in LinePlaces : \E n \in Nodes, k \in Stages \cup {"done"} : q = <<n, k>>
BY DEF LinePlaces

\* The head of a place is gone: the rest is in order, behind what was taken or
\* ahead of it.
LEMMA DropInOrder ==
  ASSUME NEW L, LineTypes(L), InOrder(L),
         NEW n \in Nodes, NEW k \in Stages \cup {"done"}, L[<<n, k>>] # <<>>
  PROVE  LET D == Dropped(L, <<n, k>>)
             h == Head(L[<<n, k>>]) IN
         /\ LineTypes(D) /\ InOrder(D)
         /\ h \in Messages /\ In(L[<<n, k>>], h) /\ Fits(n, k, h)
         /\ \A m : Lined(D, m) => Lined(L, m)
         /\ \A m : Lined(L, m) => m = h \/ Lined(D, m)
         /\ \A l \in Stages \cup {"done"}, a \in Messages : In(D[<<n, l>>], a) =>
              /\ In(L[<<n, l>>], a)
              /\ Rank(l) > Rank(k) => Follows(a, h)
              /\ l = k \/ Rank(k) > Rank(l) => Follows(h, a)
<1> DEFINE q == <<n, k>>
           D == Dropped(L, q)
           h == Head(L[q])
<1>1. q \in LinePlaces /\ L[q] \in Seq(Messages)
  BY LinePlace DEF LineTypes
<1>2. /\ Sorted(Tail(L[q])) /\ In(L[q], h) /\ h \in Messages
      /\ \A m : In(Tail(L[q]), m) => In(L[q], m) /\ Follows(h, m)
      /\ \A m : In(L[q], m) => m = h \/ In(Tail(L[q]), m)
  BY <1>1, InTail DEF InOrder
<1>3. /\ LineTypes(D) /\ D[q] = Tail(L[q])
      /\ \A r \in LinePlaces : r # q => D[r] = L[r]
  <2>1. Tail(L[q]) \in Seq(Messages)
    BY <1>1, TailProperties2
  <2>2. QED
    BY <1>1, <2>1 DEF LineTypes, Dropped
<1>4. Fits(n, k, h)
  BY <1>2 DEF InOrder, Placed
<1> HIDE DEF D, h
<1>5. \A r \in LinePlaces : Sorted(D[r]) /\ \A m : In(D[r], m) => In(L[r], m)
  BY <1>2, <1>3 DEF InOrder
<1>6. Placed(D) /\ Ordered(D)
  BY <1>5, LinePlace DEF InOrder, Placed, Ordered
<1>7. \A m : Lined(D, m) => Lined(L, m)
  BY <1>5 DEF Lined
<1>8. ASSUME NEW m, Lined(L, m), m # h
      PROVE  Lined(D, m)
  <2>1. PICK r \in LinePlaces : In(L[r], m)
    BY <1>8 DEF Lined
  <2>2. In(D[r], m)
    BY <1>2, <1>3, <1>8, <2>1
  <2>3. QED
    BY <2>2 DEF Lined
<1>9. ASSUME NEW l \in Stages \cup {"done"}, NEW a \in Messages, In(D[<<n, l>>], a)
      PROVE  /\ In(L[<<n, l>>], a)
             /\ Rank(l) > Rank(k) => Follows(a, h)
             /\ l = k \/ Rank(k) > Rank(l) => Follows(h, a)
  <2>1. In(L[<<n, l>>], a)
    BY <1>5, <1>9, LinePlace
  <2>2. Rank(l) > Rank(k) => Follows(a, h)
    BY <1>2, <2>1 DEF InOrder, Ordered
  <2>3. l = k => Follows(h, a)
    BY <1>2, <1>3, <1>9
  <2>4. Rank(k) > Rank(l) => Follows(h, a)
    BY <1>2, <2>1 DEF InOrder, Ordered
  <2>5. QED
    BY <2>1, <2>2, <2>3, <2>4
<1>10. QED
  BY <1>2, <1>3, <1>4, <1>5, <1>6, <1>7, <1>8, <1>9 DEF D, h, InOrder

\* A message comes to the end of a place: in order, if it is behind all that is
\* there or further on, and ahead of what is yet to come.
LEMMA AddInOrder ==
  ASSUME NEW L, LineTypes(L), InOrder(L),
         NEW n \in Nodes, NEW k \in Stages \cup {"done"},
         NEW h \in Messages, Fits(n, k, h),
         \A l \in Stages \cup {"done"}, a \in Messages : In(L[<<n, l>>], a) =>
              /\ l = k \/ Rank(l) > Rank(k) => Follows(a, h)
              /\ Rank(k) > Rank(l) => Follows(h, a)
  PROVE  LET A == Added(L, <<n, k>>, h) IN
         /\ LineTypes(A) /\ InOrder(A)
         /\ \A m : Lined(A, m) <=> Lined(L, m) \/ m = h
<1> DEFINE q == <<n, k>>
           A == Added(L, q, h)
<1>1. q \in LinePlaces /\ L[q] \in Seq(Messages)
  BY LinePlace DEF LineTypes
<1>2. /\ \A m : In(Append(L[q], h), m) <=> In(L[q], m) \/ m = h
      /\ Sorted(Append(L[q], h))
  <2>1. \A m \in Messages : In(L[q], m) => Follows(m, h)
    OBVIOUS
  <2>2. Sorted(L[q])
    BY <1>1 DEF InOrder
  <2>3. QED
    BY <1>1, <2>1, <2>2, InAppend
<1>3. /\ LineTypes(A) /\ A[q] = Append(L[q], h)
      /\ \A r \in LinePlaces : r # q => A[r] = L[r]
  <2>1. Append(L[q], h) \in Seq(Messages)
    BY <1>1, AppendProperties2
  <2>2. QED
    BY <1>1, <2>1 DEF LineTypes, Added
<1> HIDE DEF A
<1>4. \A r \in LinePlaces :
        Sorted(A[r]) /\ \A m : In(A[r], m) <=> In(L[r], m) \/ (r = q /\ m = h)
  BY <1>2, <1>3 DEF InOrder
<1> HIDE DEF q
<1>5. Placed(A)
  <2>1. ASSUME NEW x \in Nodes, NEW l \in Stages \cup {"done"}, NEW m \in Messages,
               In(A[<<x, l>>], m)
        PROVE  Fits(x, l, m)
    <3>1. <<x, l>> \in LinePlaces
      BY LinePlace
    <3>2. CASE In(L[<<x, l>>], m)
      BY <3>2 DEF InOrder, Placed
    <3>3. CASE <<x, l>> = q /\ m = h
      <4>1. x = n /\ l = k
        BY <3>3 DEF q
      <4>2. QED
        BY <3>3, <4>1
    <3>4. QED
      BY <1>4, <2>1, <3>1, <3>2, <3>3
  <2>2. QED
    BY <2>1 DEF Placed
<1>6. Ordered(A)
  <2>1. ASSUME NEW x \in Nodes, NEW l \in Stages \cup {"done"}, NEW j \in Stages \cup {"done"},
               NEW a \in Messages, NEW b \in Messages,
               Rank(l) > Rank(j), In(A[<<x, l>>], a), In(A[<<x, j>>], b)
        PROVE  Follows(a, b)
    <3>1. <<x, l>> \in LinePlaces /\ <<x, j>> \in LinePlaces /\ l # j
      <4>1. \A i \in Stages \cup {"done"} : Rank(i) \in Nat
        BY DEF Rank, Stages
      <4>2. QED
        BY <2>1, <4>1, LinePlace
    <3>2. CASE In(L[<<x, l>>], a) /\ In(L[<<x, j>>], b)
      BY <2>1, <3>2 DEF InOrder, Ordered
    <3>3. CASE <<x, l>> = q /\ a = h
      <4>1. x = n /\ l = k /\ <<x, j>> # q
        BY <3>1, <3>3 DEF q
      <4>2. In(L[<<n, j>>], b)
        BY <1>4, <2>1, <3>1, <4>1
      <4>3. QED
        BY <2>1, <3>3, <4>1, <4>2
    <3>4. CASE <<x, j>> = q /\ b = h
      <4>1. x = n /\ j = k /\ <<x, l>> # q
        BY <3>1, <3>4 DEF q
      <4>2. In(L[<<n, l>>], a)
        BY <1>4, <2>1, <3>1, <4>1
      <4>3. QED
        BY <2>1, <3>4, <4>1, <4>2
    <3>5. QED
      BY <1>4, <2>1, <3>1, <3>2, <3>3, <3>4
  <2>2. QED
    BY <2>1 DEF Ordered
<1>7. \A m : Lined(A, m) <=> Lined(L, m) \/ m = h
  BY <1>1, <1>4 DEF Lined, q
<1>8. QED
  BY <1>3, <1>4, <1>5, <1>6, <1>7 DEF A, q, InOrder

\* A message moves on to a later place of its node, and passes only messages of
\* the other priority.
LEMMA MoveInOrder ==
  ASSUME NEW L, LineTypes(L), InOrder(L),
         NEW n \in Nodes, NEW k \in Stages \cup {"done"}, NEW j \in Stages \cup {"done"},
         L[<<n, k>>] # <<>>, Rank(j) > Rank(k), Fits(n, j, Head(L[<<n, k>>])),
         \A l \in Stages \cup {"done"}, a \in Messages :
           l # k /\ Rank(l) >= Rank(k) /\ Rank(j) > Rank(l) /\ In(L[<<n, l>>], a)
             => a.prio # Head(L[<<n, k>>]).prio
  PROVE  LET M == Added(Dropped(L, <<n, k>>), <<n, j>>, Head(L[<<n, k>>])) IN
         /\ LineTypes(M) /\ InOrder(M)
         /\ \A m : Lined(M, m) <=> Lined(L, m)
<1> DEFINE D == Dropped(L, <<n, k>>)
           h == Head(L[<<n, k>>])
           M == Added(D, <<n, j>>, h)
<1>1. /\ LineTypes(D) /\ InOrder(D)
      /\ h \in Messages /\ In(L[<<n, k>>], h)
      /\ \A m : Lined(D, m) => Lined(L, m)
      /\ \A m : Lined(L, m) => m = h \/ Lined(D, m)
      /\ \A l \in Stages \cup {"done"}, a \in Messages : In(D[<<n, l>>], a) =>
              /\ In(L[<<n, l>>], a)
              /\ Rank(l) > Rank(k) => Follows(a, h)
              /\ l = k \/ Rank(k) > Rank(l) => Follows(h, a)
  BY DropInOrder
<1>2. Fits(n, j, h)
  OBVIOUS
<1>3. \A i \in Stages \cup {"done"} : Rank(i) \in Nat
  BY DEF Rank, Stages
<1>4. \A l \in Stages \cup {"done"}, a \in Messages :
           l # k /\ Rank(l) >= Rank(k) /\ Rank(j) > Rank(l) /\ In(L[<<n, l>>], a)
             => a.prio # h.prio
  OBVIOUS
<1> HIDE DEF D, h
<1>5. ASSUME NEW l \in Stages \cup {"done"}, NEW a \in Messages, In(D[<<n, l>>], a)
      PROVE  /\ l = j \/ Rank(l) > Rank(j) => Follows(a, h)
             /\ Rank(j) > Rank(l) => Follows(h, a)
  <2>1. ASSUME l = j \/ Rank(l) > Rank(j)
        PROVE  Follows(a, h)
    <3>1. Rank(l) > Rank(k)
      BY <1>3, <2>1
    <3>2. QED
      BY <1>1, <1>5, <3>1
  <2>2. ASSUME Rank(j) > Rank(l)
        PROVE  Follows(h, a)
    <3>1. CASE l = k \/ Rank(k) > Rank(l)
      BY <1>1, <1>5, <3>1
    <3>2. CASE l # k /\ Rank(l) >= Rank(k)
      BY <1>1, <1>4, <1>5, <2>2, <3>2 DEF Follows
    <3>3. QED
      BY <1>3, <3>1, <3>2
  <2>3. QED
    BY <2>1, <2>2
<1>6. /\ LineTypes(M) /\ InOrder(M)
      /\ \A m : Lined(M, m) <=> Lined(D, m) \/ m = h
  BY <1>1, <1>2, <1>5, AddInOrder
<1> HIDE DEF M
<1>7. Lined(L, h)
  BY <1>1, LinePlace DEF Lined
<1>8. \A m : Lined(M, m) <=> Lined(L, m)
  BY <1>1, <1>6, <1>7
<1>9. QED
  BY <1>6, <1>8 DEF M, D, h

-----------------------------------------------------------------------------
(* The invariant of the messages' history.                                 *)

\* The call of node n has not made its message visible yet.
Uncommitted(n) ==
  \/ pc[Api(n)] \in Getting \cup (Enqueuing \ {"enq_unlock"})
  \/ pc[Api(n)] \in Freeing \cup {"enq_unlock"} /\ ~ok[Api(n)]

Past(m) == /\ m.seq <= sends[m.src]
           /\ Uncommitted(m.src) => m.seq < sends[m.src]

\* A call carries the last number of its node, and its message in its buffer;
\* once committed the message stays in line until it is discarded.
Stamped == \A n \in Nodes : Sending(n) => msg[Api(n)].seq = sends[n]
Loaded  == \A n \in Nodes : pc[Api(n)] \in Enqueuing \ {"enq_unlock"}
             => content[buf[Api(n)]] = msg[Api(n)]
Visible(n) == pc[Api(n)] = "notify" \/ (pc[Api(n)] = "enq_unlock" /\ ok[Api(n)])
Committed == \A n \in Nodes : Visible(n) => Lined(Line, msg[Api(n)]) \/ msg[Api(n)] \in discarded

\* A descriptor names the priority of the message it points to.
PrioTrue(n) == \A o \in Skip(n) .. count[n] - 1 :
  Desc(n, o).prio = content[Desc(n, o).buf].prio
PriosTrue == \A n \in Nodes : PrioTrue(n)

HistoryInv ==
  /\ InOrder(Line)
  /\ Stamped /\ Loaded /\ Committed /\ PriosTrue
  /\ \A m \in Messages : Lined(Line, m) \/ m \in refused => Past(m)
  /\ \A m \in refused : ~ Lined(Line, m)
  /\ \A m \in accepted : Lined(Line, m) \/ m \in discarded

\* The lines consist of messages.
LEMMA LineIsTyped ==
  ASSUME DriverInv
  PROVE  LineTypes(Line) /\ received \in [Nodes -> Seq(Messages)]
<1>1. received \in [Nodes -> Seq(Messages)]
  BY DEF DriverInv, TypeOK, HistoryTypes
<1>2. ASSUME NEW n \in Nodes, NEW k \in Stages
      PROVE  AllFilled(Queue(n, k))
  <2>1. CASE k = "ring"
    <3>1. PICK s \in {0, 1}, c \in Nat : s = Skip(n) /\ c = count[n] /\ c - s \in Nat
      BY RingQueue DEF DriverInv, TypeOK, RingTypes
    <3>2. Queue(n, "ring") = [i \in 1 .. c - s |-> Desc(n, s + i - 1).buf]
          /\ Len(Queue(n, "ring")) = c - s
      BY <3>1, RingQueue
    <3>3. ASSUME NEW i \in 1 .. c - s
          PROVE  Filled(Queue(n, "ring")[i])
      <4>1. s + i - 1 \in 0 .. c - 1
        BY <3>1
      <4>2. Filled(Desc(n, s + i - 1).buf)
        BY <3>1, <4>1 DEF DriverInv, RingsSound, RingSound
      <4>3. QED
        BY <3>2, <4>2
    <3>4. QED
      BY <2>1, <3>2, <3>3 DEF AllFilled
  <2>2. CASE k # "ring"
    BY <2>2, OtherQueues DEF DriverInv, QueuesFilled, Stages, Prios
  <2>3. QED
    BY <2>1, <2>2
<1>3. ASSUME NEW q \in Places
      PROVE  Line[q] \in Seq(Messages)
  <2>1. PICK n \in Nodes, k \in Stages : q = <<n, k>>
    BY QueuesAt
  <2>2. Queues[q] \in Seq(Buffers) /\ AllFilled(Queues[q])
    BY <1>2, <2>1, QueuesAt, QueueTypes
  <2>3. Load(content, Queues[q]) \in Seq(Messages)
    BY <2>2 DEF Load, AllFilled, Filled
  <2>4. QED
    BY <2>3, LineAt DEF Line
<1>4. ASSUME NEW n \in Nodes
      PROVE  Line[<<n, "done">>] \in Seq(Messages)
  <2>1. Line[<<n, "done">>] = received[n]
    BY LineAt DEF Line
  <2>2. QED
    BY <1>1, <2>1
<1>5. QED
  BY <1>1, <1>3, <1>4, LineAt DEF LineTypes, Line

\* Nobody's past is called into question while no new call starts.
LEMMA PastStays ==
  ASSUME sends' = sends, \A n \in Nodes : Uncommitted(n)' => Uncommitted(n),
         NEW m \in Messages, Past(m)
  PROVE  Past(m)'
<1>1. m.src \in Nodes
  BY MessageFacts
<1>2. QED
  BY <1>1 DEF Past

\* What is queued is not in anybody's hand: filling a buffer changes no message
\* under way.
LEMMA FillLine ==
  ASSUME DriverInv, PoolInv, NEW b, Held(Hands, b), NEW c,
         c = [content EXCEPT ![b] = c[b]], Queues' = Queues, received' = received, content' = c
  PROVE  Line' = Line
<1>1. ASSUME NEW q \in Places
      PROVE  Load(c, Queues[q]) = Load(content, Queues[q])
  <2>1. Queues[q] \in Seq(Buffers)
    BY QueueTypes
  <2>2. ASSUME NEW i \in 1 .. Len(Queues[q])
        PROVE  c[Queues[q][i]] = content[Queues[q][i]]
    <3>1. Queues[q][i] \in Buffers /\ Queued(Queues, Queues[q][i])
      BY <2>1 DEF Queued
    <3>2. Queues[q][i] # b
      BY <3>1 DEF PoolInv, Owned
    <3>3. content \in [Buffers -> Messages \cup {NoMessage}]
      BY DEF DriverInv, TypeOK, PoolTypes
    <3>4. QED
      BY <3>1, <3>2, <3>3
  <2>3. DOMAIN Queues[q] = 1 .. Len(Queues[q])
    BY <2>1
  <2>4. QED
    BY <2>2, <2>3 DEF Load
<1>2. \A q \in LinePlaces :
        LineOf(Queues, c, received)[q] = LineOf(Queues, content, received)[q]
  BY <1>1, LineAt
<1>3. LineOf(Queues, c, received) = LineOf(Queues, content, received)
  BY <1>2, LineAt
<1>4. QED
  BY <1>3 DEF Line

\* The steps that move no queue change no line either.
LEMMA QuietLine ==
  ASSUME DriverInv, DriverInv', PoolInv, Quiet
  PROVE  Line' = Line
<1>1. Queues' = Queues
  BY QuietQueues
<1>2. received' = received
  BY DEF Quiet, StartSend, GetBuffer, GetLock, GetScan, GetMark, GetUnlock, EnqLock, EnqStore,
         EnqUnlock, Notify, Interrupt, RxWait, Poll, ConsLock, ConsUpdate, ConsUnlock, RxLock,
         RxDone, Free, FreeLock, FreeClear, FreeUnlock, history
<1>3. CASE content' = content
  BY <1>1, <1>2, <1>3 DEF Line
<1>4. CASE \E n \in Nodes : GetUnlock(n) /\ buf[Api(n)] # NoBuffer
  <2>1. PICK n \in Nodes : GetUnlock(n) /\ buf[Api(n)] # NoBuffer
    BY <1>4
  <2>2. Held(Hands, buf[Api(n)])
    <3>1. Hands[Api(n)] = buf[Api(n)] /\ Api(n) \in Threads
      BY <2>1, ThreadFacts, HandsAt DEF GetUnlock, InHand
    <3>2. QED
      BY <3>1 DEF Held
  <2>3. content' = [content EXCEPT ![buf[Api(n)]] = msg[Api(n)]]
    BY <2>1 DEF GetUnlock
  <2>4. content' = [content EXCEPT ![buf[Api(n)]] = content'[buf[Api(n)]]]
    BY <2>3, ThreadFacts DEF DriverInv, TypeOK, PoolTypes
  <2>5. QED
    BY <1>1, <1>2, <2>2, <2>4, FillLine
<1>5. content' = content \/ \E n \in Nodes : GetUnlock(n) /\ buf[Api(n)] # NoBuffer
  <2>1. ASSUME NEW n \in Nodes, GetUnlock(n)
        PROVE  content' = content \/ buf[Api(n)] # NoBuffer
    BY <2>1 DEF GetUnlock
  <2>2. QED
    BY <2>1 DEF Quiet, StartSend, GetBuffer, GetLock, GetScan, GetMark, EnqLock, EnqStore,
         EnqUnlock, Notify, Interrupt, RxWait, Poll, ConsLock, ConsUpdate, ConsUnlock, RxLock,
         RxDone, Free, FreeLock, FreeClear, FreeUnlock
<1>6. QED
  BY <1>3, <1>4, <1>5

LineKept == InOrder(Line') /\ \A m : Lined(Line', m) <=> Lined(Line, m)

\* shm_poll moves a message from the ring to the queue of its priority.
LEMMA PollLine ==
  ASSUME DriverInv, DriverInv', InOrder(Line), PriosTrue,
         NEW n \in Nodes, Poll(n), count[n] > 0
  PROVE  LineKept
<1> DEFINE r == <<n, "ring">>
           h == Head(Line[r])
<1>1. PICK p \in Prios : p = NextDesc(n).prio
  BY PollQueues
<1>2. PICK k \in {"prio0", "prio1"} : k = PrioStage(p)
  BY DEF PrioStage
<1>3. /\ Queues[r] # <<>> /\ Head(Queues[r]) = NextDesc(n).buf
      /\ Queues' = Added(Dropped(Queues, r), <<n, k>>, Head(Queues[r]))
  BY <1>1, <1>2, PollQueues, QueuesAt DEF Stages
<1>4. r \in Places /\ <<n, k>> \in Places
  BY DEF Places, Stages
<1>5. content' = content /\ received' = received
  BY DEF Poll, history
<1>6. Line' = LineOf(Added(Dropped(Queues, r), <<n, k>>, Head(Queues[r])), content, received)
  BY <1>3, <1>5, LineIs
<1>7. /\ Line' = Added(Dropped(Line, r), <<n, k>>, h)
      /\ Line[r] # <<>> /\ h = content[NextDesc(n).buf]
  BY <1>3, <1>4, <1>6, LineIs, QueueTypes, LineMoved
<1>8. h.prio = p
  <2>1. count[n] \in Nat /\ Skip(n) = 0
    BY DEF Skip, HeadTaken, Poll, DriverInv, TypeOK, RingTypes
  <2>2. Desc(n, 0).prio = content[Desc(n, 0).buf].prio
    BY <2>1 DEF PriosTrue, PrioTrue
  <2>3. NextDesc(n) = Desc(n, 0)
    BY HeadDesc DEF DriverInv, TypeOK, RingTypes
  <2>4. QED
    BY <1>1, <1>7, <2>2, <2>3
<1>9. Fits(n, k, h)
  <2>1. Line[r] \in Seq(Messages) /\ h \in Messages /\ In(Line[r], h)
    BY <1>7, LinePlace, LineIsTyped, InTail DEF LineTypes, InOrder, Stages
  <2>2. h.dst = n
    BY <2>1 DEF InOrder, Placed, Fits, Stages
  <2>3. QED
    BY <1>2, <1>8, <2>2 DEF Fits, PrioStage, Prios
<1>10. /\ Rank(k) > Rank("ring") /\ k \in Stages \cup {"done"}
       /\ \A l \in Stages \cup {"done"} :
            ~ (l # "ring" /\ Rank(l) >= Rank("ring") /\ Rank(k) > Rank(l))
  BY DEF Rank, Stages
<1> HIDE DEF h
<1>11. InOrder(Line') /\ \A m : Lined(Line', m) <=> Lined(Line, m)
  BY <1>7, <1>9, <1>10, LineIsTyped, MoveInOrder DEF h, Stages
<1>12. QED
  BY <1>11 DEF LineKept

\* A message handed to an endpoint's queue stays in order; another is discarded.
LEMMA DeliverLine ==
  ASSUME DriverInv, InOrder(Line), NEW n \in Nodes, RxDeliver(n)
  PROVE  \/ LineKept
         \/ \E h \in Messages : /\ InOrder(Line') /\ discarded' = discarded \cup {h}
                                /\ \A m : Lined(Line', m) => Lined(Line, m)
                                /\ \A m : Lined(Line, m) => m = h \/ Lined(Line', m)
<1>1. PICK k \in {"prio0", "prio1"} : k = PrioStage(NextPrio(n))
  BY DEF PrioStage
<1> DEFINE r == <<n, k>>
           b == Head(Queues[r])
           h == Head(Line[r])
<1>2. r \in Places /\ <<n, "endp">> \in Places /\ k \in Stages
  BY DEF Places, Stages
<1>3. /\ Queues[r] = rxQueue[n][NextPrio(n)] /\ Queues[r] # <<>>
      /\ content[b].known => Queues' = Added(Dropped(Queues, r), <<n, "endp">>, b)
      /\ ~ content[b].known => Queues' = Dropped(Queues, r)
  BY <1>1, <1>2, DeliverQueues, QueuesAt
<1>4. content' = content /\ received' = received
  BY DEF RxDeliver
<1>5. Line' = LineOf(Queues', content, received)
  BY <1>4, LineIs
<1>6. /\ LineOf(Added(Dropped(Queues, r), <<n, "endp">>, b), content, received)
           = Added(Dropped(Line, r), <<n, "endp">>, h)
      /\ LineOf(Dropped(Queues, r), content, received) = Dropped(Line, r)
      /\ Line[r] # <<>> /\ h = content[b]
  BY <1>2, <1>3, LineIs, QueueTypes, LineMoved
<1>7. LineTypes(Line)
  BY LineIsTyped
<1>8. CASE content[b].known
  <2>1. Line' = Added(Dropped(Line, r), <<n, "endp">>, h)
    BY <1>3, <1>5, <1>6, <1>8
  <2>2. h \in Messages /\ Fits(n, k, h)
    BY <1>2, <1>6, <1>7, DropInOrder
  <2>3. Fits(n, "endp", h)
    BY <2>2 DEF Fits
  <2>4. ASSUME NEW l \in Stages \cup {"done"}, NEW a \in Messages,
               l # k, Rank(l) >= Rank(k), Rank("endp") > Rank(l), In(Line[<<n, l>>], a)
        PROVE  a.prio # h.prio
    <3>1. l \in {"prio0", "prio1"}
      BY <2>4 DEF Rank, Stages
    <3>2. Fits(n, l, a)
      BY <2>4 DEF InOrder, Placed
    <3>3. QED
      BY <2>2, <2>4, <3>1, <3>2 DEF Fits
  <2>5. Rank("endp") > Rank(k) /\ "endp" \in Stages
    BY DEF Rank, Stages
  <2> HIDE DEF h, b
  <2>6. InOrder(Line') /\ \A m : Lined(Line', m) <=> Lined(Line, m)
    BY <1>2, <1>6, <1>7, <2>1, <2>3, <2>4, <2>5, MoveInOrder DEF h
  <2>7. QED
    BY <2>6 DEF LineKept
<1>9. CASE ~ content[b].known
  <2>1. Line' = Dropped(Line, r)
    BY <1>3, <1>5, <1>6, <1>9
  <2>2. discarded' = discarded \cup {h}
    BY <1>3, <1>6, <1>9 DEF RxDeliver
  <2>3. /\ InOrder(Line') /\ h \in Messages
        /\ \A m : Lined(Line', m) => Lined(Line, m)
        /\ \A m : Lined(Line, m) => m = h \/ Lined(Line', m)
    BY <1>2, <1>6, <1>7, <2>1, DropInOrder
  <2>4. QED
    BY <2>2, <2>3
<1>10. QED
  BY <1>8, <1>9

\* msg_recv moves the message at the head of the endpoint's queue to what was received.
LEMMA ReceiveLine ==
  ASSUME DriverInv, InOrder(Line), NEW n \in Nodes, Receive(n)
  PROVE  LineKept
<1> DEFINE r == <<n, "endp">>
           d == <<n, "done">>
           b == Head(Queues[r])
           h == Head(Line[r])
<1>1. r \in Places /\ "endp" \in Stages
  BY DEF Places, Stages
<1>2. Queues[r] = endpQueue[n] /\ Queues[r] # <<>> /\ Queues' = Dropped(Queues, r)
  BY <1>1, ReceiveQueues, QueuesAt
<1>3. /\ content' = content /\ received' = [received EXCEPT ![n] = Append(received[n], content[b])]
      /\ received \in [Nodes -> Seq(Messages)]
  BY <1>2, LineIsTyped DEF Receive
<1>4. Line[r] # <<>> /\ h = content[b]
      /\ LineOf(Dropped(Queues, r), content, received) = Dropped(Line, r)
  BY <1>1, <1>2, QueueTypes, LineDropped DEF Line
<1>5. Line' = Added(Dropped(Line, r), d, h)
  <2>1. Line' = LineOf(Dropped(Queues, r), content, received')
    BY <1>2, <1>3, LineIs
  <2>2. Line' = Added(LineOf(Dropped(Queues, r), content, received), d, content[b])
    <3>1. Handed(received, received', n, content[b])
      BY <1>3 DEF Handed
    <3>2. QED
      BY <2>1, <3>1, LineReceived
  <2>3. QED
    BY <1>4, <2>2
<1>6. LineTypes(Line)
  BY LineIsTyped
<1>7. Fits(n, "endp", h)
  BY <1>1, <1>4, <1>6, DropInOrder
<1>8. Fits(n, "done", h)
  BY <1>7 DEF Fits
<1>9. /\ Rank("done") > Rank("endp")
      /\ \A l \in Stages \cup {"done"} :
            ~ (l # "endp" /\ Rank(l) >= Rank("endp") /\ Rank("done") > Rank(l))
  BY DEF Rank, Stages
<1> HIDE DEF h
<1>10. InOrder(Line') /\ \A m : Lined(Line', m) <=> Lined(Line, m)
  BY <1>1, <1>4, <1>5, <1>6, <1>8, <1>9, MoveInOrder DEF h
<1>11. QED
  BY <1>10 DEF LineKept

\* The message that becomes visible is the newest of its sender.
LEMMA CommitLine ==
  ASSUME DriverInv, DriverInv', HistoryInv, NEW n \in Nodes, EnqCommit(n)
  PROVE  /\ InOrder(Line')
         /\ \A m : Lined(Line', m) <=> Lined(Line, m) \/ m = msg[Api(n)]
<1> DEFINE h == msg[Api(n)]
           b == buf[Api(n)]
<1>1. /\ h \in Messages /\ h.src = n /\ h.seq = sends[n] /\ content[b] = h
      /\ b \in Buffers /\ Uncommitted(n)
  BY CommitHands DEF EnqCommit, Goto, HistoryInv, Stamped, Loaded, DriverInv, CallsSound,
     CallSound, Sending, Enqueuing, Uncommitted
<1>2. PICK d \in Nodes : d = h.dst
  BY CommitQueues
<1>3. Queues' = Added(Queues, <<d, "ring">>, b) /\ <<d, "ring">> \in Places
      /\ "ring" \in Stages
  BY <1>2, CommitQueues DEF Places, Stages
<1>4. content' = content /\ received' = received
  BY DEF EnqCommit, history
<1>5. Line' = Added(Line, <<d, "ring">>, h)
  BY <1>1, <1>3, <1>4, QueueTypes, LineAdded DEF Line
<1> HIDE DEF h, b
<1>6. ASSUME NEW l \in Stages \cup {"done"}, NEW a \in Messages, In(Line[<<d, l>>], a)
      PROVE  Follows(a, h)
  <2>1. Lined(Line, a)
    BY <1>6, LinePlace DEF Lined
  <2>2. Past(a)
    BY <2>1 DEF HistoryInv
  <2>3. a.src = n => a.seq < sends[n]
    BY <1>1, <2>2 DEF Past
  <2>4. QED
    BY <1>1, <2>3 DEF Follows
<1>7. \A l \in Stages \cup {"done"} : ~ (Rank("ring") > Rank(l))
  BY DEF Rank, Stages
<1>8. Fits(d, "ring", h)
  BY <1>2 DEF Fits
<1>9. LineTypes(Line) /\ InOrder(Line)
  BY LineIsTyped DEF HistoryInv
<1>10. InOrder(Line') /\ \A m : Lined(Line', m) <=> Lined(Line, m) \/ m = h
  BY <1>1, <1>3, <1>5, <1>6, <1>7, <1>8, <1>9, AddInOrder
<1>11. QED
  BY <1>10 DEF h

-----------------------------------------------------------------------------
(* The steps of the driver keep the history.                               *)

\* What a step does to the lines of messages.
LineFacts ==
  /\ InOrder(Line')
  /\ \A m : Lined(Line, m) => Lined(Line', m) \/ m \in discarded'
  /\ \A m : Lined(Line', m) => Lined(Line, m) \/ \E n \in Nodes : EnqCommit(n) /\ m = msg[Api(n)]
  /\ \A n \in Nodes : EnqCommit(n) => Lined(Line', msg[Api(n)])

\* Every step keeps the lines in order and loses no message but those it discards;
\* only the commit of a send adds one.
LEMMA LineStep ==
  ASSUME DriverInv, DriverInv', PoolInv, HistoryInv, Next
  PROVE  LineFacts
<1>1. \A n \in Nodes : EnqCommit(n) => Lined(Line', msg[Api(n)])
  BY CommitLine
<1>2. ASSUME LineKept
      PROVE  LineFacts
  BY <1>1, <1>2 DEF LineFacts, LineKept
<1>3. CASE Quiet
  BY <1>2, <1>3, QuietLine DEF LineKept, HistoryInv
<1>4. ASSUME NEW n \in Nodes, EnqCommit(n)
      PROVE  LineFacts
  BY <1>1, <1>4, CommitLine DEF LineFacts
<1>5. ASSUME NEW n \in Nodes, Poll(n), count[n] > 0
      PROVE  LineFacts
  BY <1>2, <1>5, PollLine DEF HistoryInv
<1>6. ASSUME NEW n \in Nodes, RxDeliver(n)
      PROVE  LineFacts
  <2>1. CASE LineKept
    BY <1>2, <2>1
  <2>2. CASE \E h \in Messages : /\ InOrder(Line') /\ discarded' = discarded \cup {h}
                                 /\ \A m : Lined(Line', m) => Lined(Line, m)
                                 /\ \A m : Lined(Line, m) => m = h \/ Lined(Line', m)
    <3>1. InOrder(Line') /\ \A m : Lined(Line', m) => Lined(Line, m)
      BY <2>2
    <3>2. \A m : Lined(Line, m) => Lined(Line', m) \/ m \in discarded'
      BY <2>2
    <3>3. QED
      BY <1>1, <3>1, <3>2 DEF LineFacts
  <2>3. QED
    BY <1>6, <2>1, <2>2, DeliverLine DEF HistoryInv
<1>7. ASSUME NEW n \in Nodes, Receive(n)
      PROVE  LineFacts
  BY <1>2, <1>7, ReceiveLine DEF HistoryInv
<1>8. \/ Quiet
      \/ \E n \in Nodes : \/ EnqCommit(n) \/ (Poll(n) /\ count[n] > 0)
                          \/ RxDeliver(n) \/ Receive(n)
  <2>1. \A n \in Nodes : Poll(n) => count[n] > 0 \/ count[n] = 0
    BY DEF Poll
  <2>2. QED
    BY <2>1 DEF Next, Quiet, GetBuffer, Transmit, PollRing, RxData, Free
<1>9. QED
  BY <1>3, <1>4, <1>5, <1>6, <1>7, <1>8

\* A call that has begun only ever gets nearer its end.
LEMMA CallGoesOn ==
  ASSUME NotifyMayFail = FALSE, DriverInv, NEW n \in Nodes,
         \/ \E m \in Nodes : GetBuffer(m) \/ Transmit(m) \/ Interrupt(m)
                             \/ PollRing(m) \/ RxData(m) \/ Receive(m)
         \/ \E t \in Threads : Free(t)
  PROVE  /\ sends' = sends /\ msg' = msg
         /\ Sending(n)' => Sending(n)
         /\ Uncommitted(n)' => Uncommitted(n)
         /\ Visible(n)' => Visible(n) \/ EnqCommit(n)
<1> USE ThreadFacts, ThreadKinds DEF Goto, DriverInv, TypeOK, ThreadTypes, Sending, Uncommitted,
        Visible, Getting, Enqueuing, Freeing
<1> DEFINE P == /\ sends' = sends /\ msg' = msg
                /\ Sending(n)' => Sending(n)
                /\ Uncommitted(n)' => Uncommitted(n)
                /\ Visible(n)' => Visible(n) \/ EnqCommit(n)
<1>1. ok[Api(n)] \/ pc[Api(n)] \in Freeing \cup {"enq_unlock"}
  BY DEF CallsSound, CallSound
<1>2. ASSUME NEW m \in Nodes, GetBuffer(m)
      PROVE  P
  BY <1>1, <1>2 DEF GetBuffer, GetLock, GetScan, GetMark, GetUnlock, Return, history
<1>3. ASSUME NEW m \in Nodes, Transmit(m)
      PROVE  P
  <2>1. CASE EnqLock(m) \/ EnqStore(m)
    BY <1>1, <2>1 DEF EnqLock, EnqStore, history
  <2>2. CASE EnqCommit(m)
    <3>1. m = n \/ Api(m) # Api(n)
      OBVIOUS
    <3>2. QED
      BY <1>1, <2>2, <3>1 DEF EnqCommit, history
  <2>3. CASE EnqUnlock(m)
    BY <1>1, <2>3 DEF EnqUnlock, history
  <2>4. CASE Notify(m)
    <3>1. /\ sends' = sends /\ msg' = msg
          /\ \A t \in Threads : t # Api(m) => pc'[t] = pc[t] /\ (ok'[t] <=> ok[t])
      BY <2>4 DEF Notify, Return
    <3>2. pc[Api(m)] = "notify" /\ pc'[Api(m)] = "idle"
      BY <2>4 DEF Notify, Return
    <3>3. CASE m = n
      BY <1>1, <3>1, <3>2, <3>3
    <3>4. CASE m # n
      BY <3>1, <3>4
    <3>5. QED
      BY <3>3, <3>4
  <2>5. QED
    BY <1>3, <2>1, <2>2, <2>3, <2>4 DEF Transmit
<1>4. ASSUME NEW m \in Nodes, Interrupt(m) \/ PollRing(m) \/ RxData(m)
      PROVE  P
  <2>1. /\ sends' = sends /\ msg' = msg
        /\ pc'[Api(n)] = pc[Api(n)] /\ (ok'[Api(n)] <=> ok[Api(n)])
    <3>1. CASE Interrupt(m)
      BY <3>1 DEF Interrupt, history
    <3>2. CASE PollRing(m)
      BY <3>2 DEF PollRing, RxWait, Poll, ConsLock, ConsUpdate, ConsUnlock, history
    <3>3. CASE RxData(m)
      BY <3>3 DEF RxData, RxLock, RxDeliver, RxDone, history
    <3>4. QED
      BY <1>4, <3>1, <3>2, <3>3
  <2>2. QED
    BY <2>1
<1>5. ASSUME NEW m \in Nodes, Receive(m)
      PROVE  P
  BY <1>1, <1>5 DEF Receive, history
<1>6. ASSUME NEW t \in Threads, Free(t)
      PROVE  P
  <2>1. AfterFree(t) \in {"idle", "rx_drain"}
    BY DEF AfterFree
  <2>2. CASE FreeLock(t) \/ FreeClear(t)
    BY <2>2 DEF FreeLock, FreeClear, history
  <2>3. CASE FreeUnlock(t)
    BY <2>1, <2>3 DEF FreeUnlock, history
  <2>4. QED
    BY <1>6, <2>2, <2>3 DEF Free
<1>7. QED
  BY <1>2, <1>3, <1>4, <1>5, <1>6

\* A new call takes the next number.
LEMMA NewCall ==
  ASSUME DriverInv, NEW call \in Traffic, StartSend(call)
  PROVE  /\ call.src \in Nodes
         /\ msg'[Api(call.src)].seq = sends'[call.src]
         /\ sends'[call.src] = sends[call.src] + 1
         /\ \A n \in Nodes : ~ Visible(n)' \/ n # call.src
         /\ \A n \in Nodes : n # call.src =>
              /\ msg'[Api(n)] = msg[Api(n)] /\ sends'[n] = sends[n]
              /\ Sending(n)' <=> Sending(n)
              /\ Uncommitted(n)' <=> Uncommitted(n)
              /\ Visible(n)' <=> Visible(n)
<1> USE ThreadFacts, ThreadKinds, CallFacts DEF Goto, DriverInv, TypeOK, ThreadTypes, HistoryTypes
<1>1. call.src \in Nodes /\ Api(call.src) \in Threads
  OBVIOUS
<1>2. /\ msg'[Api(call.src)].seq = sends'[call.src]
      /\ sends'[call.src] = sends[call.src] + 1
  BY <1>1 DEF StartSend, Message
<1>3. ASSUME NEW n \in Nodes, n = call.src
      PROVE  ~ Visible(n)'
  BY <1>1, <1>3 DEF StartSend, Visible
<1>4. ASSUME NEW n \in Nodes, n # call.src
      PROVE  /\ msg'[Api(n)] = msg[Api(n)] /\ sends'[n] = sends[n]
             /\ pc'[Api(n)] = pc[Api(n)] /\ ok'[Api(n)] = ok[Api(n)]
  BY <1>1, <1>4 DEF StartSend
<1>5. QED
  BY <1>1, <1>2, <1>3, <1>4 DEF Sending, Uncommitted, Visible

\* A step begins a call, or is one of a driver's operation.
LEMMA NextCases ==
  ASSUME Next
  PROVE  \/ \E call \in Traffic : StartSend(call)
         \/ \/ \E m \in Nodes : GetBuffer(m) \/ Transmit(m) \/ Interrupt(m)
                                \/ PollRing(m) \/ RxData(m) \/ Receive(m)
            \/ \E t \in Threads : Free(t)
BY DEF Next

\* Messages stay discarded; a send is accepted where the receiver is notified, and
\* refused where a buffer was sought, or given back.
LEMMA HistoryMoves ==
  ASSUME Next
  PROVE  /\ discarded \subseteq discarded'
         /\ accepted' = accepted \/ \E n \in Nodes : Notify(n)
         /\ \/ refused' = refused
            \/ \E n \in Nodes : GetUnlock(n)
            \/ \E t \in Threads : FreeUnlock(t)
<1> DEFINE Moves == /\ discarded \subseteq discarded'
                    /\ accepted' = accepted \/ \E n \in Nodes : Notify(n)
                    /\ \/ refused' = refused
                       \/ \E n \in Nodes : GetUnlock(n)
                       \/ \E t \in Threads : FreeUnlock(t)
<1>1. ASSUME NEW call \in Traffic, StartSend(call) PROVE Moves
  BY <1>1 DEF StartSend, history
<1>2. ASSUME NEW n \in Nodes, GetBuffer(n) PROVE Moves
  BY <1>2 DEF GetBuffer, GetLock, GetScan, GetMark, GetUnlock, history
<1>3. ASSUME NEW n \in Nodes, Transmit(n) PROVE Moves
  BY <1>3 DEF Transmit, EnqLock, EnqStore, EnqCommit, EnqUnlock, Notify, history
<1>4. ASSUME NEW n \in Nodes, Interrupt(n) \/ PollRing(n) PROVE Moves
  BY <1>4 DEF Interrupt, PollRing, RxWait, Poll, ConsLock, ConsUpdate, ConsUnlock, history
<1>5. ASSUME NEW n \in Nodes, RxData(n) \/ Receive(n) PROVE Moves
  BY <1>5 DEF RxData, RxLock, RxDeliver, RxDone, Receive, history
<1>6. ASSUME NEW t \in Threads, Free(t) PROVE Moves
  BY <1>6 DEF Free, FreeLock, FreeClear, FreeUnlock, history
<1>7. QED
  BY <1>1, <1>2, <1>3, <1>4, <1>5, <1>6 DEF Next

\* A call keeps the number it took.
LEMMA StampedStep ==
  ASSUME NotifyMayFail = FALSE, DriverInv, Stamped, Next
  PROVE  Stamped'
<1>1. ASSUME NEW call \in Traffic, StartSend(call)
      PROVE  Stamped'
  <2>1. ASSUME NEW n \in Nodes, Sending(n)'
        PROVE  msg'[Api(n)].seq = sends'[n]
    BY <1>1, <2>1, NewCall DEF Stamped
  <2>2. QED
    BY <2>1 DEF Stamped
<1>2. ASSUME \/ \E m \in Nodes : GetBuffer(m) \/ Transmit(m) \/ Interrupt(m)
                                 \/ PollRing(m) \/ RxData(m) \/ Receive(m)
             \/ \E t \in Threads : Free(t)
      PROVE  Stamped'
  <2>1. ASSUME NEW n \in Nodes, Sending(n)'
        PROVE  msg'[Api(n)].seq = sends'[n]
    BY <1>2, <2>1, CallGoesOn DEF Stamped
  <2>2. QED
    BY <2>1 DEF Stamped
<1>3. QED
  BY <1>1, <1>2, NextCases

\* Only the buffer in the hand of the filling call changes.
LEMMA FillContent ==
  ASSUME DriverInv, PoolInv, NEW n \in Nodes, GetUnlock(n)
  PROVE  \/ content' = content
         \/ /\ content'[buf[Api(n)]] = msg[Api(n)] /\ Held(Hands, buf[Api(n)])
            /\ \A b \in Buffers : b # buf[Api(n)] => content'[b] = content[b]
            /\ \A m \in Nodes : m # n /\ InHand(Api(m)) => buf[Api(m)] # buf[Api(n)]
            /\ \A b \in Buffers : Queued(Queues, b) => b # buf[Api(n)]
<1> USE ThreadFacts DEF DriverInv, TypeOK, ThreadTypes, PoolTypes
<1>1. CASE buf[Api(n)] = NoBuffer
  BY <1>1 DEF GetUnlock
<1>2. CASE buf[Api(n)] # NoBuffer
  <2>1. buf[Api(n)] \in Buffers /\ Api(n) \in Threads
    BY <1>2
  <2>2. Hands[Api(n)] = buf[Api(n)]
    BY <1>2, HandsAt DEF GetUnlock, InHand
  <2>3. Held(Hands, buf[Api(n)])
    BY <2>1, <2>2 DEF Held
  <2>4. content' = [content EXCEPT ![buf[Api(n)]] = msg[Api(n)]]
    BY <1>2 DEF GetUnlock
  <2>5. ASSUME NEW m \in Nodes, m # n, InHand(Api(m)), buf[Api(m)] = buf[Api(n)]
        PROVE  FALSE
    <3>1. Hands[Api(m)] = Hands[Api(n)] /\ Hands[Api(n)] \in Buffers
      BY <2>1, <2>2, <2>5, HandsAt
    <3>2. Api(m) = Api(n)
      BY <3>1 DEF PoolInv, Owned, HandsApart
    <3>3. QED
      BY <2>5, <3>2, ThreadKinds
  <2>6. \A b \in Buffers : Queued(Queues, b) => b # buf[Api(n)]
    BY <2>3 DEF PoolInv, Owned
  <2>7. QED
    BY <2>1, <2>3, <2>4, <2>5, <2>6
<1>3. QED
  BY <1>1, <1>2

\* The message a call has written to its buffer stays there while it has it in hand.
LEMMA LoadedStep ==
  ASSUME DriverInv, PoolInv, Loaded, Next
  PROVE  Loaded'
<1> USE ThreadFacts, ThreadKinds DEF Goto, DriverInv, TypeOK, ThreadTypes
<1> DEFINE Set(x) == x \in Enqueuing \ {"enq_unlock"}
           Same(n) == Set(pc'[Api(n)]) =>
                        Set(pc[Api(n)]) /\ buf'[Api(n)] = buf[Api(n)] /\ msg'[Api(n)] = msg[Api(n)]
<1>1. ASSUME content' = content, \A n \in Nodes : Same(n)
      PROVE  Loaded'
  BY <1>1 DEF Loaded
<1>2. CASE \E call \in Traffic : StartSend(call)
  <2>1. PICK call \in Traffic : StartSend(call)
    BY <1>2
  <2>2. ASSUME NEW n \in Nodes
        PROVE  Same(n)
    BY <2>1, CallFacts DEF StartSend, Enqueuing
  <2>3. QED
    BY <1>1, <2>1, <2>2 DEF StartSend
<1>3. ASSUME NEW m \in Nodes, GetLock(m) \/ GetScan(m) \/ GetMark(m) \/ Transmit(m)
      PROVE  Loaded'
  <2>1. ASSUME NEW n \in Nodes
        PROVE  Same(n)
    <3>1. CASE GetLock(m) \/ GetScan(m) \/ GetMark(m)
      BY <3>1 DEF GetLock, GetScan, GetMark, Enqueuing
    <3>2. CASE EnqLock(m) \/ EnqStore(m) \/ EnqCommit(m)
      BY <3>2 DEF EnqLock, EnqStore, EnqCommit, Enqueuing
    <3>3. CASE EnqUnlock(m)
      BY <3>3 DEF EnqUnlock, Enqueuing
    <3>4. CASE Notify(m)
      BY <3>4 DEF Notify, Return, Enqueuing
    <3>5. QED
      BY <1>3, <3>1, <3>2, <3>3, <3>4 DEF Transmit
  <2>2. content' = content
    BY <1>3 DEF GetLock, GetScan, GetMark, Transmit, EnqLock, EnqStore, EnqCommit, EnqUnlock,
                Notify
  <2>3. QED
    BY <1>1, <2>1, <2>2
<1>4. ASSUME NEW m \in Nodes, GetUnlock(m)
      PROVE  Loaded'
  <2>1. ASSUME NEW n \in Nodes, Set(pc'[Api(n)])
        PROVE  content'[buf'[Api(n)]] = msg'[Api(n)]
    <3>1. CASE n = m
      BY <1>4, <2>1, <3>1 DEF GetUnlock, Return, Enqueuing, PoolTypes
    <3>2. CASE n # m
      <4>1. pc'[Api(n)] = pc[Api(n)] /\ buf'[Api(n)] = buf[Api(n)] /\ msg' = msg
        BY <1>4, <3>2 DEF GetUnlock, Return
      <4>2. content[buf[Api(n)]] = msg[Api(n)] /\ buf[Api(n)] \in Buffers /\ InHand(Api(n))
        BY <2>1, <4>1, BufferIsNotNone DEF Loaded, BuffersSound, Filled, InHand, Enqueuing
      <4>3. content'[buf[Api(n)]] = content[buf[Api(n)]]
        BY <1>4, <3>2, <4>2, FillContent
      <4>4. QED
        BY <4>1, <4>2, <4>3
    <3>3. QED
      BY <3>1, <3>2
  <2>2. QED
    BY <2>1 DEF Loaded
<1>5. ASSUME NEW m \in Nodes, Interrupt(m) \/ PollRing(m) \/ RxData(m) \/ Receive(m)
      PROVE  Loaded'
  <2>1. ASSUME NEW n \in Nodes
        PROVE  Same(n)
    <3>1. CASE Interrupt(m) \/ PollRing(m)
      BY <3>1 DEF Interrupt, PollRing, RxWait, Poll, ConsLock, ConsUpdate, ConsUnlock
    <3>2. CASE RxData(m)
      BY <3>2 DEF RxData, RxLock, RxDeliver, RxDone
    <3>3. CASE Receive(m)
      BY <3>3 DEF Receive, Enqueuing
    <3>4. QED
      BY <1>5, <3>1, <3>2, <3>3
  <2>2. content' = content
    BY <1>5 DEF Interrupt, PollRing, RxWait, Poll, ConsLock, ConsUpdate, ConsUnlock, RxData,
                RxLock, RxDeliver, RxDone, Receive
  <2>3. QED
    BY <1>1, <2>1, <2>2
<1>6. ASSUME NEW t \in Threads, Free(t)
      PROVE  Loaded'
  <2>1. AfterFree(t) \in {"idle", "rx_drain"}
    BY DEF AfterFree
  <2>2. ASSUME NEW n \in Nodes
        PROVE  Same(n)
    BY <1>6, <2>1 DEF Free, FreeLock, FreeClear, FreeUnlock, Enqueuing
  <2>3. QED
    BY <1>1, <1>6, <2>2 DEF Free, FreeLock, FreeClear, FreeUnlock
<1>7. QED
  BY <1>2, <1>3, <1>4, <1>5, <1>6 DEF Next, GetBuffer

\* What a call has made visible is not lost before it returns.
LEMMA CommittedStep ==
  ASSUME NotifyMayFail = FALSE, DriverInv, Committed, LineFacts, Next
  PROVE  Committed'
<1>1. discarded \subseteq discarded'
  BY HistoryMoves
<1>2. ASSUME NEW n \in Nodes, Visible(n)', Visible(n), msg'[Api(n)] = msg[Api(n)]
      PROVE  Lined(Line', msg'[Api(n)]) \/ msg'[Api(n)] \in discarded'
  BY <1>1, <1>2 DEF Committed, LineFacts
<1>3. ASSUME NEW call \in Traffic, StartSend(call)
      PROVE  Committed'
  <2>1. ASSUME NEW n \in Nodes, Visible(n)'
        PROVE  Lined(Line', msg'[Api(n)]) \/ msg'[Api(n)] \in discarded'
    <3>1. Visible(n) /\ msg'[Api(n)] = msg[Api(n)]
      BY <1>3, <2>1, NewCall
    <3>2. QED
      BY <1>2, <2>1, <3>1
  <2>2. QED
    BY <2>1 DEF Committed
<1>4. ASSUME \/ \E m \in Nodes : GetBuffer(m) \/ Transmit(m) \/ Interrupt(m)
                                 \/ PollRing(m) \/ RxData(m) \/ Receive(m)
             \/ \E t \in Threads : Free(t)
      PROVE  Committed'
  <2>1. ASSUME NEW n \in Nodes, Visible(n)'
        PROVE  Lined(Line', msg'[Api(n)]) \/ msg'[Api(n)] \in discarded'
    <3>1. msg' = msg /\ (Visible(n) \/ EnqCommit(n))
      BY <1>4, <2>1, CallGoesOn
    <3>2. CASE Visible(n)
      BY <1>2, <2>1, <3>1, <3>2
    <3>3. CASE EnqCommit(n)
      BY <3>1, <3>3 DEF LineFacts
    <3>4. QED
      BY <3>1, <3>2, <3>3
  <2>2. QED
    BY <2>1 DEF Committed
<1>5. QED
  BY <1>3, <1>4, NextCases

\* A descriptor the receive thread has yet to take names a queued buffer.
LEMMA VisibleDesc ==
  ASSUME DriverInv, NEW n \in Nodes, NEW o \in Skip(n) .. count[n] - 1
  PROVE  Desc(n, o).buf \in Buffers /\ Queued(Queues, Desc(n, o).buf)
<1>1. PICK s \in {0, 1}, c \in Nat : s = Skip(n) /\ c = count[n]
  BY RingQueue DEF DriverInv, TypeOK, RingTypes
<1>2. /\ Queue(n, "ring") = [i \in 1 .. c - s |-> Desc(n, s + i - 1).buf]
      /\ Queue(n, "ring") \in Seq(Buffers) /\ Len(Queue(n, "ring")) = c - s
  BY <1>1, RingQueue
<1>3. o - s + 1 \in 1 .. c - s /\ s + (o - s + 1) - 1 = o
  BY <1>1
<1>4. Queue(n, "ring")[o - s + 1] = Desc(n, o).buf
  BY <1>2, <1>3
<1>5. Desc(n, o).buf \in Buffers
  BY <1>2, <1>3, <1>4
<1>6. <<n, "ring">> \in Places /\ Queues[<<n, "ring">>] = Queue(n, "ring")
  BY QueuesAt DEF Stages
<1>7. Queued(Queues, Desc(n, o).buf)
  BY <1>2, <1>3, <1>4, <1>6 DEF Queued
<1>8. QED
  BY <1>5, <1>7

\* The priorities in a ring that is left alone, with contents that do not change.
LEMMA PrioFrame ==
  ASSUME PriosTrue, content' = content, NEW n \in Nodes,
         ring'[n] = ring[n], get'[n] = get[n], count'[n] = count[n],
         HeadTaken(n)' <=> HeadTaken(n)
  PROVE  PrioTrue(n)'
BY DEF PriosTrue, PrioTrue, Skip, Desc

\* shm_desc_enqueue writes the priority of the message that it announces.
LEMMA PriosTrueStep ==
  ASSUME DriverInv, DriverInv', PoolInv, PriosTrue, Loaded, Next
  PROVE  PriosTrue'
<1> USE ThreadFacts, ThreadKinds DEF Goto, DriverInv, TypeOK, ThreadTypes
<1>1. ASSUME \A n \in Nodes : HeadTaken(n)' <=> HeadTaken(n),
             ring' = ring, get' = get, count' = count, content' = content
      PROVE  PriosTrue'
  BY <1>1, PrioFrame DEF PriosTrue
<1>2. CASE \E call \in Traffic : StartSend(call)
  BY <1>1, <1>2, CallFacts DEF StartSend, HeadTaken, ringVars
<1>3. ASSUME NEW m \in Nodes, GetLock(m) \/ GetScan(m) \/ GetMark(m)
      PROVE  PriosTrue'
  BY <1>1, <1>3 DEF GetLock, GetScan, GetMark, HeadTaken, ringVars
<1>4. ASSUME NEW m \in Nodes, GetUnlock(m)
      PROVE  PriosTrue'
  <2>1. /\ \A n \in Nodes : HeadTaken(n)' <=> HeadTaken(n)
        /\ ring' = ring /\ get' = get /\ count' = count
    BY <1>4 DEF GetUnlock, Return, HeadTaken, ringVars
  <2>2. CASE content' = content
    BY <1>1, <2>1, <2>2
  <2>3. ASSUME \A b \in Buffers : b # buf[Api(m)] => content'[b] = content[b],
               \A b \in Buffers : Queued(Queues, b) => b # buf[Api(m)]
        PROVE  PriosTrue'
    <3>1. ASSUME NEW n \in Nodes, NEW o \in Skip(n)' .. count'[n] - 1
          PROVE  Desc(n, o)'.prio = content'[Desc(n, o)'.buf].prio
      <4>1. o \in Skip(n) .. count[n] - 1 /\ Desc(n, o)' = Desc(n, o)
        BY <2>1, <3>1 DEF Skip, Desc
      <4>2. content'[Desc(n, o).buf] = content[Desc(n, o).buf]
        BY <2>3, <4>1, VisibleDesc
      <4>3. Desc(n, o).prio = content[Desc(n, o).buf].prio
        BY <4>1 DEF PriosTrue, PrioTrue
      <4>4. QED
        BY <4>1, <4>2, <4>3
    <3>2. QED
      BY <3>1 DEF PriosTrue, PrioTrue
  <2>4. QED
    BY <1>4, <2>2, <2>3, FillContent
<1>5. ASSUME NEW m \in Nodes, EnqLock(m) \/ EnqUnlock(m) \/ Notify(m)
      PROVE  PriosTrue'
  BY <1>1, <1>5 DEF EnqLock, EnqUnlock, Notify, Return, HeadTaken, ringVars
<1>6. ASSUME NEW m \in Nodes, EnqStore(m)
      PROVE  PriosTrue'
  <2>1. PICK d \in Nodes : d = msg[Api(m)].dst
    BY <1>6, MessageFacts DEF EnqStore, CallsSound, CallSound, Sending, Enqueuing
  <2>2. /\ \A n \in Nodes : HeadTaken(n)' <=> HeadTaken(n)
        /\ get' = get /\ count' = count /\ content' = content
    BY <1>6 DEF EnqStore, HeadTaken
  <2>3. CASE RingFull(d)
    BY <1>1, <1>6, <2>1, <2>2, <2>3 DEF EnqStore
  <2>4. CASE ~ RingFull(d)
    <3>1. /\ get[d] \in Slots /\ put[d] \in Slots /\ count[d] \in 0 .. RingSize - 1
          /\ put[d] = (get[d] + count[d]) % RingSize
      <4>1. get[d] \in Slots /\ put[d] \in Slots /\ count[d] \in 0 .. RingSize
        BY DEF RingTypes
      <4>2. count[d] \in 0 .. RingSize - 1
        BY <2>4, <4>1, ShmAssumption DEF RingFull
      <4>3. QED
        BY <4>1, <4>2 DEF RingsSound, RingSound
    <3>2. ring' = [ring EXCEPT ![d][put[d]] =
                     [buf |-> buf[Api(m)], prio |-> msg[Api(m)].prio]]
      BY <1>6, <2>1, <2>4 DEF EnqStore
    <3>3. ASSUME NEW n \in Nodes, n # d
          PROVE  PrioTrue(n)'
      BY <2>2, <3>2, <3>3, PrioFrame DEF RingTypes
    <3>4. ASSUME NEW o \in 0 .. count[d] - 1
          PROVE  Desc(d, o)' = Desc(d, o)
      <4>1. o \in 0 .. RingSize - 1 /\ o # count[d] /\ o \in 0 .. RingSize
        BY <3>1, ShmAssumption
      <4>2. (get[d] + o) % RingSize # put[d] /\ (get[d] + o) % RingSize \in Slots
        BY <3>1, <4>1, SlotInjective, ModWrap
      <4>3. QED
        BY <2>2, <3>1, <3>2, <4>2 DEF Desc, RingTypes
    <3>5. ASSUME NEW o \in Skip(d)' .. count'[d] - 1
          PROVE  Desc(d, o)'.prio = content'[Desc(d, o)'.buf].prio
      <4>1. o \in Skip(d) .. count[d] - 1 /\ Skip(d) \in {0, 1}
        BY <2>2, <3>5 DEF Skip
      <4>2. o \in 0 .. count[d] - 1
        BY <3>1, <4>1
      <4>3. Desc(d, o).prio = content[Desc(d, o).buf].prio
        BY <4>1 DEF PriosTrue, PrioTrue
      <4>4. QED
        BY <2>2, <3>4, <4>2, <4>3
    <3>6. PrioTrue(d)'
      BY <3>5 DEF PrioTrue
    <3>7. QED
      BY <3>3, <3>6 DEF PriosTrue
  <2>5. QED
    BY <2>3, <2>4
<1>7. ASSUME NEW m \in Nodes, EnqCommit(m)
      PROVE  PriosTrue'
  <2>1. PICK d \in Nodes : d = msg[Api(m)].dst
    BY <1>7, CommitQueues
  <2>2. /\ \A n \in Nodes : HeadTaken(n)' <=> HeadTaken(n)
        /\ get' = get /\ ring' = ring /\ content' = content
        /\ \A n \in Nodes : n # d => count'[n] = count[n]
        /\ count'[d] = count[d] + 1 /\ count[d] \in Nat
    BY <1>7, <2>1 DEF EnqCommit, HeadTaken, RingTypes
  <2>3. ASSUME NEW n \in Nodes, n # d
        PROVE  PrioTrue(n)'
    BY <2>2, <2>3, PrioFrame
  <2>4. Desc(d, count[d]) = [buf |-> buf[Api(m)], prio |-> msg[Api(m)].prio]
    <3>1. ring[d][put[d]] = [buf |-> buf[Api(m)], prio |-> msg[Api(m)].prio]
      BY <1>7, <2>1 DEF EnqCommit, CallsSound, CallSound
    <3>2. QED
      BY <3>1 DEF Desc, RingsSound, RingSound
  <2>5. content[buf[Api(m)]] = msg[Api(m)]
    BY <1>7 DEF EnqCommit, Loaded, Enqueuing
  <2>6. ASSUME NEW o \in Skip(d)' .. count'[d] - 1
        PROVE  Desc(d, o)'.prio = content'[Desc(d, o)'.buf].prio
    <3>1. Desc(d, o)' = Desc(d, o)
      BY <2>2 DEF Desc
    <3>2. o \in Skip(d) .. count[d] - 1 \/ o = count[d]
      BY <2>2, <2>6 DEF Skip
    <3>3. CASE o = count[d]
      BY <2>2, <2>4, <2>5, <3>1, <3>3
    <3>4. CASE o \in Skip(d) .. count[d] - 1
      BY <2>2, <3>1, <3>4 DEF PriosTrue, PrioTrue
    <3>5. QED
      BY <3>2, <3>3, <3>4
  <2>7. PrioTrue(d)'
    BY <2>6 DEF PrioTrue
  <2>8. QED
    BY <2>3, <2>7 DEF PriosTrue
<1>8. ASSUME NEW m \in Nodes, Interrupt(m) \/ RxData(m) \/ Receive(m)
      PROVE  PriosTrue'
  BY <1>1, <1>8 DEF Interrupt, RxData, RxLock, RxDeliver, RxDone, Receive, HeadTaken, ringVars
<1>9. ASSUME NEW m \in Nodes, RxWait(m) \/ Poll(m) \/ ConsLock(m) \/ ConsUnlock(m)
      PROVE  PriosTrue'
  <2>1. /\ ring' = ring /\ get' = get /\ count' = count /\ content' = content
        /\ \A n \in Nodes : HeadTaken(n) => HeadTaken(n)'
    BY <1>9 DEF RxWait, Poll, ConsLock, ConsUnlock, ringVars, HeadTaken
  <2>2. ASSUME NEW n \in Nodes, NEW o \in Skip(n)' .. count'[n] - 1
        PROVE  Desc(n, o)'.prio = content'[Desc(n, o)'.buf].prio
    <3>1. o \in Skip(n) .. count[n] - 1 /\ Desc(n, o)' = Desc(n, o)
      BY <2>1, <2>2 DEF Skip, Desc, RingTypes
    <3>2. QED
      BY <2>1, <3>1 DEF PriosTrue, PrioTrue
  <2>3. QED
    BY <2>2 DEF PriosTrue, PrioTrue
<1>10. ASSUME NEW m \in Nodes, ConsUpdate(m)
       PROVE  PriosTrue'
  <2>1. /\ ring' = ring /\ content' = content
        /\ \A n \in Nodes : n # m => /\ get'[n] = get[n] /\ count'[n] = count[n]
                                     /\ (HeadTaken(n)' <=> HeadTaken(n))
        /\ get[m] \in Slots /\ get'[m] = (get[m] + 1) % RingSize
        /\ count[m] \in 0 .. RingSize /\ count'[m] = count[m] - 1
        /\ Skip(m) = 1 /\ Skip(m)' = 0
    BY <1>10 DEF ConsUpdate, RingTypes, HeadTaken, Skip
  <2>2. ASSUME NEW n \in Nodes, n # m
        PROVE  PrioTrue(n)'
    BY <2>1, <2>2, PrioFrame
  <2>3. ASSUME NEW o \in Skip(m)' .. count'[m] - 1
        PROVE  Desc(m, o)'.prio = content'[Desc(m, o)'.buf].prio
    <3>1. o \in 0 .. count[m] - 2
      BY <2>1, <2>3
    <3>2. o \in 0 .. RingSize - 1 /\ o + 1 \in Skip(m) .. count[m] - 1
      BY <2>1, <3>1, ShmAssumption
    <3>3. Desc(m, o)' = Desc(m, o + 1)
      <4>1. (((get[m] + 1) % RingSize) + o) % RingSize = (get[m] + (o + 1)) % RingSize
        BY <2>1, <3>2, SlotShift
      <4>2. QED
        BY <2>1, <4>1 DEF Desc
    <3>4. Desc(m, o + 1).prio = content[Desc(m, o + 1).buf].prio
      BY <3>2 DEF PriosTrue, PrioTrue
    <3>5. QED
      BY <2>1, <3>3, <3>4
  <2>4. PrioTrue(m)'
    BY <2>3 DEF PrioTrue
  <2>5. QED
    BY <2>2, <2>4 DEF PriosTrue
<1>11. ASSUME NEW t \in Threads, Free(t)
       PROVE  PriosTrue'
  <2>1. AfterFree(t) \in {"idle", "rx_drain"}
    BY DEF AfterFree
  <2>2. \A n \in Nodes : HeadTaken(n)' <=> HeadTaken(n)
    BY <1>11, <2>1 DEF Free, FreeLock, FreeClear, FreeUnlock, HeadTaken
  <2>3. QED
    BY <1>1, <1>11, <2>2 DEF Free, FreeLock, FreeClear, FreeUnlock, ringVars
<1>12. QED
  BY <1>2, <1>3, <1>4, <1>5, <1>6, <1>7, <1>8, <1>9, <1>10, <1>11
     DEF Next, GetBuffer, Transmit, PollRing

\* A send is refused by a call that never made its message visible.
LEMMA NewRefusal ==
  ASSUME DriverInv, Next, NEW m \in refused', m \notin refused
  PROVE  \E n \in Nodes : /\ m = msg[Api(n)] /\ Sending(n) /\ Uncommitted(n)
                          /\ ~ Uncommitted(n)' /\ sends' = sends /\ Quiet
<1> USE ThreadFacts, ThreadKinds DEF Goto, DriverInv, TypeOK, ThreadTypes
<1>1. \/ \E n \in Nodes : GetUnlock(n)
      \/ \E t \in Threads : FreeUnlock(t)
  BY HistoryMoves
<1>2. ASSUME NEW n \in Nodes, GetUnlock(n)
      PROVE  /\ m = msg[Api(n)] /\ Sending(n) /\ Uncommitted(n)
             /\ ~ Uncommitted(n)' /\ sends' = sends /\ Quiet
  <2>1. Return(n) /\ m = msg[Api(n)] /\ sends' = sends
    BY <1>2 DEF GetUnlock
  <2>2. pc[Api(n)] = "get_unlock" /\ pc'[Api(n)] = "idle"
    BY <1>2, <2>1 DEF GetUnlock, Return
  <2>3. Quiet
    BY <1>2 DEF Quiet, GetBuffer
  <2>4. QED
    BY <2>1, <2>2, <2>3 DEF Sending, Uncommitted, Getting, Enqueuing, Freeing
<1>3. ASSUME NEW t \in Threads, FreeUnlock(t)
      PROVE  \E n \in Nodes : /\ m = msg[Api(n)] /\ Sending(n) /\ Uncommitted(n)
                              /\ ~ Uncommitted(n)' /\ sends' = sends /\ Quiet
  <2>1. t = Api(Node(t)) /\ m = msg[t] /\ ~ ok[t] /\ sends' = sends /\ Node(t) \in Nodes
    BY <1>3 DEF FreeUnlock
  <2>2. pc[t] = "free_unlock" /\ pc'[t] = "idle"
    BY <1>3, <2>1 DEF FreeUnlock
  <2>3. Quiet
    BY <1>3 DEF Quiet, Free
  <2>4. QED
    BY <2>1, <2>2, <2>3 DEF Sending, Uncommitted, Getting, Enqueuing, Freeing
<1>4. QED
  BY <1>1, <1>2, <1>3

PastInv == \A m \in Messages : Lined(Line, m) \/ m \in refused => Past(m)

\* Nothing is numbered ahead of its sender.
LEMMA PastStep ==
  ASSUME NotifyMayFail = FALSE, DriverInv, DriverInv', HistoryInv, LineFacts, Next
  PROVE  PastInv'
<1> USE DEF DriverInv, TypeOK, HistoryTypes
<1>1. ASSUME NEW n \in Nodes, Sending(n), ~ Uncommitted(n)', sends' = sends,
             NEW m \in Messages, m = msg[Api(n)]
      PROVE  Past(m)'
  <2>1. m.src = n /\ m.seq = sends[n]
    BY <1>1 DEF CallsSound, CallSound, HistoryInv, Stamped
  <2>2. m.seq <= sends'[n]
    BY <1>1, <2>1
  <2>3. QED
    BY <1>1, <2>1, <2>2 DEF Past
<1>2. ASSUME NEW call \in Traffic, StartSend(call)
      PROVE  PastInv'
  <2>1. Line' = Line /\ refused' = refused
    BY <1>2, QueuesAt, QuietQueues DEF StartSend, Quiet, Line
  <2>2. ASSUME NEW m \in Messages, Past(m)
        PROVE  Past(m)'
    <3>1. m.src \in Nodes /\ m.seq \in Nat /\ sends[m.src] \in Nat
      BY MessageFacts
    <3>2. CASE m.src = call.src
      <4>1. sends'[m.src] = sends[m.src] + 1
        BY <1>2, <3>2, NewCall
      <4>2. QED
        BY <2>2, <3>1, <4>1 DEF Past
    <3>3. CASE m.src # call.src
      BY <1>2, <2>2, <3>1, <3>3, NewCall DEF Past
    <3>4. QED
      BY <3>2, <3>3
  <2>3. QED
    BY <2>1, <2>2 DEF PastInv, HistoryInv
<1>3. ASSUME \/ \E k \in Nodes : GetBuffer(k) \/ Transmit(k) \/ Interrupt(k)
                                 \/ PollRing(k) \/ RxData(k) \/ Receive(k)
             \/ \E t \in Threads : Free(t)
      PROVE  PastInv'
  <2>1. \A n \in Nodes : (Uncommitted(n)' => Uncommitted(n)) /\ sends' = sends
    BY <1>3, CallGoesOn
  <2>2. sends' = sends
    BY <2>1, ShmAssumption
  <2>3. ASSUME NEW m \in Messages, Lined(Line', m) \/ m \in refused'
        PROVE  Past(m)'
    <3>1. CASE Lined(Line, m) \/ m \in refused
      <4>1. Past(m)
        BY <3>1 DEF HistoryInv
      <4>2. QED
        BY <2>1, <2>2, <4>1, PastStays
    <3>2. CASE \E n \in Nodes : EnqCommit(n) /\ m = msg[Api(n)]
      <4>1. PICK n \in Nodes : EnqCommit(n) /\ m = msg[Api(n)]
        BY <3>2
      <4>2. Sending(n) /\ ok[Api(n)]
        BY <4>1 DEF EnqCommit, Goto, Sending, Enqueuing, CallsSound, CallSound, Freeing
      <4>3. ~ Uncommitted(n)'
        BY <4>1, <4>2, ThreadFacts
           DEF EnqCommit, Goto, Uncommitted, Getting, Enqueuing, Freeing, ThreadTypes
      <4>4. QED
        BY <1>1, <2>2, <4>1, <4>2, <4>3
    <3>3. CASE m \in refused' /\ m \notin refused
      BY <1>1, <2>2, <3>3, NewRefusal
    <3>4. QED
      BY <2>3, <3>1, <3>2, <3>3 DEF LineFacts
  <2>4. QED
    BY <2>3 DEF PastInv
<1>4. QED
  BY <1>2, <1>3, NextCases

\* A message whose send failed does not come into line afterwards.
LEMMA RefusedStep ==
  ASSUME DriverInv, DriverInv', PoolInv, HistoryInv, LineFacts, Next,
         NEW m \in refused'
  PROVE  ~ Lined(Line', m)
<1>1. ASSUME NEW n \in Nodes, Sending(n), Uncommitted(n), Past(msg[Api(n)])
      PROVE  FALSE
  <2>1. msg[Api(n)].src = n /\ msg[Api(n)].seq = sends[n] /\ sends[n] \in Nat
    BY <1>1 DEF DriverInv, TypeOK, HistoryTypes, CallsSound, CallSound, HistoryInv, Stamped
  <2>2. QED
    BY <1>1, <2>1 DEF Past
<1>2. m \in Messages
  BY DEF DriverInv, TypeOK, HistoryTypes
<1>3. CASE m \in refused
  <2>1. ASSUME NEW n \in Nodes, EnqCommit(n), m = msg[Api(n)]
        PROVE  FALSE
    <3>1. Sending(n) /\ Uncommitted(n)
      BY <2>1 DEF EnqCommit, Goto, Sending, Enqueuing, Uncommitted
    <3>2. Past(m)
      BY <1>2, <1>3 DEF HistoryInv
    <3>3. QED
      BY <1>1, <2>1, <3>1, <3>2
  <2>2. ~ Lined(Line, m)
    BY <1>3 DEF HistoryInv
  <2>3. QED
    BY <2>1, <2>2 DEF LineFacts
<1>4. CASE m \notin refused
  <2>1. PICK n \in Nodes : m = msg[Api(n)] /\ Sending(n) /\ Uncommitted(n) /\ Quiet
    BY <1>4, NewRefusal
  <2>2. Line' = Line
    BY <2>1, QuietLine
  <2>3. ~ Lined(Line, m)
    BY <1>1, <1>2, <2>1 DEF HistoryInv
  <2>4. QED
    BY <2>2, <2>3
<1>5. QED
  BY <1>3, <1>4

\* A message whose send succeeded stays in line unless it is discarded.
LEMMA AcceptedStep ==
  ASSUME DriverInv, HistoryInv, LineFacts, Next, NEW m \in accepted'
  PROVE  Lined(Line', m) \/ m \in discarded'
<1>1. m \in accepted \/ \E n \in Nodes : Notify(n) /\ m = msg[Api(n)]
  <2>1. ASSUME NEW n \in Nodes, Notify(n)
        PROVE  m \in accepted \/ m = msg[Api(n)]
    BY <2>1 DEF Notify
  <2>2. CASE accepted' = accepted
    BY <2>2
  <2>3. accepted' = accepted \/ \E n \in Nodes : Notify(n)
    BY HistoryMoves
  <2>4. QED
    BY <2>1, <2>2, <2>3
<1>2. discarded \subseteq discarded'
  BY HistoryMoves
<1>3. Lined(Line, m) \/ m \in discarded
  <2>1. CASE m \in accepted
    BY <2>1 DEF HistoryInv
  <2>2. CASE \E n \in Nodes : Notify(n) /\ m = msg[Api(n)]
    BY <2>2 DEF Notify, HistoryInv, Committed, Visible
  <2>3. QED
    BY <1>1, <2>1, <2>2
<1>4. QED
  BY <1>2, <1>3 DEF LineFacts

\* Nothing was sent at first.
LEMMA HistoryInit ==
  ASSUME Init
  PROVE  HistoryInv
<1>1. \A n \in Nodes : pc[Api(n)] = "idle" /\ ok[Api(n)] /\ count[n] = 0
                       /\ received[n] = <<>>
  BY ThreadFacts DEF Init, Api
<1>2. Line = [q \in LinePlaces |-> Line[q]]
  BY LineAt, LineIs
<1>3. ASSUME NEW q \in LinePlaces
      PROVE  \A i : i \notin 1 .. Len(Line[q])
  <2>1. CASE q \in Places
    <3>1. PICK n \in Nodes, k \in Stages : q = <<n, k>>
      BY <2>1, QueuesAt
    <3>2. Queue(n, k) = <<>>
      <4>1. ~ HeadTaken(n)
        BY ThreadFacts, ThreadKinds DEF Init, HeadTaken, Rx
      <4>2. DOMAIN Pending(n) = 1 .. 0
        BY <1>1, <4>1 DEF Pending
      <4>3. QED
        BY <4>2 DEF Init, Queue, Stages, Prios
    <3>3. Line[q] = Load(content, <<>>)
      <4>1. Queues[q] = <<>>
        BY <3>1, <3>2, QueuesAt
      <4>2. Line[q] = Load(content, Queues[q])
        BY <2>1, LineAt, LineIs
      <4>3. QED
        BY <4>1, <4>2
    <3>4. Load(content, <<>>) = <<>>
      BY DEF Load
    <3>5. QED
      BY <3>3, <3>4
  <2>2. CASE \E n \in Nodes : q = <<n, "done">>
    <3>1. PICK n \in Nodes : q = <<n, "done">>
      BY <2>2
    <3>2. Line[q] = received[n]
      BY <3>1, LineAt, LineIs
    <3>3. QED
      BY <1>1, <3>2
  <2>3. QED
    BY <2>1, <2>2, LineAt
<1>4. \A q \in LinePlaces : \A m : ~ In(Line[q], m)
  BY <1>3 DEF In
<1>5. InOrder(Line)
  BY <1>3, <1>4, LinePlace DEF InOrder, Placed, Ordered, Sorted
<1>6. \A m : ~ Lined(Line, m)
  BY <1>4 DEF Lined
<1>7. Stamped /\ Loaded /\ Committed
  BY <1>1 DEF Stamped, Loaded, Committed, Sending, Visible, Getting, Enqueuing, Freeing
<1>8. PriosTrue
  BY <1>1 DEF PriosTrue, PrioTrue, Skip
<1>9. refused = {} /\ accepted = {}
  BY DEF Init
<1>10. QED
  BY <1>5, <1>6, <1>7, <1>8, <1>9 DEF HistoryInv

\* Every step keeps the history true.
LEMMA HistoryStep ==
  ASSUME NotifyMayFail = FALSE, DriverInv, DriverInv', PoolInv, HistoryInv, Next
  PROVE  HistoryInv'
<1>1. LineFacts
  BY LineStep
<1>2. InOrder(Line')
  BY <1>1 DEF LineFacts
<1>3. Stamped' /\ Loaded' /\ Committed' /\ PriosTrue'
  BY <1>1, StampedStep, LoadedStep, CommittedStep, PriosTrueStep DEF HistoryInv
<1>4. PastInv'
  BY <1>1, PastStep
<1>5. \A m \in refused' : ~ Lined(Line', m)
  BY <1>1, RefusedStep
<1>6. \A m \in accepted' : Lined(Line', m) \/ m \in discarded'
  BY <1>1, AcceptedStep
<1>7. QED
  BY <1>2, <1>3, <1>4, <1>5, <1>6 DEF HistoryInv, PastInv

\* While notifications do not fail, the messages under way are in the order of
\* their numbers from the sender to the receiver, and the status of each send
\* agrees with what became of its message.
THEOREM HistoryInvariant ==
  ASSUME NotifyMayFail = FALSE
  PROVE  Spec => []HistoryInv
<1>1. Init => HistoryInv
  BY HistoryInit
<1>2. DriverInv /\ DriverInv' /\ PoolInv /\ HistoryInv /\ [Next]_vars => HistoryInv'
  <2>1. ASSUME DriverInv, DriverInv', PoolInv, HistoryInv, Next
        PROVE  HistoryInv'
    BY <2>1, HistoryStep
  <2>2. ASSUME HistoryInv, UNCHANGED vars
        PROVE  HistoryInv'
    <3>1. /\ content' = content /\ ring' = ring /\ get' = get /\ count' = count
          /\ rxQueue' = rxQueue /\ endpQueue' = endpQueue
          /\ pc' = pc /\ buf' = buf /\ msg' = msg /\ ok' = ok
          /\ sends' = sends /\ received' = received
          /\ accepted' = accepted /\ refused' = refused /\ discarded' = discarded
      BY <2>2 DEF vars, ringVars, nodeVars, threadVars, history
    <3>2. Line' = Line
      BY <3>1 DEF Line, Queues, Queue, Pending, HeadTaken
    <3>3. Stamped' /\ Loaded' /\ Committed' /\ PriosTrue'
      BY <2>2, <3>1, <3>2 DEF HistoryInv, Stamped, Loaded, Committed, PriosTrue, PrioTrue,
                              Sending, Visible, Skip, Desc, HeadTaken
    <3>4. PastInv'
      BY <2>2, <3>1, <3>2 DEF HistoryInv, PastInv, Past, Uncommitted
    <3>5. QED
      BY <2>2, <3>1, <3>2, <3>3, <3>4 DEF HistoryInv, PastInv
  <2>3. QED
    BY <2>1, <2>2
<1>3. QED
  BY <1>1, <1>2, DriverInvariant, PoolInvariant, PTL DEF Spec

\* msg_recv hands out the messages of one sender and one priority in the order
\* in which they were sent, none twice: for every number of nodes, buffers and
\* descriptors and every interleaving of the two threads of each node.
THEOREM DeliveryInOrder ==
  ASSUME NotifyMayFail = FALSE
  PROVE  Spec => []FifoPerSender
<1>1. ASSUME DriverInv, HistoryInv
      PROVE  FifoPerSender
  <2>1. ASSUME NEW n \in Nodes, NEW i \in DOMAIN received[n], NEW j \in DOMAIN received[n], i < j
        PROVE  Follows(received[n][i], received[n][j])
    <3>1. received[n] = Line[<<n, "done">>] /\ <<n, "done">> \in LinePlaces
      BY LineAt, LineIs
    <3>2. Sorted(received[n])
      BY <1>1, <3>1 DEF HistoryInv, InOrder
    <3>3. DOMAIN received[n] = 1 .. Len(received[n])
      BY <1>1, LineIsTyped
    <3>4. QED
      BY <2>1, <3>2, <3>3 DEF Sorted
  <2>2. QED
    BY <2>1 DEF FifoPerSender, Follows
<1>2. QED
  BY <1>1, DriverInvariant, HistoryInvariant, PTL

\* Where the messages of the properties are in the lines.
LEMMA LinedSplit ==
  ASSUME DriverInv, NEW m
  PROVE  /\ m \in InTransit <=> \E n \in Nodes, k \in Stages : In(Line[<<n, k>>], m)
         /\ m \in Received <=> \E n \in Nodes : In(Line[<<n, "done">>], m)
         /\ Lined(Line, m) <=> m \in InTransit \/ m \in Received
<1>1. ASSUME NEW n \in Nodes, NEW k \in Stages
      PROVE  m \in Elements(Contents(Queue(n, k))) <=> In(Line[<<n, k>>], m)
  <2>1. Queues[<<n, k>>] = Queue(n, k) /\ <<n, k>> \in Places
    BY QueuesAt
  <2>2. Line[<<n, k>>] = Contents(Queue(n, k))
    BY <2>1, LineAt, LineIs DEF Load, Contents
  <2>3. Line[<<n, k>>] \in Seq(Messages)
    BY LineIsTyped, LinePlace DEF LineTypes
  <2>4. DOMAIN Line[<<n, k>>] = 1 .. Len(Line[<<n, k>>])
    BY <2>3
  <2>5. QED
    BY <2>2, <2>4 DEF Elements, In
<1>2. ASSUME NEW n \in Nodes
      PROVE  m \in Elements(received[n]) <=> In(Line[<<n, "done">>], m)
  <2>1. Line[<<n, "done">>] = received[n]
    BY LineAt, LineIs
  <2>2. DOMAIN received[n] = 1 .. Len(received[n])
    BY LineIsTyped
  <2>3. QED
    BY <2>1, <2>2 DEF Elements, In
<1>3. m \in InTransit <=> \E n \in Nodes, k \in Stages : In(Line[<<n, k>>], m)
  <2> DEFINE T(n, k) == Elements(Contents(Queue(n, k)))
  <2>1. \A n \in Nodes, k \in Stages : m \in T(n, k) <=> In(Line[<<n, k>>], m)
    BY <1>1
  <2>2. InTransit = UNION {T(n, k) : n \in Nodes, k \in Stages}
    BY DEF InTransit
  <2> HIDE DEF T
  <2>3. m \in UNION {T(n, k) : n \in Nodes, k \in Stages}
          <=> \E n \in Nodes, k \in Stages : m \in T(n, k)
    OBVIOUS
  <2>4. m \in InTransit <=> \E n \in Nodes, k \in Stages : m \in T(n, k)
    BY <2>2, <2>3
  <2>5. QED
    BY <2>1, <2>4
<1>4. m \in Received <=> \E n \in Nodes : In(Line[<<n, "done">>], m)
  BY <1>2 DEF Received
<1>5. Lined(Line, m) <=> \E n \in Nodes, k \in Stages \cup {"done"} : In(Line[<<n, k>>], m)
  BY LinePlace DEF Lined
<1>6. QED
  BY <1>3, <1>4, <1>5

\* A successful msg_send is under way, received or was discarded at a node
\* without the endpoint, and never both received and still under way; a failed
\* one is not delivered to anybody.
THEOREM StatusesTrue ==
  ASSUME NotifyMayFail = FALSE
  PROVE  Spec => []StatusTruthful
<1>1. ASSUME DriverInv, HistoryInv
      PROVE  StatusTruthful
  <2>1. accepted \subseteq InTransit \cup Received \cup discarded
    BY <1>1, LinedSplit DEF HistoryInv
  <2>2. refused \cap (InTransit \cup Received) = {}
    BY <1>1, LinedSplit DEF HistoryInv
  <2>3. ASSUME NEW m \in Received, m \in InTransit
        PROVE  FALSE
    <3>1. PICK n \in Nodes : In(Line[<<n, "done">>], m)
      BY <1>1, LinedSplit
    <3>2. PICK r \in Nodes, k \in Stages : In(Line[<<r, k>>], m)
      BY <1>1, <2>3, LinedSplit
    <3>3. m \in Messages
      <4>1. received \in [Nodes -> Seq(Messages)] /\ Line[<<n, "done">>] = received[n]
        BY <1>1, LineIsTyped, LineAt, LineIs
      <4>2. QED
        BY <3>1, <4>1 DEF In
    <3>4. m.dst = n /\ m.dst = r
      BY <1>1, <3>1, <3>2, <3>3 DEF HistoryInv, InOrder, Placed, Fits
    <3>5. Rank("done") > Rank(k)
      BY DEF Rank, Stages
    <3>6. Follows(m, m)
      BY <1>1, <3>1, <3>2, <3>3, <3>4, <3>5 DEF HistoryInv, InOrder, Ordered
    <3>7. QED
      BY <3>3, <3>6, MessageFacts DEF Follows
  <2>4. QED
    BY <2>1, <2>2, <2>3 DEF StatusTruthful
<1>2. QED
  BY <1>1, DriverInvariant, HistoryInvariant, PTL

-----------------------------------------------------------------------------
(* The messages of one priority in a sequence.                             *)

\* A set that has 0 and, with a number less than n, the next one has n.
LEMMA Climb ==
  ASSUME NEW n \in Nat, NEW T, 0 \in T,
         \A i \in 0 .. n : i < n /\ i \in T => i + 1 \in T
  PROVE  n \in T
<1> SUFFICES ASSUME n \notin T
             PROVE  FALSE
  OBVIOUS
<1> DEFINE Rest == {i \in 0 .. n : i \notin T}
<1>1. PICK x \in Rest : \A y \in Rest : x <= y
  <2>1. Rest \in SUBSET Nat /\ Rest # {}
    OBVIOUS
  <2>2. QED
    BY <2>1, LeastExists
<1>2. x - 1 \in 0 .. n /\ x - 1 < n /\ x - 1 < x /\ (x - 1) + 1 = x
  BY <1>1
<1>3. x - 1 \in T
  BY <1>1, <1>2
<1>4. QED
  BY <1>1, <1>2, <1>3

\* k[i] has the messages of priority p among the first i of s.
Sifts(k, s, p, n) ==
  k = [i \in 0 .. n |-> IF i = 0 THEN <<>>
                        ELSE IF s[i].prio = p THEN Append(k[i - 1], s[i]) ELSE k[i - 1]]

\* There is such a function, for any length.
LEMMA SiftExists ==
  ASSUME NEW s, NEW p, NEW n \in Nat
  PROVE  \E k : Sifts(k, s, p, n)
<1> DEFINE T == {i \in 0 .. n : \E k : Sifts(k, s, p, i)}
<1>1. 0 \in T
  <2>1. Sifts([i \in 0 .. 0 |-> <<>>], s, p, 0)
    BY DEF Sifts
  <2>2. QED
    BY <2>1
<1>2. ASSUME NEW i \in 0 .. n, i < n, i \in T
      PROVE  i + 1 \in T
  <2>1. PICK k : Sifts(k, s, p, i)
    BY <1>2
  <2> DEFINE new == IF s[i + 1].prio = p THEN Append(k[i], s[i + 1]) ELSE k[i]
             l == [j \in 0 .. (i + 1) |-> IF j = i + 1 THEN new ELSE k[j]]
             At(f, j) == IF j = 0 THEN <<>>
                         ELSE IF s[j].prio = p THEN Append(f[j - 1], s[j]) ELSE f[j - 1]
  <2>2. ASSUME NEW j \in 0 .. (i + 1)
        PROVE  l[j] = At(l, j)
    <3>1. CASE j = i + 1
      BY <3>1
    <3>2. CASE j # i + 1
      <4>1. j \in 0 .. i /\ (j # 0 => j - 1 \in 0 .. i)
        BY <3>2
      <4>2. k[j] = At(k, j)
        BY <2>1, <4>1 DEF Sifts
      <4> HIDE DEF new
      <4>3. l[j] = k[j] /\ (j # 0 => l[j - 1] = k[j - 1])
        BY <4>1
      <4> HIDE DEF l
      <4>4. QED
        BY <4>2, <4>3
    <3>3. QED
      BY <3>1, <3>2
  <2> HIDE DEF new
  <2>3. l = [j \in 0 .. (i + 1) |-> l[j]]
    OBVIOUS
  <2> HIDE DEF l
  <2>4. l = [j \in 0 .. (i + 1) |-> At(l, j)]
    BY <2>2, <2>3
  <2>5. Sifts(l, s, p, i + 1)
    BY <2>4 DEF Sifts
  <2>6. i + 1 \in 0 .. n
    BY <1>2
  <2>7. QED
    BY <2>5, <2>6
<1>3. n \in T
  <2> HIDE DEF T
  <2>1. QED
    BY <1>1, <1>2, Climb
<1>4. QED
  BY <1>3

\* One message after the other, those of priority p are collected.
Collects(k, s, p) ==
  /\ k[0] = <<>>
  /\ \A i \in 1 .. Len(s) : /\ s[i].prio = p => k[i] = Append(k[i - 1], s[i])
                            /\ s[i].prio # p => k[i] = k[i - 1]
  /\ \A i \in 0 .. Len(s) : k[i] \in Seq(Messages)

\* OfPriority is what has been collected in the end.
LEMMA OfPriorityIs ==
  ASSUME NEW s \in Seq(Messages), NEW p
  PROVE  \E k : Collects(k, s, p) /\ OfPriority(s, p) = k[Len(s)]
<1>1. PICK n \in Nat : n = Len(s)
  OBVIOUS
<1>2. PICK k : k = CHOOSE f : Sifts(f, s, p, n)
  OBVIOUS
<1>3. Sifts(k, s, p, n)
  BY <1>2, SiftExists
<1>4. OfPriority(s, p) = k[n]
  BY <1>1, <1>2 DEF OfPriority, Sifts
<1>5. /\ k[0] = <<>>
      /\ \A i \in 1 .. n : /\ s[i].prio = p => k[i] = Append(k[i - 1], s[i])
                           /\ s[i].prio # p => k[i] = k[i - 1]
  <2>1. 0 \in 0 .. n /\ \A i \in 1 .. n : i \in 0 .. n /\ i # 0
    OBVIOUS
  <2>2. QED
    BY <1>3, <2>1 DEF Sifts
<1>6. ASSUME NEW j \in 0 .. n
      PROVE  k[j] \in Seq(Messages)
  <2> DEFINE T == {i \in 0 .. n : k[i] \in Seq(Messages)}
  <2>1. 0 \in T
    <3>1. 0 \in 0 .. n /\ k[0] \in Seq(Messages)
      BY <1>5, EmptySeq
    <3>2. QED
      BY <3>1
  <2>2. ASSUME NEW i \in 0 .. n, i < n, i \in T
        PROVE  i + 1 \in T
    <3>1. i + 1 \in 1 .. n /\ s[i + 1] \in Messages /\ (i + 1) - 1 = i /\ i + 1 \in 0 .. n
      BY <1>1, <2>2
    <3>2. k[i + 1] = k[i] \/ k[i + 1] = Append(k[i], s[i + 1])
      BY <1>5, <3>1
    <3>3. PICK x \in Seq(Messages), y \in Messages : x = k[i] /\ y = s[i + 1]
      BY <2>2, <3>1
    <3>4. Append(x, y) \in Seq(Messages)
      BY AppendProperties2
    <3>5. k[i + 1] \in Seq(Messages)
      BY <3>2, <3>3, <3>4
    <3>6. QED
      BY <3>1, <3>5
  <2> HIDE DEF T
  <2>3. \A i \in 0 .. j : i < j /\ i \in T => i + 1 \in T
    BY <2>2
  <2>4. j \in T
    BY <2>1, <2>3, Climb
  <2>5. QED
    BY <2>4 DEF T
<1>7. QED
  BY <1>1, <1>4, <1>5, <1>6 DEF Collects

\* Appending to the second of two sequences is appending to both.
LEMMA AppendBehind ==
  ASSUME NEW s \in Seq(Messages), NEW t \in Seq(Messages), NEW m \in Messages
  PROVE  /\ Append(s \o t, m) = s \o Append(t, m)
         /\ Append(s, m) \o t = s \o (<<m>> \o t)
<1>1. <<m>> \in Seq(Messages) /\ s \o t \in Seq(Messages)
  BY ConcatProperties
<1>2. Append(s \o t, m) = (s \o t) \o <<m>> /\ Append(t, m) = t \o <<m>>
      /\ Append(s, m) = s \o <<m>>
  BY <1>1, AppendIsConcat
<1>3. (s \o t) \o <<m>> = s \o (t \o <<m>>) /\ (s \o <<m>>) \o t = s \o (<<m>> \o t)
  BY <1>1, ConcatAssociative
<1>4. QED
  BY <1>2, <1>3

\* Two ways of collecting that agree where they start agree as far as both go.
LEMMA CollectsSame ==
  ASSUME NEW s \in Seq(Messages), NEW u \in Seq(Messages), NEW p, NEW k, NEW l,
         Collects(k, s, p), Collects(l, u, p),
         NEW n \in Nat, n <= Len(s), n <= Len(u), \A i \in 1 .. n : s[i] = u[i]
  PROVE  k[n] = l[n]
<1> DEFINE T == {i \in 0 .. n : k[i] = l[i]}
<1>1. 0 \in T
  BY DEF Collects
<1>2. ASSUME NEW i \in 0 .. n, i < n, i \in T
      PROVE  i + 1 \in T
  <2>1. /\ i + 1 \in 1 .. n /\ (i + 1) - 1 = i
        /\ i + 1 \in 1 .. Len(s) /\ i + 1 \in 1 .. Len(u)
    BY <1>2
  <2>2. s[i + 1] = u[i + 1] /\ k[i] = l[i]
    BY <1>2, <2>1
  <2>3. k[i + 1] = l[i + 1]
    BY <2>1, <2>2 DEF Collects
  <2>4. i + 1 \in 0 .. n
    BY <1>2
  <2>5. QED
    BY <2>3, <2>4
<1>3. n \in T
  <2> HIDE DEF T
  <2>1. QED
    BY <1>1, <1>2, Climb
<1>4. QED
  BY <1>3

\* What OfPriority returns is a sequence of messages; of nothing it is nothing.
LEMMA OfPriorityType ==
  ASSUME NEW s \in Seq(Messages), NEW p
  PROVE  OfPriority(s, p) \in Seq(Messages) /\ OfPriority(<<>>, p) = <<>>
<1>1. OfPriority(s, p) \in Seq(Messages)
  <2>1. Len(s) \in 0 .. Len(s)
    OBVIOUS
  <2>2. QED
    BY <2>1, OfPriorityIs DEF Collects
<1>2. OfPriority(<<>>, p) = <<>>
  <2>1. PICK e \in Seq(Messages) : e = <<>> /\ Len(e) = 0
    BY EmptySeq
  <2>2. PICK k : Collects(k, e, p) /\ OfPriority(e, p) = k[Len(e)]
    BY OfPriorityIs
  <2>3. QED
    BY <2>1, <2>2 DEF Collects
<1>3. QED
  BY <1>1, <1>2

\* A message of the priority that joins the sequence joins what is picked.
LEMMA OfPriorityAppend ==
  ASSUME NEW s \in Seq(Messages), NEW m \in Messages, NEW p
  PROVE  OfPriority(Append(s, m), p) = IF m.prio = p THEN Append(OfPriority(s, p), m)
                                       ELSE OfPriority(s, p)
<1>1. PICK u \in Seq(Messages) : u = Append(s, m)
  BY AppendProperties2
<1>2. PICK n \in Nat : n = Len(s) /\ Len(u) = n + 1 /\ u[n + 1] = m
                       /\ \A i \in 1 .. n : u[i] = s[i]
  BY <1>1, AppendProperties2
<1>3. PICK k : Collects(k, s, p) /\ OfPriority(s, p) = k[n]
  BY <1>2, OfPriorityIs
<1>4. PICK l : Collects(l, u, p) /\ OfPriority(u, p) = l[n + 1]
  BY <1>2, OfPriorityIs
<1>5. k[n] = l[n]
  BY <1>2, <1>3, <1>4, CollectsSame
<1>6. n + 1 \in 1 .. Len(u) /\ (n + 1) - 1 = n
  BY <1>2
<1>7. /\ m.prio = p => l[n + 1] = Append(l[n], m)
      /\ m.prio # p => l[n + 1] = l[n]
  BY <1>2, <1>4, <1>6 DEF Collects
<1>8. QED
  BY <1>1, <1>3, <1>4, <1>5, <1>7

\* The head of the sequence is the head of what is picked, or not in it.
LEMMA OfPriorityTail ==
  ASSUME NEW s \in Seq(Messages), s # <<>>, NEW p
  PROVE  OfPriority(s, p) = IF Head(s).prio = p THEN <<Head(s)>> \o OfPriority(Tail(s), p)
                            ELSE OfPriority(Tail(s), p)
<1>1. PICK u \in Seq(Messages), h \in Messages : u = Tail(s) /\ h = Head(s)
  BY TailProperties2
<1>2. PICK n \in Nat : /\ n = Len(u) /\ Len(s) = n + 1 /\ s[1] = h
                       /\ \A i \in 1 .. n : u[i] = s[i + 1]
  BY <1>1, TailProperties2
<1>3. PICK k : Collects(k, s, p) /\ OfPriority(s, p) = k[n + 1]
  BY <1>2, OfPriorityIs
<1>4. PICK l : Collects(l, u, p) /\ OfPriority(u, p) = l[n]
  BY <1>2, OfPriorityIs
<1>5. PICK first \in Seq(Messages) : first = IF h.prio = p THEN <<h>> ELSE <<>>
  <2>1. <<h>> \in Seq(Messages) /\ <<>> \in Seq(Messages)
    OBVIOUS
  <2>2. QED
    BY <2>1
<1> DEFINE T == {i \in 0 .. n : k[i + 1] = first \o l[i]}
<1>6. 0 \in T
  <2>1. 1 \in 1 .. Len(s) /\ k[1 - 1] = <<>> /\ l[0] = <<>> /\ 1 - 1 = 0 /\ 0 + 1 = 1
    BY <1>2, <1>3, <1>4 DEF Collects
  <2>2. /\ h.prio = p => k[1] = Append(<<>>, h)
        /\ h.prio # p => k[1] = <<>>
    BY <1>2, <1>3, <2>1 DEF Collects
  <2>3. Append(<<>>, h) = <<h>> /\ first \o <<>> = first
    BY ConcatEmptySeq
  <2>4. k[0 + 1] = first \o l[0]
    BY <1>5, <2>1, <2>2, <2>3
  <2>5. QED
    BY <2>4
<1>7. ASSUME NEW i \in 0 .. n, i < n, i \in T
      PROVE  i + 1 \in T
  <2>1. /\ i + 1 \in 1 .. Len(u) /\ (i + 1) - 1 = i
        /\ (i + 1) + 1 \in 1 .. Len(s) /\ ((i + 1) + 1) - 1 = i + 1
        /\ i \in 0 .. Len(u) /\ i + 1 \in 0 .. n
    BY <1>2, <1>7
  <2>2. PICK m \in Messages : m = u[i + 1] /\ m = s[(i + 1) + 1]
    BY <1>2, <2>1
  <2>3. k[i + 1] = first \o l[i] /\ l[i] \in Seq(Messages)
    BY <1>4, <1>7, <2>1 DEF Collects
  <2>4. CASE m.prio = p
    <3>1. k[(i + 1) + 1] = Append(k[i + 1], m) /\ l[i + 1] = Append(l[i], m)
      BY <1>3, <1>4, <2>1, <2>2, <2>4 DEF Collects
    <3>2. Append(first \o l[i], m) = first \o Append(l[i], m)
      BY <2>3, AppendBehind
    <3>3. QED
      BY <2>1, <2>3, <3>1, <3>2
  <2>5. CASE m.prio # p
    <3>1. k[(i + 1) + 1] = k[i + 1] /\ l[i + 1] = l[i]
      BY <1>3, <1>4, <2>1, <2>2, <2>5 DEF Collects
    <3>2. QED
      BY <2>1, <2>3, <3>1
  <2>6. QED
    BY <2>4, <2>5
<1>8. k[n + 1] = first \o l[n]
  <2>1. n \in T
    <3> HIDE DEF T
    <3>1. QED
      BY <1>6, <1>7, Climb
  <2>2. QED
    BY <2>1
<1>9. <<>> \o l[n] = l[n]
  BY <1>1, <1>4, OfPriorityType, ConcatEmptySeq
<1>10. QED
  BY <1>1, <1>3, <1>4, <1>5, <1>8, <1>9

\* What is picked are the messages of the priority.
LEMMA OfPriorityIn ==
  ASSUME NEW s \in Seq(Messages), NEW p, NEW m
  PROVE  In(OfPriority(s, p), m) <=> In(s, m) /\ m.prio = p
<1>1. PICK n \in Nat : n = Len(s)
  OBVIOUS
<1>2. PICK k : Collects(k, s, p) /\ OfPriority(s, p) = k[n]
  BY <1>1, OfPriorityIs
<1> DEFINE Seen(i) == \E j \in 1 .. i : s[j] = m
           T == {i \in 0 .. n : In(k[i], m) <=> Seen(i) /\ m.prio = p}
<1>3. 0 \in T
  BY <1>2 DEF Collects, In
<1>4. ASSUME NEW i \in 0 .. n, i < n, i \in T
      PROVE  i + 1 \in T
  <2>1. /\ i + 1 \in 1 .. Len(s) /\ (i + 1) - 1 = i /\ i \in 0 .. Len(s)
        /\ i + 1 \in 0 .. n /\ \A j \in 1 .. i + 1 : j \in 1 .. i \/ j = i + 1
        /\ \A j \in 1 .. i : j \in 1 .. i + 1
    BY <1>1, <1>4
  <2>2. PICK x \in Messages : x = s[i + 1]
    BY <2>1
  <2>3. Seen(i + 1) <=> Seen(i) \/ m = x
    BY <2>1, <2>2
  <2>4. In(k[i], m) <=> Seen(i) /\ m.prio = p
    BY <1>4
  <2>5. k[i] \in Seq(Messages)
    BY <1>2, <2>1 DEF Collects
  <2> HIDE DEF Seen
  <2>6. CASE x.prio = p
    <3>1. k[i + 1] = Append(k[i], x)
      BY <1>2, <2>1, <2>2, <2>6 DEF Collects
    <3>2. In(k[i + 1], m) <=> In(k[i], m) \/ m = x
      BY <2>5, <3>1, InAppend
    <3>3. QED
      BY <2>1, <2>3, <2>4, <2>6, <3>2
  <2>7. CASE x.prio # p
    <3>1. k[i + 1] = k[i]
      BY <1>2, <2>1, <2>2, <2>7 DEF Collects
    <3>2. QED
      BY <2>1, <2>3, <2>4, <2>7, <3>1
  <2>8. QED
    BY <2>6, <2>7
<1>5. n \in T
  <2> HIDE DEF T
  <2>1. QED
    BY <1>3, <1>4, Climb
<1>6. QED
  BY <1>1, <1>2, <1>5 DEF In
-----------------------------------------------------------------------------
(* The transport as a function of the lines of messages.                   *)

NetOf(L) == [n \in Nodes |-> [p \in Prios |->
              L[<<n, PrioStage(p)>>] \o OfPriority(L[<<n, "ring">>], p)]]
InboxOf(L) == [n \in Nodes |-> L[<<n, "endp">>]]

\* What the driver is mapped to.
Net     == [n \in Nodes |-> [p \in Prios |-> OnTheWay(n, p)]]
Inboxes == [n \in Nodes |-> Inbox(n)]
Mapped  == Net = NetOf(Line) /\ Inboxes = InboxOf(Line)

\* The queues of the transport are the driver's lines.
LEMMA MappedNow == DriverInv => Mapped
<1> SUFFICES ASSUME DriverInv
             PROVE  Mapped
  OBVIOUS
<1>1. ASSUME NEW n \in Nodes, NEW k \in Stages
      PROVE  Contents(Queue(n, k)) = Line[<<n, k>>]
  <2>1. Queues[<<n, k>>] = Queue(n, k) /\ <<n, k>> \in Places
    BY QueuesAt
  <2>2. PICK q \in Places : q = <<n, k>>
    BY <2>1
  <2>3. Line[q] = Load(content, Queues[q])
    BY LineAt, LineIs
  <2>4. QED
    BY <2>1, <2>2, <2>3 DEF Load, Contents
<1>2. ASSUME NEW n \in Nodes, NEW p \in Prios
      PROVE  OnTheWay(n, p) = Line[<<n, PrioStage(p)>>] \o OfPriority(Line[<<n, "ring">>], p)
  <2>1. PICK k \in Stages : k = PrioStage(p) /\ Queue(n, k) = rxQueue[n][p]
    BY OtherQueues DEF PrioStage, Prios, Stages
  <2>2. Contents(rxQueue[n][p]) = Line[<<n, k>>]
        /\ Contents(Queue(n, "ring")) = Line[<<n, "ring">>]
    BY <1>1, <2>1 DEF Stages
  <2>3. QED
    BY <2>1, <2>2 DEF OnTheWay
<1>3. ASSUME NEW n \in Nodes
      PROVE  Inbox(n) = Line[<<n, "endp">>]
  BY <1>1, OtherQueues DEF Inbox, Stages
<1>4. QED
  BY <1>2, <1>3 DEF Mapped, Net, NetOf, Inboxes, InboxOf

\* After a step too.
LEMMA MappedNext == DriverInv' => Mapped'
BY MappedNow, PTL

\* Where the transport's queues are among the lines.
LEMMA MappedPlaces ==
  /\ \A n \in Nodes, p \in Prios : /\ PrioStage(p) \in Stages /\ PrioStage(p) # "ring"
                                   /\ PrioStage(p) # "endp"
                                   /\ <<n, PrioStage(p)>> \in LinePlaces
  /\ \A n \in Nodes : <<n, "ring">> \in LinePlaces /\ <<n, "endp">> \in LinePlaces
                      /\ <<n, "done">> \in LinePlaces
  /\ \A p, q \in Prios : PrioStage(p) = PrioStage(q) => p = q
BY DEF PrioStage, Prios, Stages, LinePlaces

\* A line longer or shorter by one, and the others.
LEMMA AddedAt ==
  ASSUME NEW L, LineTypes(L), NEW q \in LinePlaces, NEW m
  PROVE  /\ Added(L, q, m)[q] = Append(L[q], m)
         /\ \A r \in LinePlaces : r # q => Added(L, q, m)[r] = L[r]
         /\ L[q] # <<>> => Dropped(L, q)[q] = Tail(L[q])
         /\ \A r \in LinePlaces : r # q => Dropped(L, q)[r] = L[r]
BY DEF Added, Dropped, LineTypes

Grid(F) == F = [n \in Nodes |-> [p \in Prios |-> F[n][p]]]

\* A table with one entry replaced.
LEMMA GridUpdate ==
  ASSUME NEW F, NEW G, NEW d \in Nodes, NEW o \in Prios, NEW x, Grid(F), Grid(G),
         G[d][o] = x, \A n \in Nodes, p \in Prios : n # d \/ p # o => G[n][p] = F[n][p]
  PROVE  G = [F EXCEPT ![d][o] = x]
<1> DEFINE E == [F EXCEPT ![d][o] = x]
<1>1. ASSUME NEW n \in Nodes
      PROVE  G[n] = E[n]
  <2>1. G[n] = [p \in Prios |-> G[n][p]] /\ F[n] = [p \in Prios |-> F[n][p]]
        /\ DOMAIN F = Nodes
    BY DEF Grid
  <2>2. CASE n = d
    <3>1. E[n] = [F[n] EXCEPT ![o] = x]
      BY <2>1, <2>2
    <3>2. \A p \in Prios : G[n][p] = [F[n] EXCEPT ![o] = x][p]
      BY <2>1, <2>2
    <3>3. QED
      BY <2>1, <3>1, <3>2
  <2>3. CASE n # d
    BY <2>1, <2>3
  <2>4. QED
    BY <2>2, <2>3
<1>2. G = [n \in Nodes |-> G[n]] /\ E = [n \in Nodes |-> E[n]]
  BY DEF Grid
<1>3. QED
  BY <1>1, <1>2

\* The transport's queues are such a table.
LEMMA NetUpdate ==
  ASSUME NEW L, NEW M, NEW d \in Nodes, NEW o \in Prios, NEW x, NetOf(M)[d][o] = x,
         \A n \in Nodes, p \in Prios : n # d \/ p # o => NetOf(M)[n][p] = NetOf(L)[n][p]
  PROVE  NetOf(M) = [NetOf(L) EXCEPT ![d][o] = x]
<1>1. Grid(NetOf(L)) /\ Grid(NetOf(M))
  BY DEF NetOf, Grid
<1>2. QED
  BY <1>1, GridUpdate

\* What becomes visible in a ring joins the queue of its priority.
LEMMA NetAccepts ==
  ASSUME NEW L, LineTypes(L), NEW m \in Messages
  PROVE  LET M == Added(L, <<m.dst, "ring">>, m) IN
         /\ NetOf(M) = [NetOf(L) EXCEPT ![m.dst][m.prio] = Append(NetOf(L)[m.dst][m.prio], m)]
         /\ InboxOf(M) = InboxOf(L)
<1>1. PICK d \in Nodes, o \in Prios : d = m.dst /\ o = m.prio
  BY MessageFacts
<1>2. PICK M : M = Added(L, <<d, "ring">>, m)
  OBVIOUS
<1>3. /\ M[<<d, "ring">>] = Append(L[<<d, "ring">>], m)
      /\ \A r \in LinePlaces : r # <<d, "ring">> => M[r] = L[r]
  <2>1. PICK q \in LinePlaces : q = <<d, "ring">>
    BY MappedPlaces
  <2>2. M = Added(L, q, m)
    BY <1>2, <2>1
  <2>3. M[q] = Append(L[q], m) /\ \A r \in LinePlaces : r # q => M[r] = L[r]
    BY <2>2, AddedAt
  <2>4. QED
    BY <2>1, <2>3
<1>4. ASSUME NEW n \in Nodes, NEW p \in Prios
      PROVE  NetOf(M)[n][p] = IF n = d /\ p = o THEN Append(NetOf(L)[n][p], m)
                              ELSE NetOf(L)[n][p]
  <2>1. M[<<n, PrioStage(p)>>] = L[<<n, PrioStage(p)>>]
    BY <1>3, MappedPlaces
  <2>2. PICK s \in Seq(Messages), t \in Seq(Messages) :
          s = L[<<n, PrioStage(p)>>] /\ t = L[<<n, "ring">>]
    BY MappedPlaces DEF LineTypes
  <2>3. NetOf(L)[n][p] = s \o OfPriority(t, p)
    BY <2>2 DEF NetOf
  <2>4. NetOf(M)[n][p] = s \o OfPriority(M[<<n, "ring">>], p)
    BY <2>1, <2>2 DEF NetOf
  <2>5. CASE n = d
    <3>1. M[<<n, "ring">>] = Append(t, m)
      BY <1>3, <2>2, <2>5
    <3>2. OfPriority(Append(t, m), p) = IF o = p THEN Append(OfPriority(t, p), m)
                                        ELSE OfPriority(t, p)
      BY <1>1, OfPriorityAppend
    <3>3. Append(s \o OfPriority(t, p), m) = s \o Append(OfPriority(t, p), m)
      <4>1. PICK u \in Seq(Messages) : u = OfPriority(t, p)
        BY OfPriorityType
      <4>2. Append(s \o u, m) = s \o Append(u, m)
        BY AppendBehind
      <4>3. QED
        BY <4>1, <4>2
    <3>4. QED
      BY <2>3, <2>4, <2>5, <3>1, <3>2, <3>3
  <2>6. CASE n # d
    <3>1. M[<<n, "ring">>] = t
      BY <1>3, <2>2, <2>6, MappedPlaces
    <3>2. QED
      BY <2>3, <2>4, <2>6, <3>1
  <2>7. QED
    BY <2>5, <2>6
<1>5. ASSUME NEW n \in Nodes
      PROVE  InboxOf(M)[n] = InboxOf(L)[n]
  BY <1>3, MappedPlaces DEF InboxOf
<1>6. NetOf(M) = [NetOf(L) EXCEPT ![d][o] = Append(NetOf(L)[d][o], m)]
  <2>1. PICK x : x = Append(NetOf(L)[d][o], m)
    OBVIOUS
  <2>2. NetOf(M)[d][o] = x
        /\ \A n \in Nodes, p \in Prios : n # d \/ p # o => NetOf(M)[n][p] = NetOf(L)[n][p]
    BY <1>4, <2>1
  <2>3. NetOf(M) = [NetOf(L) EXCEPT ![d][o] = x]
    BY <2>2, NetUpdate
  <2>4. QED
    BY <2>1, <2>3
<1>7. InboxOf(M) = InboxOf(L)
  BY <1>5 DEF InboxOf
<1>8. QED
  BY <1>1, <1>2, <1>6, <1>7

\* The way from the ring to the receive queue is not seen from outside.
LEMMA NetKeeps ==
  ASSUME NEW L, LineTypes(L), NEW n \in Nodes, L[<<n, "ring">>] # <<>>,
         NEW p \in Prios, p = Head(L[<<n, "ring">>]).prio
  PROVE  LET M == Added(Dropped(L, <<n, "ring">>), <<n, PrioStage(p)>>, Head(L[<<n, "ring">>])) IN
         NetOf(M) = NetOf(L) /\ InboxOf(M) = InboxOf(L)
<1> DEFINE r == <<n, "ring">>
           q == <<n, PrioStage(p)>>
<1>1. r \in LinePlaces /\ q \in LinePlaces /\ r # q
  BY MappedPlaces
<1>2. PICK h \in Messages, t \in Seq(Messages) :
        h = Head(L[r]) /\ t = Tail(L[r]) /\ L[r] \in Seq(Messages)
  BY <1>1, TailProperties2 DEF LineTypes
<1>3. PICK D : D = Dropped(L, r)
  OBVIOUS
<1>4. PICK M : M = Added(D, q, h)
  OBVIOUS
<1>5. LineTypes(D) /\ D[r] = t /\ \A u \in LinePlaces : u # r => D[u] = L[u]
  <2>1. D[r] = t /\ \A u \in LinePlaces : u # r => D[u] = L[u]
    BY <1>1, <1>2, <1>3, AddedAt
  <2>2. D = [u \in LinePlaces |-> D[u]]
    BY <1>3 DEF Dropped, LineTypes
  <2>3. \A u \in LinePlaces : D[u] \in Seq(Messages)
    BY <1>2, <2>1 DEF LineTypes
  <2>4. QED
    BY <2>1, <2>2, <2>3 DEF LineTypes
<1>6. M[q] = Append(L[q], h) /\ M[r] = t
      /\ \A u \in LinePlaces : u # r /\ u # q => M[u] = L[u]
  <2>1. M[q] = Append(D[q], h) /\ \A u \in LinePlaces : u # q => M[u] = D[u]
    BY <1>1, <1>4, <1>5 DEF Added, LineTypes
  <2>2. QED
    BY <1>1, <1>5, <2>1
<1>7. ASSUME NEW k \in Nodes, NEW o \in Prios
      PROVE  NetOf(M)[k][o] = NetOf(L)[k][o]
  <2>1. PICK s \in Seq(Messages) : s = L[<<k, PrioStage(o)>>]
    BY MappedPlaces DEF LineTypes
  <2>2. /\ NetOf(L)[k][o] = s \o OfPriority(L[<<k, "ring">>], o)
        /\ NetOf(M)[k][o] = M[<<k, PrioStage(o)>>] \o OfPriority(M[<<k, "ring">>], o)
    BY <2>1 DEF NetOf
  <2>3. CASE k # n
    BY <1>6, <2>1, <2>2, <2>3, MappedPlaces
  <2>4. CASE k = n
    <3>1. OfPriority(L[r], o) = IF p = o THEN <<h>> \o OfPriority(t, o) ELSE OfPriority(t, o)
      BY <1>2, OfPriorityTail
    <3>2. CASE o = p
      <4>1. Append(s, h) \o OfPriority(t, o) = s \o (<<h>> \o OfPriority(t, o))
        BY OfPriorityType, AppendBehind
      <4>2. QED
        BY <1>6, <2>1, <2>2, <2>4, <3>1, <3>2, <4>1
    <3>3. CASE o # p
      <4>1. <<k, PrioStage(o)>> # r /\ <<k, PrioStage(o)>> # q
        BY <3>3, MappedPlaces
      <4>2. QED
        BY <1>6, <2>1, <2>2, <2>4, <3>1, <3>3, <4>1, MappedPlaces
    <3>4. QED
      BY <3>2, <3>3
  <2>5. QED
    BY <2>3, <2>4
<1>8. ASSUME NEW k \in Nodes
      PROVE  InboxOf(M)[k] = InboxOf(L)[k]
  BY <1>6, MappedPlaces DEF InboxOf
<1>9. QED
  BY <1>2, <1>3, <1>4, <1>7, <1>8 DEF NetOf, InboxOf

\* The head of a receive queue is the head of a queue of the transport.
LEMMA NetHandsOver ==
  ASSUME NEW L, LineTypes(L), NEW n \in Nodes, NEW p \in Prios,
         L[<<n, PrioStage(p)>>] # <<>>
  PROVE  LET D == Dropped(L, <<n, PrioStage(p)>>)
             h == Head(L[<<n, PrioStage(p)>>])
             M == Added(D, <<n, "endp">>, h) IN
         /\ NetOf(L)[n][p] # <<>> /\ h = Head(NetOf(L)[n][p])
         /\ NetOf(D) = [NetOf(L) EXCEPT ![n][p] = Tail(NetOf(L)[n][p])]
         /\ NetOf(M) = NetOf(D)
         /\ InboxOf(D) = InboxOf(L)
         /\ InboxOf(M) = [InboxOf(L) EXCEPT ![n] = Append(InboxOf(L)[n], h)]
<1> DEFINE q == <<n, PrioStage(p)>>
           e == <<n, "endp">>
<1>1. q \in LinePlaces /\ e \in LinePlaces /\ q # e
  BY MappedPlaces
<1>2. PICK D : D = Dropped(L, q)
  OBVIOUS
<1>3. PICK h : h = Head(L[q])
  OBVIOUS
<1>4. PICK M : M = Added(D, e, h)
  OBVIOUS
<1>5. PICK s \in Seq(Messages), t \in Seq(Messages) :
        s = L[q] /\ t = OfPriority(L[<<n, "ring">>], p) /\ s # <<>>
  BY <1>1, MappedPlaces, OfPriorityType DEF LineTypes
<1>6. Tail(s) \in Seq(Messages) /\ h \in Messages
  BY <1>5, <1>3, TailProperties2
<1>7. D[q] = Tail(s) /\ \A u \in LinePlaces : u # q => D[u] = L[u]
  BY <1>1, <1>5, <1>2, AddedAt
<1>8. M[e] = Append(L[e], h) /\ \A u \in LinePlaces : u # e => M[u] = D[u]
  <2>1. M = [D EXCEPT ![e] = Append(D[e], h)]
    BY <1>4 DEF Added
  <2>2. DOMAIN D = LinePlaces
    BY <1>2 DEF Dropped, LineTypes
  <2>3. QED
    BY <1>1, <1>7, <2>1, <2>2
<1>9. NetOf(L)[n][p] = s \o t
  BY <1>5 DEF NetOf
<1>10. s \o t # <<>> /\ Head(s \o t) = h /\ Tail(s \o t) = Tail(s) \o t
  <2>1. s = <<h>> \o Tail(s)
    <3>1. PICK u \in Seq(Messages), one \in Seq(Messages) : u = Tail(s) /\ one = <<h>>
      <4>1. Tail(s) \in Seq(Messages) /\ <<h>> \in Seq(Messages)
        BY <1>6
      <4>2. QED
        BY <4>1, Zenon
    <3>2. /\ Len(s) \in Nat /\ Len(s) > 0 /\ Len(u) = Len(s) - 1 /\ h = s[1]
          /\ \A i \in 1 .. Len(s) - 1 : u[i] = s[i + 1]
          /\ Len(one) = 1 /\ one[1] = h
      BY <1>5, <1>3, <3>1, TailProperties2
    <3>3. /\ one \o u \in Seq(Messages) /\ Len(one \o u) = Len(one) + Len(u)
          /\ \A i \in 1 .. Len(one) + Len(u) : (one \o u)[i] = IF i <= Len(one) THEN one[i]
                                                             ELSE u[i - Len(one)]
      BY ConcatProperties
    <3>4. ASSUME NEW i \in 1 .. Len(s)
          PROVE  s[i] = (one \o u)[i]
      <4>1. CASE i = 1
        BY <3>2, <3>3, <4>1
      <4>2. CASE i # 1
        <5>1. i - 1 \in 1 .. Len(s) - 1 /\ (i - 1) + 1 = i /\ ~ (i <= 1)
          BY <3>2, <4>2
        <5>2. u[i - 1] = s[i]
          BY <3>2, <5>1
        <5>3. QED
          BY <3>2, <3>3, <5>1, <5>2
      <4>3. QED
        BY <4>1, <4>2
    <3>5. Len(s) = Len(one \o u)
      BY <3>2, <3>3
    <3>6. s = one \o u
      BY <3>3, <3>4, <3>5, SameSequence
    <3>7. QED
      BY <3>1, <3>6
  <2>2. s \o t = <<h>> \o (Tail(s) \o t)
    <3>1. PICK u \in Seq(Messages), one \in Seq(Messages) : u = Tail(s) /\ one = <<h>>
      <4>1. Tail(s) \in Seq(Messages) /\ <<h>> \in Seq(Messages)
        BY <1>6
      <4>2. QED
        BY <4>1, Zenon
    <3>2. (one \o u) \o t = one \o (u \o t)
      <4>1. t \in Seq(Messages)
        BY <1>5
      <4>2. QED
        BY ONLY <4>1, ConcatAssociative, one \in Seq(Messages), u \in Seq(Messages)
    <3>3. QED
      BY <2>1, <3>1, <3>2
  <2>3. PICK z \in Seq(Messages) : z = Tail(s) \o t
    BY <1>5, <1>6, ConcatProperties
  <2>4. <<h>> \o z # <<>> /\ Head(<<h>> \o z) = h /\ Tail(<<h>> \o z) = z
    BY <1>6
  <2>5. QED
    BY <2>2, <2>3, <2>4
<1>11. ASSUME NEW k \in Nodes, NEW o \in Prios
      PROVE  NetOf(D)[k][o] = IF k = n /\ o = p THEN Tail(s \o t) ELSE NetOf(L)[k][o]
  <2>1. D[<<k, "ring">>] = L[<<k, "ring">>]
    BY <1>7, MappedPlaces
  <2>2. NetOf(D)[k][o] = D[<<k, PrioStage(o)>>] \o OfPriority(L[<<k, "ring">>], o)
        /\ NetOf(L)[k][o] = L[<<k, PrioStage(o)>>] \o OfPriority(L[<<k, "ring">>], o)
    BY <2>1 DEF NetOf
  <2>3. CASE k = n /\ o = p
    BY <1>5, <1>7, <1>10, <2>2, <2>3
  <2>4. CASE ~ (k = n /\ o = p)
    <3>1. <<k, PrioStage(o)>> # q
      BY <2>4, MappedPlaces
    <3>2. QED
      BY <1>7, <2>2, <2>4, <3>1, MappedPlaces
  <2>5. QED
    BY <2>3, <2>4
<1>12. ASSUME NEW k \in Nodes, NEW o \in Prios
      PROVE  NetOf(M)[k][o] = NetOf(D)[k][o]
  BY <1>8, MappedPlaces DEF NetOf
<1>13. ASSUME NEW k \in Nodes
       PROVE  /\ InboxOf(D)[k] = InboxOf(L)[k]
              /\ InboxOf(M)[k] = IF k = n THEN Append(InboxOf(L)[n], h) ELSE InboxOf(L)[k]
  BY <1>7, <1>8, MappedPlaces DEF InboxOf
<1>14. NetOf(D) = [NetOf(L) EXCEPT ![n][p] = Tail(NetOf(L)[n][p])]
  <2>1. PICK x : x = Tail(NetOf(L)[n][p])
    OBVIOUS
  <2>2. NetOf(D)[n][p] = x
        /\ \A k \in Nodes, o \in Prios : k # n \/ o # p => NetOf(D)[k][o] = NetOf(L)[k][o]
    BY <1>9, <1>11, <2>1
  <2>3. NetOf(D) = [NetOf(L) EXCEPT ![n][p] = x]
    <3>1. PICK k \in Nodes, o \in Prios : k = n /\ o = p
      OBVIOUS
    <3>2. NetOf(D)[k][o] = x /\ \A i \in Nodes, j \in Prios : i # k \/ j # o =>
                                    NetOf(D)[i][j] = NetOf(L)[i][j]
      BY <2>2, <3>1
    <3>3. NetOf(D) = [NetOf(L) EXCEPT ![k][o] = x]
      BY <3>2, NetUpdate
    <3>4. QED
      BY <3>1, <3>3
  <2>4. QED
    BY <2>1, <2>3
<1>15. NetOf(M) = NetOf(D)
  BY <1>12 DEF NetOf
<1>16. /\ InboxOf(D) = InboxOf(L)
       /\ InboxOf(M) = [InboxOf(L) EXCEPT ![n] = Append(InboxOf(L)[n], h)]
  BY <1>13 DEF InboxOf
<1>17. QED
  BY <1>9, <1>10, <1>14, <1>15, <1>16, <1>2, <1>3, <1>4
-----------------------------------------------------------------------------
(* The refinement.                                                         *)

\* What was discarded is numbered no higher than its sender's calls.
WastePast == \A m \in discarded : Past(m)

\* Messages are discarded where they would be handed to an endpoint.
LEMMA DiscardsOnly ==
  ASSUME Next
  PROVE  discarded' = discarded \/ \E n \in Nodes : RxDeliver(n)
<1> DEFINE Kept == discarded' = discarded \/ \E n \in Nodes : RxDeliver(n)
<1>1. ASSUME NEW call \in Traffic, StartSend(call) PROVE Kept
  BY <1>1 DEF StartSend
<1>2. ASSUME NEW n \in Nodes, GetBuffer(n) PROVE Kept
  BY <1>2 DEF GetBuffer, GetLock, GetScan, GetMark, GetUnlock, history
<1>3. ASSUME NEW n \in Nodes, Transmit(n) PROVE Kept
  BY <1>3 DEF Transmit, EnqLock, EnqStore, EnqCommit, EnqUnlock, Notify, history
<1>4. ASSUME NEW n \in Nodes, Interrupt(n) \/ PollRing(n) PROVE Kept
  BY <1>4 DEF Interrupt, PollRing, RxWait, Poll, ConsLock, ConsUpdate, ConsUnlock, history
<1>5. ASSUME NEW n \in Nodes, RxData(n) \/ Receive(n) PROVE Kept
  BY <1>5 DEF RxData, RxLock, RxDone, Receive, history
<1>6. ASSUME NEW t \in Threads, Free(t) PROVE Kept
  BY <1>6 DEF Free, FreeLock, FreeClear, FreeUnlock, history
<1>7. QED
  BY <1>1, <1>2, <1>3, <1>4, <1>5, <1>6 DEF Next

\* mcapi_rx_data takes the head of a line; handed over or not, it is the transport's.
LEMMA DeliverTakes ==
  ASSUME DriverInv, NEW n \in Nodes, RxDeliver(n)
  PROVE  \E p \in Prios, h \in Messages :
           LET q == <<n, PrioStage(p)>>
               D == Dropped(Line, q) IN
           /\ q \in LinePlaces /\ Line[q] # <<>> /\ h = Head(Line[q])
           /\ \/ /\ h.known /\ discarded' = discarded
                 /\ Line' = Added(D, <<n, "endp">>, h)
              \/ ~ h.known /\ discarded' = discarded \cup {h} /\ Line' = D
<1>1. PICK p \in Prios : p = NextPrio(n)
  BY DEF NextPrio, Prios
<1>2. PICK k \in {"prio0", "prio1"} : k = PrioStage(p)
  BY DEF PrioStage
<1> DEFINE r == <<n, k>>
           b == Head(Queues[r])
           h == Head(Line[r])
<1>3. r \in Places /\ <<n, "endp">> \in Places /\ k \in Stages
  BY DEF Places, Stages
<1>4. /\ Queues[r] = rxQueue[n][NextPrio(n)] /\ Queues[r] # <<>>
      /\ content[b].known => Queues' = Added(Dropped(Queues, r), <<n, "endp">>, b)
      /\ ~ content[b].known => Queues' = Dropped(Queues, r)
  BY <1>1, <1>2, <1>3, DeliverQueues, QueuesAt
<1>5. content' = content /\ received' = received
  BY DEF RxDeliver
<1>6. Line' = LineOf(Queues', content, received)
  BY <1>5, LineIs
<1>7. /\ LineOf(Added(Dropped(Queues, r), <<n, "endp">>, b), content, received)
           = Added(Dropped(Line, r), <<n, "endp">>, h)
      /\ LineOf(Dropped(Queues, r), content, received) = Dropped(Line, r)
      /\ Line[r] # <<>> /\ h = content[b]
  BY <1>3, <1>4, LineIs, QueueTypes, LineMoved
<1>8. h \in Messages /\ r \in LinePlaces
  BY <1>3, <1>7, LineIsTyped, LineAt, TailProperties2 DEF LineTypes
<1>9. CASE content[b].known
  <2>1. discarded' = discarded
    BY <1>4, <1>9 DEF RxDeliver
  <2>2. Line' = Added(Dropped(Line, r), <<n, "endp">>, h)
    BY <1>4, <1>6, <1>7, <1>9
  <2> HIDE DEF h, b
  <2>3. QED
    BY <1>2, <1>7, <1>8, <1>9, <2>1, <2>2 DEF h
<1>10. CASE ~ content[b].known
  <2>1. discarded' = discarded \cup {h}
    BY <1>4, <1>7, <1>10 DEF RxDeliver
  <2>2. Line' = Dropped(Line, r)
    BY <1>4, <1>6, <1>7, <1>10
  <2> HIDE DEF h, b
  <2>3. QED
    BY <1>2, <1>7, <1>8, <1>10, <2>1, <2>2 DEF h
<1>11. QED
  BY <1>9, <1>10

\* What is discarded was under way.
LEMMA DiscardedWasLined ==
  ASSUME DriverInv, HistoryInv, NEW n \in Nodes, RxDeliver(n),
         NEW m \in discarded', m \notin discarded
  PROVE  m \in Messages /\ Lined(Line, m)
<1>1. PICK p \in Prios, h \in Messages :
        /\ <<n, PrioStage(p)>> \in LinePlaces /\ Line[<<n, PrioStage(p)>>] # <<>>
        /\ h = Head(Line[<<n, PrioStage(p)>>])
        /\ discarded' = discarded \/ discarded' = discarded \cup {h}
  BY DeliverTakes
<1>2. m = h
  BY <1>1
<1>3. PICK s \in Seq(Messages) : s = Line[<<n, PrioStage(p)>>] /\ Sorted(s)
  BY <1>1, LineIsTyped DEF LineTypes, HistoryInv, InOrder
<1>4. In(s, m)
  BY <1>1, <1>2, <1>3, InTail
<1>5. QED
  BY <1>1, <1>2, <1>3, <1>4 DEF Lined

\* No step starts a call but msg_send, and only what was under way is discarded.
LEMMA WasteStep ==
  ASSUME NotifyMayFail = FALSE, DriverInv, HistoryInv, WastePast, Next
  PROVE  WastePast'
<1>1. discarded \subseteq Messages
  BY DEF DriverInv, TypeOK, HistoryTypes
<1>2. ASSUME NEW call \in Traffic, StartSend(call)
      PROVE  WastePast'
  <2>1. discarded' = discarded
    BY <1>2 DEF StartSend
  <2>2. ASSUME NEW m \in discarded
        PROVE  Past(m)'
    <3>1. m.src \in Nodes /\ m.seq \in Nat /\ sends[m.src] \in Nat /\ Past(m)
      BY <1>1, MessageFacts DEF WastePast, DriverInv, TypeOK, HistoryTypes
    <3>2. CASE m.src = call.src
      <4>1. sends'[m.src] = sends[m.src] + 1
        BY <1>2, <3>2, NewCall
      <4>2. QED
        BY <3>1, <4>1 DEF Past
    <3>3. CASE m.src # call.src
      BY <1>2, <3>1, <3>3, NewCall DEF Past
    <3>4. QED
      BY <3>2, <3>3
  <2>3. QED
    BY <2>1, <2>2 DEF WastePast
<1>3. ASSUME \/ \E k \in Nodes : GetBuffer(k) \/ Transmit(k) \/ Interrupt(k)
                                 \/ PollRing(k) \/ RxData(k) \/ Receive(k)
             \/ \E t \in Threads : Free(t)
      PROVE  WastePast'
  <2>1. \A n \in Nodes : (Uncommitted(n)' => Uncommitted(n)) /\ sends' = sends
    BY <1>3, CallGoesOn
  <2>2. sends' = sends
    BY <2>1, ShmAssumption
  <2>3. ASSUME NEW m \in discarded'
        PROVE  m \in Messages /\ Past(m)
    <3>1. CASE m \in discarded
      BY <1>1, <3>1 DEF WastePast
    <3>2. CASE m \notin discarded
      <4>1. PICK n \in Nodes : RxDeliver(n)
        BY <2>3, <3>2, DiscardsOnly
      <4>2. m \in Messages /\ Lined(Line, m)
        BY <2>3, <3>2, <4>1, DiscardedWasLined
      <4>3. QED
        BY <4>2 DEF HistoryInv
    <3>3. QED
      BY <3>1, <3>2
  <2>4. QED
    BY <2>1, <2>2, <2>3, PastStays DEF WastePast
<1>4. QED
  BY <1>2, <1>3, NextCases

\* As long as notifications do not fail, that is how it stays.
THEOREM WasteInvariant ==
  ASSUME NotifyMayFail = FALSE
  PROVE  Spec => []WastePast
<1>1. Init => WastePast
  BY DEF Init, WastePast
<1>2. DriverInv /\ HistoryInv /\ WastePast /\ [Next]_vars => WastePast'
  <2>1. ASSUME DriverInv, HistoryInv, WastePast, Next
        PROVE  WastePast'
    BY <2>1, WasteStep
  <2>2. ASSUME WastePast, UNCHANGED vars
        PROVE  WastePast'
    BY <2>2 DEF vars, threadVars, history, WastePast, Past, Uncommitted
  <2>3. QED
    BY <2>1, <2>2
<1>3. QED
  BY <1>1, <1>2, DriverInvariant, HistoryInvariant, PTL DEF Spec

\* The elements of two sequences one after the other.
LEMMA ElementsConcat ==
  ASSUME NEW s \in Seq(Messages), NEW u \in Seq(Messages), NEW m
  PROVE  m \in Elements(s \o u) <=> In(s, m) \/ In(u, m)
<1>1. PICK z \in Seq(Messages) : z = s \o u
  BY ConcatProperties
<1>2. /\ Len(s) \in Nat /\ Len(u) \in Nat /\ Len(z) = Len(s) + Len(u) /\ DOMAIN z = 1 .. Len(z)
      /\ \A i \in 1 .. Len(s) + Len(u) : z[i] = IF i <= Len(s) THEN s[i] ELSE u[i - Len(s)]
  BY <1>1, ConcatProperties
<1>3. ASSUME In(s, m)
      PROVE  \E i \in DOMAIN z : z[i] = m
  <2>1. PICK i \in 1 .. Len(s) : s[i] = m
    BY <1>3 DEF In
  <2>2. i \in 1 .. Len(s) + Len(u) /\ i <= Len(s)
    BY <1>2
  <2>3. QED
    BY <1>2, <2>1, <2>2
<1>4. ASSUME In(u, m)
      PROVE  \E i \in DOMAIN z : z[i] = m
  <2>1. PICK i \in 1 .. Len(u) : u[i] = m
    BY <1>4 DEF In
  <2>2. /\ i + Len(s) \in 1 .. Len(s) + Len(u) /\ ~ (i + Len(s) <= Len(s))
        /\ (i + Len(s)) - Len(s) = i
    BY <1>2
  <2>3. QED
    BY <1>2, <2>1, <2>2
<1>5. ASSUME NEW i \in DOMAIN z, z[i] = m
      PROVE  In(s, m) \/ In(u, m)
  <2>1. CASE i <= Len(s)
    <3>1. i \in 1 .. Len(s) /\ s[i] = m
      BY <1>2, <1>5, <2>1
    <3>2. QED
      BY <3>1 DEF In
  <2>2. CASE ~ (i <= Len(s))
    <3>1. i - Len(s) \in 1 .. Len(u) /\ u[i - Len(s)] = m
      BY <1>2, <1>5, <2>2
    <3>2. QED
      BY <3>1 DEF In
  <2>3. QED
    BY <2>1, <2>2
<1>6. QED
  BY <1>1, <1>3, <1>4, <1>5 DEF Elements

\* Who is under way in the transport, and whom it has seen.
LEMMA MappedTransit ==
  ASSUME DriverInv, NEW m
  PROVE  /\ m \in Abstract!InTransit <=> \E n \in Nodes, k \in Stages : In(Line[<<n, k>>], m)
         /\ m \in Abstract!Seen <=> Lined(Line, m) \/ m \in discarded
<1>1. Mapped
  BY MappedNow
<1>2. ASSUME NEW n \in Nodes, NEW p \in Prios
      PROVE  m \in Abstract!Elements(Net[n][p])
               <=> In(Line[<<n, PrioStage(p)>>], m) \/ (In(Line[<<n, "ring">>], m) /\ m.prio = p)
  <2>1. PICK s \in Seq(Messages), t \in Seq(Messages) :
          s = Line[<<n, PrioStage(p)>>] /\ t = Line[<<n, "ring">>]
    BY LineIsTyped, MappedPlaces DEF LineTypes
  <2>2. PICK u \in Seq(Messages) : u = OfPriority(t, p)
    BY OfPriorityType
  <2>3. Net[n][p] = s \o u
    BY <1>1, <2>1, <2>2 DEF Mapped, NetOf
  <2>4. m \in Abstract!Elements(s \o u) <=> In(s, m) \/ In(u, m)
    BY ElementsConcat DEF Abstract!Elements, Elements
  <2>5. In(u, m) <=> In(t, m) /\ m.prio = p
    BY <2>2, OfPriorityIn
  <2>6. QED
    BY <2>1, <2>3, <2>4, <2>5
<1>3. ASSUME NEW n \in Nodes
      PROVE  /\ m \in Abstract!Elements(Inboxes[n]) <=> In(Line[<<n, "endp">>], m)
             /\ m \in Abstract!Elements(received[n]) <=> In(Line[<<n, "done">>], m)
  <2>1. Inboxes[n] = Line[<<n, "endp">>]
    BY <1>1 DEF Mapped, InboxOf
  <2>2. received[n] = Line[<<n, "done">>]
    BY LineAt, LineIs
  <2>3. /\ DOMAIN Line[<<n, "endp">>] = 1 .. Len(Line[<<n, "endp">>])
        /\ DOMAIN Line[<<n, "done">>] = 1 .. Len(Line[<<n, "done">>])
    BY LineIsTyped, MappedPlaces DEF LineTypes
  <2>4. QED
    BY <2>1, <2>2, <2>3 DEF Abstract!Elements, In
<1>4. ASSUME NEW n \in Nodes, NEW k \in Stages, In(Line[<<n, k>>], m)
      PROVE  m \in Messages /\ m.prio \in Prios
  <2>1. PICK s \in Seq(Messages) : s = Line[<<n, k>>]
    BY LineIsTyped, LinePlace DEF LineTypes
  <2>2. m \in Messages
    BY <1>4, <2>1 DEF In
  <2>3. QED
    BY <2>2, MessageFacts
<1>5. \A n \in Nodes : (\E p \in Prios : m \in Abstract!Elements(Net[n][p]))
        <=> In(Line[<<n, "ring">>], m) \/ In(Line[<<n, "prio0">>], m)
            \/ In(Line[<<n, "prio1">>], m)
  <2> SUFFICES ASSUME NEW n \in Nodes
               PROVE  (\E p \in Prios : m \in Abstract!Elements(Net[n][p]))
                        <=> In(Line[<<n, "ring">>], m) \/ In(Line[<<n, "prio0">>], m)
                            \/ In(Line[<<n, "prio1">>], m)
    OBVIOUS
  <2>1. 0 \in Prios /\ 1 \in Prios /\ PrioStage(0) = "prio0" /\ PrioStage(1) = "prio1"
    BY DEF PrioStage, Prios
  <2>2. \A p \in Prios : p = 0 \/ p = 1
    BY DEF Prios
  <2>3. /\ m \in Abstract!Elements(Net[n][0])
             <=> In(Line[<<n, "prio0">>], m) \/ (In(Line[<<n, "ring">>], m) /\ m.prio = 0)
        /\ m \in Abstract!Elements(Net[n][1])
             <=> In(Line[<<n, "prio1">>], m) \/ (In(Line[<<n, "ring">>], m) /\ m.prio = 1)
    BY <1>2, <2>1
  <2>4. In(Line[<<n, "ring">>], m) => m.prio = 0 \/ m.prio = 1
    BY <1>4, <2>2 DEF Stages
  <2>5. (\E p \in Prios : m \in Abstract!Elements(Net[n][p]))
          <=> m \in Abstract!Elements(Net[n][0]) \/ m \in Abstract!Elements(Net[n][1])
    BY <2>1, <2>2
  <2>6. QED
    BY <2>3, <2>4, <2>5
<1>6. m \in Abstract!InTransit <=> /\ m \in Messages
                                   /\ \E n \in Nodes :
                                        \/ m \in Abstract!Elements(Inboxes[n])
                                        \/ \E p \in Prios : m \in Abstract!Elements(Net[n][p])
  <2>1. Abstract!InTransit =
          {x \in Messages : \E n \in Nodes :
             \/ x \in Abstract!Elements(Inboxes[n])
             \/ \E p \in Prios : x \in Abstract!Elements(Net[n][p])}
    BY DEF Abstract!InTransit, Net, Inboxes
  <2>2. QED
    BY <2>1
<1>7. m \in Abstract!InTransit <=> \E n \in Nodes, k \in Stages : In(Line[<<n, k>>], m)
  <2>1. ASSUME NEW n \in Nodes
        PROVE  (\E p \in Prios : m \in Abstract!Elements(Net[n][p]))
                 \/ m \in Abstract!Elements(Inboxes[n])
               <=> \E k \in Stages : In(Line[<<n, k>>], m)
    BY <1>3, <1>5 DEF Stages
  <2>2. QED
    BY <1>4, <1>6, <2>1
<1>8. m \in Abstract!Seen <=> \/ m \in Abstract!InTransit \/ m \in discarded
                              \/ \E n \in Nodes : m \in Abstract!Elements(received[n])
  <2> DEFINE B(n) == Abstract!Elements(received[n])
  <2>1. Abstract!Seen = Abstract!InTransit \cup discarded \cup UNION {B(n) : n \in Nodes}
    BY DEF Abstract!Seen
  <2> HIDE DEF B
  <2>2. m \in Abstract!Seen <=> \/ m \in Abstract!InTransit \/ m \in discarded
                                \/ \E n \in Nodes : m \in B(n)
    BY <2>1
  <2>3. QED
    BY <2>2 DEF B
<1>9. Lined(Line, m) <=> \E n \in Nodes, k \in Stages \cup {"done"} : In(Line[<<n, k>>], m)
  BY LinePlace DEF Lined
<1>10. QED
  BY <1>3, <1>7, <1>8, <1>9

\* While a buffer is in somebody's hand, the others hold what is under way.
LEMMA TransitFits ==
  ASSUME DriverInv, PoolInv, NEW b \in Buffers, Held(Hands, b)
  PROVE  Cardinality(Abstract!InTransit) < NumBuffers
<1> DEFINE S == Buffers \ {b}
           T == {content[c] : c \in S}
           f == [c \in S |-> content[c]]
<1>1. IsFiniteSet(S) /\ Cardinality(S) = NumBuffers - 1
  <2>1. Cardinality(Buffers) = NumBuffers
    BY FS_Interval, ShmAssumption DEF Buffers
  <2>2. QED
    BY <2>1, PoolSize
<1>2. f \in Surjection(S, T)
  BY DEF Surjection
<1>3. IsFiniteSet(T) /\ Cardinality(T) <= Cardinality(S)
  BY <1>1, <1>2, FS_Surjection
<1>4. ASSUME NEW m \in Abstract!InTransit
      PROVE  m \in T
  <2>1. PICK n \in Nodes, k \in Stages : In(Line[<<n, k>>], m)
    BY <1>4, MappedTransit
  <2>2. PICK q \in Places : q = <<n, k>>
    BY DEF Places
  <2>3. PICK s \in Seq(Buffers) : s = Queues[q] /\ Line[q] = Load(content, s)
    BY <2>2, QueueTypes, LineAt, LineIs
  <2>4. PICK i \in 1 .. Len(Load(content, s)) : Load(content, s)[i] = m
    BY <2>1, <2>2, <2>3 DEF In
  <2>5. Len(Load(content, s)) = Len(s) /\ i \in 1 .. Len(s) /\ m = content[s[i]]
    <3>1. PICK j \in Nat : j = Len(s) /\ DOMAIN s = 1 .. j
      BY <2>3
    <3>2. DOMAIN Load(content, s) = 1 .. j
      BY <3>1 DEF Load
    <3>3. Line[q] \in Seq(Messages)
      BY <2>2, LineIsTyped, LinePlace DEF LineTypes
    <3>4. Len(Load(content, s)) = j
      BY <2>3, <3>2, <3>3
    <3>5. QED
      BY <2>4, <3>1, <3>4 DEF Load
  <2>6. s[i] \in Buffers /\ Queued(Queues, s[i])
    BY <2>3, <2>5 DEF Queued
  <2>7. s[i] # b
    BY <2>6 DEF PoolInv, Owned
  <2>8. QED
    BY <2>5, <2>6, <2>7
<1>5. Cardinality(Abstract!InTransit) <= Cardinality(T)
  <2> HIDE DEF T
  <2>1. Abstract!InTransit \subseteq T
    BY <1>4
  <2>2. QED
    BY <1>3, <2>1, FS_Subset
<1>6. IsFiniteSet(Abstract!InTransit) /\ Cardinality(Abstract!InTransit) \in Nat
  <2> HIDE DEF T
  <2>1. IsFiniteSet(Abstract!InTransit)
    BY <1>3, <1>4, FS_Subset
  <2>2. QED
    BY <2>1, FS_CardinalityType
<1>7. Cardinality(T) \in Nat
  BY <1>3, FS_CardinalityType
<1> HIDE DEF S, T
<1>8. QED
  BY <1>1, <1>3, <1>5, <1>6, <1>7, ShmAssumption

\* put_idx moves: the transport accepts the message.
LEMMA CommitAccepts ==
  ASSUME DriverInv, DriverInv', PoolInv, HistoryInv, WastePast, NEW n \in Nodes, EnqCommit(n)
  PROVE  \E m \in Messages : Abstract!Accept(m)
<1>1. PICK m \in Messages : m = msg[Api(n)] /\ m.src = n /\ m.seq = sends[n]
  BY DEF EnqCommit, Goto, HistoryInv, Stamped, DriverInv, CallsSound, CallSound, Sending,
         Enqueuing
<1>2. PICK b \in Buffers : b = buf[Api(n)] /\ content[b] = m
  BY <1>1, CommitHands DEF EnqCommit, Goto, HistoryInv, Loaded, Enqueuing
<1>3. Line' = Added(Line, <<m.dst, "ring">>, m)
  <2>1. PICK q \in Places : q = <<m.dst, "ring">> /\ Queues' = Added(Queues, q, b)
    BY <1>1, <1>2, CommitQueues DEF Places, Stages
  <2>2. content' = content /\ received' = received
    BY DEF EnqCommit, history
  <2>3. QED
    BY <1>2, <2>1, <2>2, QueueTypes, LineAdded DEF Line
<1>4. /\ Net' = [Net EXCEPT ![m.dst][m.prio] = Append(Net[m.dst][m.prio], m)]
      /\ Inboxes' = Inboxes
  <2>1. LineTypes(Line)
    BY LineIsTyped
  <2>2. /\ Net = NetOf(Line) /\ Inboxes = InboxOf(Line)
        /\ Net' = NetOf(Line') /\ Inboxes' = InboxOf(Line')
    BY MappedNow, MappedNext DEF Mapped
  <2>3. /\ NetOf(Line') = [NetOf(Line) EXCEPT ![m.dst][m.prio] =
                              Append(NetOf(Line)[m.dst][m.prio], m)]
        /\ InboxOf(Line') = InboxOf(Line)
    BY ONLY <1>3, <2>1, NetAccepts, m \in Messages
  <2>4. QED
    BY ONLY <2>2, <2>3
<1>5. ASSUME NEW s \in Abstract!Seen, s.src = m.src
      PROVE  s.seq < m.seq
  <2>1. Uncommitted(n)
    <3>1. pc[Api(n)] = "enq_commit"
      BY DEF EnqCommit, Goto
    <3>2. QED
      BY <3>1 DEF Uncommitted, Enqueuing
  <2>2. Lined(Line, s) \/ s \in discarded
    BY <1>5, MappedTransit
  <2>3. Past(s)
    <3>1. ASSUME Lined(Line, s)
          PROVE  s \in Messages
      <4>1. PICK q \in LinePlaces : In(Line[q], s)
        BY <3>1 DEF Lined
      <4>2. PICK z \in Seq(Messages) : z = Line[q]
        BY LineIsTyped DEF LineTypes
      <4>3. QED
        BY <4>1, <4>2 DEF In
    <3>2. QED
      BY <2>2, <3>1 DEF HistoryInv, WastePast
  <2>4. QED
    BY <1>1, <1>5, <2>1, <2>3 DEF Past
<1>6. Held(Hands, b)
  BY <1>2, CommitHands DEF Held
<1>7. Cardinality(Abstract!InTransit) < NumBuffers
  BY <1>6, TransitFits
<1>8. received' = received /\ discarded' = discarded
  BY DEF EnqCommit, history
<1>9. \A x : Abstract!Cardinality(x) = Cardinality(x)
  BY DEF Abstract!Cardinality, Cardinality
<1>10. Abstract!Accept(m)
  BY <1>4, <1>5, <1>7, <1>8, <1>9 DEF Abstract!Accept, Net, Inboxes
<1>11. QED
  BY <1>10

\* mcapi_rx_data hands a message of the transport over.
LEMMA DeliverHandsOver ==
  ASSUME DriverInv, DriverInv', NEW n \in Nodes, RxDeliver(n)
  PROVE  \E p \in Prios : Abstract!HandOver(n, p)
<1>1. PICK p \in Prios, h \in Messages :
        LET q == <<n, PrioStage(p)>>
            D == Dropped(Line, q) IN
        /\ q \in LinePlaces /\ Line[q] # <<>> /\ h = Head(Line[q])
        /\ \/ /\ h.known /\ discarded' = discarded
              /\ Line' = Added(D, <<n, "endp">>, h)
           \/ ~ h.known /\ discarded' = discarded \cup {h} /\ Line' = D
  BY DeliverTakes
<1>2. PICK D : D = Dropped(Line, <<n, PrioStage(p)>>)
  OBVIOUS
<1>3. PICK M : M = Added(D, <<n, "endp">>, h)
  OBVIOUS
<1>4. LineTypes(Line) /\ received' = received
  BY LineIsTyped DEF RxDeliver
<1>5. /\ Net = NetOf(Line) /\ Inboxes = InboxOf(Line)
      /\ Net' = NetOf(Line') /\ Inboxes' = InboxOf(Line')
  BY MappedNow, MappedNext DEF Mapped
<1>6. /\ Net[n][p] # <<>> /\ h = Head(Net[n][p])
      /\ NetOf(D) = [Net EXCEPT ![n][p] = Tail(Net[n][p])]
      /\ NetOf(M) = NetOf(D)
      /\ InboxOf(D) = Inboxes
      /\ InboxOf(M) = [Inboxes EXCEPT ![n] = Append(Inboxes[n], h)]
  BY <1>1, <1>2, <1>3, <1>4, <1>5, NetHandsOver
<1>7. \/ h.known /\ discarded' = discarded /\ Line' = M
      \/ ~ h.known /\ discarded' = discarded \cup {h} /\ Line' = D
  BY <1>1, <1>2, <1>3
<1>8. Net' = [Net EXCEPT ![n][p] = Tail(Net[n][p])]
  BY <1>5, <1>6, <1>7
<1>9. \/ h.known /\ Inboxes' = [Inboxes EXCEPT ![n] = Append(Inboxes[n], h)]
         /\ discarded' = discarded
      \/ ~ h.known /\ discarded' = discarded \cup {h} /\ Inboxes' = Inboxes
  BY <1>5, <1>6, <1>7
<1>10. Abstract!HandOver(n, p)
  BY <1>4, <1>6, <1>8, <1>9 DEF Abstract!HandOver, Net, Inboxes
<1>11. QED
  BY <1>10

\* What an endpoint's queue loses is received.
LEMMA InboxReceives ==
  ASSUME NEW L, LineTypes(L), NEW n \in Nodes, L[<<n, "endp">>] # <<>>, NEW h
  PROVE  LET M == Added(Dropped(L, <<n, "endp">>), <<n, "done">>, h) IN
         /\ NetOf(M) = NetOf(L)
         /\ InboxOf(L)[n] = L[<<n, "endp">>]
         /\ InboxOf(M) = [InboxOf(L) EXCEPT ![n] = Tail(InboxOf(L)[n])]
<1> DEFINE e == <<n, "endp">>
           d == <<n, "done">>
<1>1. e \in LinePlaces /\ d \in LinePlaces /\ d # e
  BY MappedPlaces
<1>2. PICK D : D = Dropped(L, e)
  OBVIOUS
<1>3. PICK M : M = Added(D, d, h)
  OBVIOUS
<1>4. D[e] = Tail(L[e]) /\ \A u \in LinePlaces : u # e => D[u] = L[u]
  BY <1>1, <1>2, AddedAt
<1>5. \A u \in LinePlaces : u # d => M[u] = D[u]
  <2>1. M = [D EXCEPT ![d] = Append(D[d], h)]
    BY <1>3 DEF Added
  <2>2. DOMAIN D = LinePlaces
    BY <1>2 DEF Dropped, LineTypes
  <2>3. QED
    BY <2>1, <2>2
<1>6. ASSUME NEW k \in Nodes, NEW o \in Prios
      PROVE  M[<<k, PrioStage(o)>>] = L[<<k, PrioStage(o)>>] /\ M[<<k, "ring">>] = L[<<k, "ring">>]
  BY <1>4, <1>5, MappedPlaces DEF PrioStage
<1>7. NetOf(M) = NetOf(L)
  BY <1>6 DEF NetOf
<1>8. ASSUME NEW k \in Nodes
      PROVE  InboxOf(M)[k] = IF k = n THEN Tail(InboxOf(L)[k]) ELSE InboxOf(L)[k]
  BY <1>4, <1>5, MappedPlaces DEF InboxOf
<1>9. InboxOf(M) = [InboxOf(L) EXCEPT ![n] = Tail(InboxOf(L)[n])]
  BY <1>8 DEF InboxOf
<1>10. QED
  BY <1>2, <1>3, <1>7, <1>9 DEF InboxOf

\* msg_recv receives from the transport's inbox.
LEMMA ReceiveReceives ==
  ASSUME DriverInv, DriverInv', NEW n \in Nodes, Receive(n)
  PROVE  Abstract!Receive(n)
<1> DEFINE r == <<n, "endp">>
           b == Head(Queues[r])
           h == Head(Line[r])
<1>1. r \in Places
  BY DEF Places, Stages
<1>2. Queues[r] = endpQueue[n] /\ Queues[r] # <<>> /\ Queues' = Dropped(Queues, r)
  BY <1>1, ReceiveQueues, QueuesAt DEF Stages
<1>3. /\ content' = content /\ received' = [received EXCEPT ![n] = Append(received[n], content[b])]
      /\ received \in [Nodes -> Seq(Messages)] /\ discarded' = discarded
  BY <1>2, LineIsTyped DEF Receive
<1>4. Line[r] # <<>> /\ h = content[b]
      /\ LineOf(Dropped(Queues, r), content, received) = Dropped(Line, r)
  BY <1>1, <1>2, QueueTypes, LineDropped DEF Line
<1>5. Line' = Added(Dropped(Line, r), <<n, "done">>, h)
  <2>1. Line' = LineOf(Dropped(Queues, r), content, received')
    BY <1>2, <1>3, LineIs
  <2>2. Handed(received, received', n, content[b])
    BY <1>3 DEF Handed
  <2>3. QED
    BY <1>4, <2>1, <2>2, LineReceived
<1>6. /\ Net = NetOf(Line) /\ Inboxes = InboxOf(Line)
      /\ Net' = NetOf(Line') /\ Inboxes' = InboxOf(Line')
  BY MappedNow, MappedNext DEF Mapped
<1>7. /\ NetOf(Line') = NetOf(Line) /\ InboxOf(Line)[n] = Line[r]
      /\ InboxOf(Line') = [InboxOf(Line) EXCEPT ![n] = Tail(InboxOf(Line)[n])]
  <2>1. PICK L : L = Line
    OBVIOUS
  <2>2. PICK m : m = h
    OBVIOUS
  <2>3. PICK M : M = Added(Dropped(L, <<n, "endp">>), <<n, "done">>, m)
    OBVIOUS
  <2>4. LineTypes(L) /\ L[<<n, "endp">>] # <<>> /\ Line' = M
    BY <1>4, <1>5, <2>1, <2>2, <2>3, LineIsTyped
  <2>5. /\ NetOf(M) = NetOf(L)
        /\ InboxOf(L)[n] = L[<<n, "endp">>]
        /\ InboxOf(M) = [InboxOf(L) EXCEPT ![n] = Tail(InboxOf(L)[n])]
    BY ONLY <2>3, <2>4, InboxReceives, n \in Nodes
  <2>6. QED
    BY <2>1, <2>4, <2>5
<1> HIDE DEF r, b, h
<1>8. /\ Net' = Net /\ Inboxes[n] # <<>>
      /\ Inboxes' = [Inboxes EXCEPT ![n] = Tail(Inboxes[n])]
      /\ received' = [received EXCEPT ![n] = Append(received[n], Head(Inboxes[n]))]
  BY <1>3, <1>4, <1>6, <1>7 DEF h
<1>9. QED
  BY <1>3, <1>8 DEF Abstract!Receive, Net, Inboxes

\* The transport stands still.
Unseen == /\ Net' = Net /\ Inboxes' = Inboxes
          /\ received' = received /\ discarded' = discarded

\* shm_poll changes where in the driver a message is, not where in the transport.
LEMMA PollUnseen ==
  ASSUME DriverInv, DriverInv', PriosTrue, NEW n \in Nodes, Poll(n), count[n] > 0
  PROVE  Unseen
<1> DEFINE r == <<n, "ring">>
           h == Head(Line[r])
<1>1. PICK p \in Prios : p = NextDesc(n).prio
  BY PollQueues
<1>2. PICK k \in {"prio0", "prio1"} : k = PrioStage(p)
  BY DEF PrioStage
<1>3. /\ Queues[r] # <<>> /\ Head(Queues[r]) = NextDesc(n).buf
      /\ Queues' = Added(Dropped(Queues, r), <<n, k>>, Head(Queues[r]))
  BY <1>1, <1>2, PollQueues, QueuesAt DEF Stages
<1>4. r \in Places /\ <<n, k>> \in Places
  BY DEF Places, Stages
<1>5. content' = content /\ received' = received /\ discarded' = discarded
  BY DEF Poll, history
<1>6. Line' = LineOf(Added(Dropped(Queues, r), <<n, k>>, Head(Queues[r])), content, received)
  BY <1>3, <1>5, LineIs
<1>7. /\ Line' = Added(Dropped(Line, r), <<n, k>>, h)
      /\ Line[r] # <<>> /\ h = content[NextDesc(n).buf]
  BY <1>3, <1>4, <1>6, LineIs, QueueTypes, LineMoved
<1>8. h.prio = p
  <2>1. count[n] \in Nat /\ Skip(n) = 0
    BY DEF Skip, HeadTaken, Poll, DriverInv, TypeOK, RingTypes
  <2>2. Desc(n, 0).prio = content[Desc(n, 0).buf].prio
    BY <2>1 DEF PriosTrue, PrioTrue
  <2>3. NextDesc(n) = Desc(n, 0)
    BY HeadDesc DEF DriverInv, TypeOK, RingTypes
  <2>4. QED
    BY <1>1, <1>7, <2>2, <2>3
<1>9. NetOf(Line') = NetOf(Line) /\ InboxOf(Line') = InboxOf(Line)
  BY <1>2, <1>7, <1>8, NetKeeps, LineIsTyped
<1>10. QED
  BY <1>5, <1>9, MappedNow, MappedNext DEF Mapped, Unseen

\* The steps that move no queue are not seen.
LEMMA QuietUnseen ==
  ASSUME DriverInv, DriverInv', PoolInv, Quiet
  PROVE  Unseen
<1>1. Line' = Line
  BY QuietLine
<1>2. received' = received /\ discarded' = discarded
  BY DEF Quiet, StartSend, GetBuffer, GetLock, GetScan, GetMark, GetUnlock, EnqLock, EnqStore,
         EnqUnlock, Notify, Interrupt, RxWait, Poll, ConsLock, ConsUpdate, ConsUnlock, RxLock,
         RxDone, Free, FreeLock, FreeClear, FreeUnlock, history
<1>3. Net' = Net /\ Inboxes' = Inboxes
  BY <1>1, MappedNow, MappedNext DEF Mapped
<1>4. QED
  BY <1>2, <1>3 DEF Unseen

\* The transport starts empty.
LEMMA InitRefines ==
  ASSUME Init, DriverInv
  PROVE  Abstract!Init
<1>1. ASSUME NEW n \in Nodes, NEW k \in Stages
      PROVE  Line[<<n, k>>] = <<>>
  <2>1. Queue(n, k) = <<>>
    <3>1. ~ HeadTaken(n) /\ count[n] = 0
      BY ThreadFacts, ThreadKinds DEF Init, HeadTaken, Rx
    <3>2. DOMAIN Pending(n) = 1 .. 0
      BY <3>1 DEF Pending
    <3>3. QED
      BY <3>2 DEF Init, Queue, Stages, Prios
  <2>2. PICK q \in Places : q = <<n, k>> /\ Queues[q] = <<>>
    <3>1. <<n, k>> \in Places /\ Queues[<<n, k>>] = Queue(n, k)
      BY QueuesAt
    <3>2. QED
      BY <2>1, <3>1
  <2>3. Line[q] = Load(content, Queues[q])
    BY <2>2, LineAt, LineIs
  <2>4. QED
    BY <2>2, <2>3 DEF Load
<1>2. ASSUME NEW n \in Nodes, NEW p \in Prios
      PROVE  Net[n][p] = <<>>
  <2>1. OfPriority(<<>>, p) = <<>>
    <3>1. PICK s \in Seq(Messages) : s = <<>> /\ Len(s) = 0
      BY EmptySeq
    <3>2. PICK k : Collects(k, s, p) /\ OfPriority(s, p) = k[Len(s)]
      BY OfPriorityIs
    <3>3. QED
      BY <3>1, <3>2 DEF Collects
  <2>2. Line[<<n, PrioStage(p)>>] = <<>> /\ Line[<<n, "ring">>] = <<>>
    BY <1>1, MappedPlaces DEF Stages
  <2>3. Net[n][p] = Line[<<n, PrioStage(p)>>] \o OfPriority(Line[<<n, "ring">>], p)
    <3>1. PICK L : L = Line
      OBVIOUS
    <3>2. Net = NetOf(L)
      BY <3>1, MappedNow DEF Mapped
    <3>3. NetOf(L)[n][p] = L[<<n, PrioStage(p)>>] \o OfPriority(L[<<n, "ring">>], p)
      BY DEF NetOf
    <3>4. QED
      BY <3>1, <3>2, <3>3
  <2>4. QED
    BY <2>1, <2>2, <2>3
<1>3. ASSUME NEW n \in Nodes
      PROVE  Inboxes[n] = <<>>
  BY <1>1, MappedNow DEF Mapped, InboxOf, Stages
<1>4. Net = [n \in Nodes |-> [p \in Prios |-> <<>>]] /\ Inboxes = [n \in Nodes |-> <<>>]
  BY <1>2, <1>3 DEF Net, Inboxes
<1>5. received = [n \in Nodes |-> <<>>] /\ discarded = {}
  BY DEF Init
<1>6. QED
  BY <1>4, <1>5 DEF Abstract!Init, Net, Inboxes

\* Every step of the driver is a step of the transport, or is not seen.
LEMMA StepRefines ==
  ASSUME DriverInv, DriverInv', PoolInv, HistoryInv, WastePast, Next
  PROVE  Abstract!Next \/ Unseen
<1>1. CASE Quiet
  BY <1>1, QuietUnseen
<1>2. ASSUME NEW n \in Nodes, EnqCommit(n)
      PROVE  Abstract!Next
  BY <1>2, CommitAccepts DEF Abstract!Next
<1>3. ASSUME NEW n \in Nodes, Poll(n), count[n] > 0
      PROVE  Unseen
  BY <1>3, PollUnseen DEF HistoryInv
<1>4. ASSUME NEW n \in Nodes, RxDeliver(n)
      PROVE  Abstract!Next
  BY <1>4, DeliverHandsOver DEF Abstract!Next
<1>5. ASSUME NEW n \in Nodes, Receive(n)
      PROVE  Abstract!Next
  BY <1>5, ReceiveReceives DEF Abstract!Next
<1>6. \/ Quiet
      \/ \E n \in Nodes : \/ EnqCommit(n) \/ (Poll(n) /\ count[n] > 0)
                          \/ RxDeliver(n) \/ Receive(n)
  <2>1. \A n \in Nodes : Poll(n) => count[n] > 0 \/ count[n] = 0
    BY DEF Poll
  <2>2. QED
    BY <2>1 DEF Next, Quiet, GetBuffer, Transmit, PollRing, RxData, Free
<1>7. QED
  BY <1>1, <1>2, <1>3, <1>4, <1>5, <1>6

\* The driver implements the transport: for every number of nodes, buffers and
\* descriptors it is one FIFO queue per destination and priority that loses,
\* repeats and reorders nothing and never holds more than NumBuffers messages.
THEOREM DriverImplementsTransport ==
  ASSUME NotifyMayFail = FALSE
  PROVE  Spec => ImplementsTransport
<1>1. Init /\ DriverInv => Abstract!Init
  BY InitRefines
<1>2. DriverInv /\ DriverInv' /\ PoolInv /\ HistoryInv /\ WastePast /\ [Next]_vars
        => [Abstract!Next]_(Abstract!vars)
  <2>1. ASSUME Unseen
        PROVE  UNCHANGED Abstract!vars
    BY <2>1 DEF Unseen, Abstract!vars, Net, Inboxes
  <2>2. ASSUME DriverInv, DriverInv', PoolInv, HistoryInv, WastePast, Next
        PROVE  [Abstract!Next]_(Abstract!vars)
    BY <2>1, <2>2, StepRefines
  <2>3. ASSUME UNCHANGED vars
        PROVE  Unseen
    <3>1. /\ content' = content /\ ring' = ring /\ get' = get /\ count' = count
          /\ rxQueue' = rxQueue /\ endpQueue' = endpQueue /\ pc' = pc
          /\ received' = received /\ discarded' = discarded
      BY <2>3 DEF vars, ringVars, nodeVars, threadVars, history
    <3>2. Net' = Net /\ Inboxes' = Inboxes
      BY <3>1 DEF Net, Inboxes, OnTheWay, Inbox, Contents, OfPriority, Queue, Pending, HeadTaken
    <3>3. QED
      BY <3>1, <3>2 DEF Unseen
  <2>4. QED
    BY <2>1, <2>2, <2>3
<1>3. QED
  BY <1>1, <1>2, DriverInvariant, PoolInvariant, HistoryInvariant, WasteInvariant,
     PTL DEF Spec, ImplementsTransport, Abstract!Spec
=============================================================================
