------------------------- MODULE GetEndpoint_proofs -------------------------
(***************************************************************************)
(* Proofs about finding endpoints, for every set of nodes, ports and calls *)
(* and every bound.  The lists of requests on the side of the caller and   *)
(* the foreign requests on the side of the server each have an invariant   *)
(* of their own; that nobody who waits is forgotten relates the two and    *)
(* the messages between them.                                              *)
(***************************************************************************)
EXTENDS GetEndpoint, FiniteSetTheorems, SequenceTheorems, WellFoundedInduction, TLAPS

-----------------------------------------------------------------------------
(* Queues of messages.                                                     *)

InQueue(q, m) == \E i \in DOMAIN q : q[i] = m

\* A message that is appended is added to those in the queue.
LEMMA QueueAppend ==
  ASSUME NEW S, NEW q \in Seq(S), NEW m \in S
  PROVE  /\ Append(q, m) \in Seq(S)
         /\ \A x : InQueue(Append(q, m), x) <=> InQueue(q, x) \/ x = m
<1>1. /\ Append(q, m) \in Seq(S)
      /\ Len(q) \in Nat /\ Len(Append(q, m)) = Len(q) + 1
      /\ \A i \in 1 .. Len(q) : Append(q, m)[i] = q[i]
      /\ Append(q, m)[Len(q) + 1] = m
  OBVIOUS
<1>2. DOMAIN q = 1 .. Len(q) /\ DOMAIN Append(q, m) = 1 .. Len(q) + 1
  BY <1>1
<1>3. ASSUME NEW x
      PROVE  InQueue(Append(q, m), x) <=> InQueue(q, x) \/ x = m
  <2> DEFINE a == Append(q, m)
  <2> HIDE DEF a
  <2>1. \A i \in 1 .. Len(q) + 1 : i \in 1 .. Len(q) \/ i = Len(q) + 1
    BY <1>1
  <2>2. Len(q) + 1 \in 1 .. Len(q) + 1 /\ \A i \in 1 .. Len(q) : i \in 1 .. Len(q) + 1
    BY <1>1
  <2>3. InQueue(a, x) <=> InQueue(q, x) \/ x = m
    BY <1>1, <1>2, <2>1, <2>2 DEF InQueue, a
  <2>4. QED
    BY <2>3 DEF a
<1>4. QED
  BY <1>1, <1>3

\* The first message is the one a queue loses when it is taken.
LEMMA QueueTail ==
  ASSUME NEW S, NEW q \in Seq(S), q # <<>>
  PROVE  /\ Tail(q) \in Seq(S) /\ Head(q) \in S
         /\ \A x : InQueue(q, x) => x = Head(q) \/ InQueue(Tail(q), x)
<1>1. /\ Tail(q) \in Seq(S) /\ Head(q) \in S
      /\ Len(q) \in Nat /\ Len(q) > 0 /\ Len(Tail(q)) = Len(q) - 1
      /\ \A i \in 1 .. Len(q) - 1 : Tail(q)[i] = q[i + 1]
      /\ Head(q) = q[1]
  OBVIOUS
<1>2. DOMAIN q = 1 .. Len(q) /\ DOMAIN Tail(q) = 1 .. Len(q) - 1
  BY <1>1
<1>3. ASSUME NEW x, InQueue(q, x), x # Head(q)
      PROVE  InQueue(Tail(q), x)
  <2>1. PICK i \in 1 .. Len(q) : q[i] = x
    BY <1>2, <1>3 DEF InQueue
  <2>2. i # 1
    BY <1>1, <1>3, <2>1
  <2>3. i - 1 \in 1 .. Len(q) - 1 /\ (i - 1) + 1 = i
    BY <1>1, <2>1, <2>2
  <2>4. Tail(q)[i - 1] = x
    BY <1>1, <2>1, <2>3
  <2>5. QED
    BY <1>2, <2>3, <2>4 DEF InQueue
<1>4. QED
  BY <1>1, <1>3

\* The messages of the protocol.  Cancellations are sent to a port nobody has.
Messages ==
  {Request(n, p) : n \in Nodes, p \in Ports}
    \cup {Response(n, p, "success") : n \in Nodes, p \in Ports}
    \cup {Response(n, ControlPort, "limit") : n \in Nodes}

Net == [Nodes -> Seq(Messages)]

\* A request asks for an endpoint; an answer is about one, or about none.
LEMMA MessageKinds ==
  ASSUME NEW m \in Messages
  PROVE  /\ m.from \in Nodes
         /\ m.type = "request" => m.port \in Ports /\ m = Request(m.from, m.port)
         /\ m.type = "response" =>
              /\ m.port # ControlPort => m = Response(m.from, m.port, "success")
              /\ m.result \in {"success", "limit"}
  BY DEF Messages, Request, Response

\* What is sent reaches the queue of a node that is up, and no other.
Sent(q, n, m) == IF up[n] = "up" THEN [q EXCEPT ![n] = Append(@, m)] ELSE q

\* Delivered, of one message to a control port, appends it once.
LEMMA SentOne ==
  ASSUME NEW q \in Net, NEW n \in Nodes, NEW m \in Messages
  PROVE  Delivered(q, n, ControlPort, m, 1) = Sent(q, n, m)
<1> DEFINE one == [i \in 1 .. 1 |-> m]
<1>1. q[n] \in Seq(Messages) /\ one \in Seq(Messages) /\ Len(one) = 1 /\ one[1] = m
  BY DEF Net
<1>2. /\ Append(q[n], m) \in Seq(Messages)
      /\ Len(q[n]) \in Nat /\ Len(Append(q[n], m)) = Len(q[n]) + 1
      /\ \A i \in 1 .. Len(q[n]) : Append(q[n], m)[i] = q[n][i]
      /\ Append(q[n], m)[Len(q[n]) + 1] = m
  BY <1>1
<1>3. q[n] \o one = Append(q[n], m)
  <2> HIDE DEF one
  <2>1. /\ q[n] \o one \in Seq(Messages)
        /\ Len(q[n] \o one) = Len(q[n]) + 1
        /\ \A i \in 1 .. Len(q[n]) + 1 :
             (q[n] \o one)[i] = IF i <= Len(q[n]) THEN q[n][i] ELSE one[i - Len(q[n])]
    <3>1. /\ q[n] \o one \in Seq(Messages)
          /\ Len(q[n] \o one) = Len(q[n]) + Len(one)
          /\ \A i \in 1 .. Len(q[n]) + Len(one) :
               (q[n] \o one)[i] = IF i <= Len(q[n]) THEN q[n][i] ELSE one[i - Len(q[n])]
      BY <1>1, ConcatProperties, Zenon
    <3>2. QED
      BY <1>1, <3>1
  <2>2. \A i \in 1 .. Len(q[n]) + 1 : (q[n] \o one)[i] = Append(q[n], m)[i]
    BY <1>1, <1>2, <2>1
  <2>3. QED
    BY <1>2, <2>1, <2>2
<1>4. QED
  BY <1>3 DEF Delivered, Sent

\* The cancellation reaches no one.
LEMMA NotSent ==
  ASSUME NEW q, NEW n, NEW m, NEW k
  PROVE  Delivered(q, n, 0, m, k) = q
  BY GetEndpointAssumption DEF Delivered

\* What a queue is after a message was sent to a node.
LEMMA SentTyped ==
  ASSUME NEW q \in Net, NEW n \in Nodes, NEW m \in Messages
  PROVE  /\ Sent(q, n, m) \in Net
         /\ up[n] = "up" => InQueue(Sent(q, n, m)[n], m)
         /\ \A c \in Nodes : \A x : InQueue(q[c], x) => InQueue(Sent(q, n, m)[c], x)
<1>1. q[n] \in Seq(Messages)
  BY DEF Net
<1>2. /\ Append(q[n], m) \in Seq(Messages)
      /\ \A x : InQueue(Append(q[n], m), x) <=> InQueue(q[n], x) \/ x = m
  BY <1>1, QueueAppend
<1>3. CASE up[n] = "up"
  <2>1. \A c \in Nodes : Sent(q, n, m)[c] = IF c = n THEN Append(q[n], m) ELSE q[c]
    BY <1>3 DEF Sent, Net
  <2>2. Sent(q, n, m) \in Net
    BY <1>2, <1>3 DEF Sent, Net
  <2>3. QED
    BY <1>2, <2>1, <2>2
<1>4. CASE up[n] # "up"
  BY <1>4 DEF Sent
<1>5. QED
  BY <1>3, <1>4

\* What the queues are after the control task of a node has taken a message.
LEMMA TakenTyped ==
  ASSUME net \in Net, NEW s \in Nodes, net[s] # <<>>
  PROVE  /\ Taken(s) \in Net /\ Head(net[s]) \in Messages
         /\ \A c \in Nodes : \A x : InQueue(net[c], x) =>
              InQueue(Taken(s)[c], x) \/ (c = s /\ x = Head(net[s]))
<1>1. net[s] \in Seq(Messages)
  BY DEF Net
<1>2. /\ Tail(net[s]) \in Seq(Messages) /\ Head(net[s]) \in Messages
      /\ \A x : InQueue(net[s], x) => x = Head(net[s]) \/ InQueue(Tail(net[s]), x)
  BY <1>1, QueueTail
<1>3. \A c \in Nodes : Taken(s)[c] = IF c = s THEN Tail(net[s]) ELSE net[c]
  BY DEF Taken, Net
<1>4. Taken(s) \in Net
  BY <1>2 DEF Taken, Net
<1>5. QED
  BY <1>2, <1>3, <1>4


-----------------------------------------------------------------------------
(* Types.                                                                  *)

Statuses == Results \cup {"unused", "retry", "pending", "limit"}

\* The variables keep to what the structures hold, and messages are of the protocol.
TypeInv == TypeOK /\ net \in Net

\* A request on the list of a node is one of its own that waits, for another node or
\* on the stack of its caller; and one that waits for another node is on the list.
ListInv ==
  \A r \in Requests :
    /\ \A c \in Nodes : r \in local[c] =>
         c = Caller[r] /\ status[r] = "pending" /\ (IsRemote(r) \/ r \in blocked)
    /\ IsRemote(r) /\ status[r] = "pending" => r \in local[Caller[r]]
    /\ status[r] = "retry" => IsRemote(r)

\* What is listed is in use, by one node for one port; a node that does not run lists
\* nothing, and one that has not been initialized has not used its pool.
ForeignInv ==
  /\ ForeignConsistent
  /\ \A s \in Nodes : /\ ~Running(s) => foreign[s] = {}
                      /\ up[s] = "off" => \A i \in Pool : struct[s][i] = Free

\* A set of natural numbers that is not empty has a least element.
LEMMA LeastExists ==
  ASSUME NEW S \in SUBSET Nat, S # {}
  PROVE  \E m \in S : \A k \in S : m <= k
<1> DEFINE T == {0 .. n : n \in S}
           R == StrictSubsetOrdering(Nat)
<1>1. T \subseteq FiniteSubsetsOf(Nat) /\ T # {}
  <2>1. ASSUME NEW n \in S PROVE 0 .. n \in FiniteSubsetsOf(Nat)
    BY FS_Interval DEF FiniteSubsetsOf
  <2>2. QED
    BY <2>1
<1>2. IsWellFoundedOn(R, FiniteSubsetsOf(Nat))
  BY FS_StrictSubsetOrderingWellFounded
<1>3. PICK x \in T : \A y \in T : ~ (<<y, x>> \in R)
  <2> HIDE DEF T, R
  <2>1. QED
    BY <1>1, <1>2, WFMin
<1>4. PICK m \in S : x = 0 .. m
  BY <1>3
<1>5. ASSUME NEW k \in S, k < m PROVE FALSE
  <2>1. 0 .. k \in T /\ <<0 .. k, 0 .. m>> \notin R
    BY <1>3, <1>4
  <2>2. 0 .. k \subseteq 0 .. m /\ m \in 0 .. m /\ m \notin 0 .. k
    BY <1>5
  <2>3. QED
    BY <2>1, <2>2 DEF StrictSubsetOrdering
<1>6. QED
  BY <1>5

\* The structure a new foreign request takes is a free one.
LEMMA FreeStructFree ==
  ASSUME NEW s \in Nodes, FreeStructs(s) # {}
  PROVE  FreeStruct(s) \in Pool /\ struct[s][FreeStruct(s)] = Free
<1>1. FreeStructs(s) \in SUBSET Nat
  BY DEF FreeStructs, Pool
<1>2. \E i \in FreeStructs(s) : \A j \in FreeStructs(s) : i <= j
  BY <1>1, LeastExists
<1>3. FreeStruct(s) \in FreeStructs(s)
  BY <1>2 DEF FreeStruct
<1>4. QED
  BY <1>3 DEF FreeStructs

\* Answers and errors end requests, and leave the types alone.
LEMMA ResumeTypes ==
  ASSUME TypeOK, NEW c \in Nodes, NEW s, NEW p, NEW result \in Statuses,
         ResumeAll(c, s, p, result)
  PROVE  /\ local' \in [Nodes -> SUBSET Requests] /\ status' \in [Requests -> Statuses]
         /\ blocked' \subseteq Requests
  BY DEF TypeOK, ResumeAll, Waiting, Statuses

\* Nothing is in use at first.
LEMMA TypeInit == Init => TypeInv
<1> SUFFICES ASSUME Init PROVE TypeInv
  OBVIOUS
<1>1. MaxFailures \in Nat /\ MaxDeletes \in Nat
  BY GetEndpointAssumption
<1>2. QED
  BY <1>1 DEF Init, TypeInv, TypeOK, Net, Results

\* A caller sends its request, or fails to.
LEMMA CallTypes ==
  ASSUME TypeInv, NEW r \in Requests, NEW blocks \in BOOLEAN, IsRemote(r),
         SendRequest(r) \/ RequestFails(r, blocks)
  PROVE  /\ local' \in [Nodes -> SUBSET Requests] /\ status' \in [Requests -> Statuses]
         /\ failures' \in 0 .. MaxFailures /\ net' \in Net
<1>1. /\ Caller[r] \in Nodes /\ Server[r] \in Nodes /\ PortOf[r] \in Ports
      /\ MaxFailures \in Nat
  BY GetEndpointAssumption
<1>2. Request(Caller[r], PortOf[r]) \in Messages
  BY <1>1 DEF Messages
<1>3. CASE SendRequest(r)
  <2>1. net' = Sent(net, Server[r], Request(Caller[r], PortOf[r]))
    BY <1>1, <1>2, <1>3, SentOne DEF SendRequest, TypeInv
  <2>2. net' \in Net
    BY <1>1, <1>2, <2>1, SentTyped DEF TypeInv
  <2>3. QED
    BY <1>1, <1>3, <2>2 DEF SendRequest, SetStatus, Enqueue, TypeInv, TypeOK, Statuses
<1>4. CASE RequestFails(r, blocks)
  <2>1. failures' \in 0 .. MaxFailures
    BY <1>1, <1>4 DEF RequestFails, SendFails, TypeInv, TypeOK
  <2>2. status' \in [Requests -> Statuses]
    BY <1>4 DEF RequestFails, SetStatus, TypeInv, TypeOK, Statuses, Results
  <2>3. QED
    BY <1>4, <2>1, <2>2 DEF RequestFails, TypeInv, TypeOK
<1>5. QED
  BY <1>3, <1>4

\* What the control task of s does about a request m, seen from the messages: it
\* answers, keeps quiet, or refuses.
LEMMA RequestTypes ==
  ASSUME TypeInv, NEW s \in Nodes, net[s] # <<>>, HandleRequest(s)
  PROVE  LET m == Head(net[s]) IN
         /\ m \in Messages /\ m.from \in Nodes /\ m.port \in Ports
         /\ m = Request(m.from, m.port)
         /\ Taken(s) \in Net /\ net' \in Net
         /\ failures' \in 0 .. MaxFailures /\ unanswered' \subseteq Requests
<1> DEFINE m == Head(net[s])
<1>1. /\ Taken(s) \in Net /\ m \in Messages
  BY TakenTyped DEF TypeInv
<1>2. m.from \in Nodes /\ m.port \in Ports /\ m = Request(m.from, m.port)
  BY <1>1, MessageKinds DEF HandleRequest
<1>3. \A p : Waiting(m.from, s, p) \subseteq Requests
  BY <1>2 DEF Waiting, TypeInv, TypeOK
<1>4. MaxFailures \in Nat
  BY GetEndpointAssumption
<1>5. CASE AnswerNow(s, m)
  <2>1. Response(s, m.port, "success") \in Messages
    BY <1>2 DEF Messages
  <2>2. net' \in {Taken(s), Sent(Taken(s), m.from, Response(s, m.port, "success"))}
    BY <1>1, <1>2, <1>5, <2>1, SentOne DEF AnswerNow
  <2>3. net' \in Net
    BY <1>1, <1>2, <2>1, <2>2, SentTyped
  <2>4. failures' \in 0 .. MaxFailures /\ unanswered' \subseteq Requests
    BY <1>3, <1>4, <1>5 DEF AnswerNow, SendFails, Forget, TypeInv, TypeOK
  <2>5. QED
    BY <1>1, <1>2, <2>3, <2>4
<1>6. CASE CountRequest(s, m) \/ ListRequest(s, m)
  BY <1>1, <1>2, <1>6 DEF CountRequest, ListRequest, TypeInv, TypeOK
<1>7. CASE RefuseRequest(s, m)
  <2>1. Response(s, ControlPort, "limit") \in Messages
    BY <1>2 DEF Messages
  <2>2. net' \in {Taken(s), Sent(Taken(s), m.from, Response(s, ControlPort, "limit"))}
    BY <1>1, <1>2, <1>7, <2>1, SentOne DEF RefuseRequest
  <2>3. net' \in Net
    BY <1>1, <1>2, <2>1, <2>2, SentTyped
  <2>4. failures' \in 0 .. MaxFailures /\ unanswered' \subseteq Requests
    BY <1>3, <1>4, <1>7 DEF RefuseRequest, SendFails, Forget, TypeInv, TypeOK
  <2>5. QED
    BY <1>1, <1>2, <2>3, <2>4
<1>8. QED
  BY <1>5, <1>6, <1>7 DEF HandleRequest

\* What it does about it, seen from the list of foreign requests.
LEMMA ListTypes ==
  ASSUME TypeInv, ForeignInv, NEW s \in Nodes, up[s] = "up", net[s] # <<>>, HandleRequest(s)
  PROVE  /\ struct' \in [Nodes -> [Pool -> Entries \cup {Free}]]
         /\ foreign' \in [Nodes -> SUBSET Pool]
<1> DEFINE m == Head(net[s])
<1>1. m.from \in Nodes /\ m.port \in Ports
  BY RequestTypes
<1>2. struct \in [Nodes -> [Pool -> Entries \cup {Free}]] /\ foreign \in [Nodes -> SUBSET Pool]
  BY DEF TypeInv, TypeOK
<1>3. CASE AnswerNow(s, m) \/ RefuseRequest(s, m)
  BY <1>2, <1>3 DEF AnswerNow, RefuseRequest
<1>4. CASE CountRequest(s, m)
  <2>1. PICK i \in EntryOf(s, m.port, m.from) : struct' = [struct EXCEPT ![s][i].count = @ + 1]
    BY <1>4 DEF CountRequest
  <2>2. i \in Pool /\ struct[s][i] \in Entries
    BY <1>2, <2>1 DEF EntryOf, ListedFor, ForeignInv, ForeignConsistent, Running
  <2>3. [struct[s][i] EXCEPT !.count = @ + 1] \in Entries
    BY <2>2 DEF Entries
  <2>4. struct' = [struct EXCEPT ![s] = [@ EXCEPT ![i] = [struct[s][i] EXCEPT !.count = @ + 1]]]
    BY <1>2, <2>1, <2>2
  <2>5. foreign' = foreign
    BY <1>4 DEF CountRequest
  <2>6. QED
    BY <1>2, <2>2, <2>3, <2>4, <2>5
<1>5. CASE ListRequest(s, m)
  <2>1. FreeStruct(s) \in Pool
    BY <1>5, FreeStructFree DEF ListRequest
  <2>2. Entry(m.port, m.from, 1) \in Entries
    BY <1>1 DEF Entry, Entries
  <2>3. QED
    BY <1>2, <1>5, <2>1, <2>2 DEF ListRequest
<1>6. QED
  BY <1>3, <1>4, <1>5 DEF HandleRequest

\* Those that a new endpoint is announced to are finitely many.
LEMMA ListedFinite ==
  ASSUME TypeInv, NEW s \in Nodes, NEW p
  PROVE  IsFiniteSet({struct[s][i].from : i \in ListedFor(s, p)})
<1> DEFINE S == ListedFor(s, p)
           N == {struct[s][i].from : i \in S}
           f == [i \in S |-> struct[s][i].from]
<1>1. IsFiniteSet(S)
  <2>1. S \in SUBSET (1 .. PoolSize) /\ PoolSize \in Int /\ 1 \in Int
    BY GetEndpointAssumption DEF TypeInv, TypeOK, ListedFor, Pool
  <2>2. IsFiniteSet(1 .. PoolSize)
    BY <2>1, FS_Interval
  <2>3. QED
    BY <2>1, <2>2, FS_Subset
<1>2. f \in Surjection(S, N)
  BY DEF Surjection
<1>3. QED
  BY <1>1, <1>2, FS_Surjection

\* A new endpoint answers who is listed and resumes who waits here.
LEMMA CreateTypes ==
  ASSUME TypeInv, ForeignInv, NEW s \in Nodes, NEW p \in Ports, Create(s, p)
  PROVE  TypeInv'
<1> DEFINE S == ListedFor(s, p)
           nodes == {struct[s][i].from : i \in S}
           reachable == {n \in nodes : MaySend(s, n)}
<1>1. PICK told \in SUBSET reachable :
        /\ failures' = failures + Cardinality(reachable \ told)
        /\ failures' <= MaxFailures
        /\ net' = [n \in Nodes |-> IF n \in told /\ up[n] = "up"
                                  THEN Append(net[n], Response(s, p, "success")) ELSE net[n]]
        /\ unanswered' = unanswered \cup UNION {Waiting(n, s, p) : n \in nodes \ told}
  BY DEF Create, Forget
<1>2. failures' \in 0 .. MaxFailures
  <2>1. IsFiniteSet(reachable \ told)
    BY ListedFinite, FS_Subset
  <2>2. Cardinality(reachable \ told) \in Nat
    BY <2>1, FS_CardinalityType
  <2>3. failures \in Nat /\ MaxFailures \in Nat
    BY GetEndpointAssumption DEF TypeInv, TypeOK
  <2>4. QED
    BY <1>1, <2>2, <2>3
<1>3. net' \in Net
  <2>1. Response(s, p, "success") \in Messages
    BY DEF Messages
  <2>2. \A n \in Nodes : Append(net[n], Response(s, p, "success")) \in Seq(Messages)
    BY <2>1, QueueAppend DEF TypeInv, Net
  <2>3. QED
    BY <1>1, <2>2 DEF TypeInv, Net
<1>4. unanswered' \subseteq Requests
  <2>1. \A i \in S : struct[s][i] \in Entries
    BY DEF Create, ListedFor, ForeignInv, ForeignConsistent, TypeInv, TypeOK
  <2>2. nodes \subseteq Nodes
    BY <2>1 DEF Entries
  <2>3. \A n \in nodes : Waiting(n, s, p) \subseteq Requests
    BY <2>2 DEF Waiting, TypeInv, TypeOK
  <2>4. QED
    BY <1>1, <2>3 DEF TypeInv, TypeOK
<1>5. /\ local' \in [Nodes -> SUBSET Requests] /\ status' \in [Requests -> Statuses]
      /\ blocked' \subseteq Requests
  BY ResumeTypes DEF Create, TypeInv, Statuses, Results
<1>6. /\ struct' \in [Nodes -> [Pool -> Entries \cup {Free}]]
      /\ foreign' \in [Nodes -> SUBSET Pool]
  <2>1. struct \in [Nodes -> [Pool -> Entries \cup {Free}]] /\ foreign \in [Nodes -> SUBSET Pool]
    BY DEF TypeInv, TypeOK
  <2>2. Release(s, S)
    BY DEF Create
  <2>3. QED
    BY <2>1, <2>2 DEF Release
<1>7. open' \in [Nodes -> SUBSET Ports] /\ up' = up /\ deletes' = deletes
  BY DEF Create, TypeInv, TypeOK
<1>8. QED
  BY <1>2, <1>3, <1>4, <1>5, <1>6, <1>7 DEF TypeInv, TypeOK, Statuses

\* Every step writes what the variables may hold.
LEMMA TypeStep ==
  ASSUME TypeInv, ListInv, ForeignInv, Next
  PROVE  TypeInv'
<1> USE DEF clients, servers, bounds
<1>0. MaxDeletes \in Nat
  BY GetEndpointAssumption
<1>1. ASSUME NEW n \in Nodes, Initialize(n) PROVE TypeInv'
  BY <1>1 DEF Initialize, TypeInv, TypeOK
<1>2. ASSUME NEW n \in Nodes, ControlTask(n), HandleRequest(n) PROVE TypeInv'
  <2>1. /\ net' \in Net /\ failures' \in 0 .. MaxFailures /\ unanswered' \subseteq Requests
        /\ struct' \in [Nodes -> [Pool -> Entries \cup {Free}]]
        /\ foreign' \in [Nodes -> SUBSET Pool]
    BY <1>2, RequestTypes, ListTypes DEF ControlTask
  <2>2. QED
    BY <1>2, <2>1 DEF HandleRequest, TypeInv, TypeOK
<1>3. ASSUME NEW n \in Nodes, ControlTask(n), HandleResponse(n) PROVE TypeInv'
  <2>1. Taken(n) \in Net /\ Head(net[n]) \in Messages
    BY <1>3, TakenTyped DEF ControlTask, TypeInv
  <2>2. Head(net[n]).result \in Statuses
    BY <1>3, <2>1, MessageKinds DEF HandleResponse, Statuses, Results
  <2>3. /\ local' \in [Nodes -> SUBSET Requests] /\ status' \in [Requests -> Statuses]
        /\ blocked' \subseteq Requests
    BY <1>3, <2>2, ResumeTypes DEF HandleResponse, TypeInv
  <2>4. QED
    BY <1>3, <2>1, <2>3 DEF HandleResponse, TypeInv, TypeOK, Statuses
<1>4. ASSUME NEW n \in Nodes, BeginFinalize(n) PROVE TypeInv'
  <2>1. net' \in Net
    BY <1>4 DEF BeginFinalize, TypeInv, Net
  <2>2. QED
    BY <1>4, <2>1 DEF BeginFinalize, TypeInv, TypeOK
<1>5. ASSUME NEW n \in Nodes, EndFinalize(n) PROVE TypeInv'
  BY <1>5 DEF EndFinalize, TypeInv, TypeOK, Results
<1>6. ASSUME NEW r \in Requests, NEW blocks \in BOOLEAN, GetRemote(r, blocks) PROVE TypeInv'
  <2>1. /\ local' \in [Nodes -> SUBSET Requests] /\ status' \in [Requests -> Statuses]
        /\ failures' \in 0 .. MaxFailures /\ net' \in Net
    BY <1>6, CallTypes DEF GetRemote
  <2>2. blocked' \subseteq Requests
    BY <1>6 DEF GetRemote, Enter, TypeInv, TypeOK
  <2>3. QED
    BY <1>6, <2>1, <2>2 DEF GetRemote, TypeInv, TypeOK, Statuses
<1>7. ASSUME NEW r \in Requests, IsRemote(r), Retry(r) PROVE TypeInv'
  <2>1. /\ local' \in [Nodes -> SUBSET Requests] /\ status' \in [Requests -> Statuses]
        /\ failures' \in 0 .. MaxFailures /\ net' \in Net
    BY <1>7, CallTypes DEF Retry
  <2>2. QED
    BY <1>7, <2>1 DEF Retry, TypeInv, TypeOK, Statuses
<1>8. ASSUME NEW r \in Requests, NEW blocks \in BOOLEAN, GetLocal(r, blocks) PROVE TypeInv'
  <2>1. Caller[r] \in Nodes
    BY GetEndpointAssumption
  <2>2. status' \in [Requests -> Statuses]
    BY <1>8 DEF GetLocal, SetStatus, TypeInv, TypeOK, Statuses, Results
  <2>3. blocked' \subseteq Requests /\ local' \in [Nodes -> SUBSET Requests]
    BY <1>8, <2>1 DEF GetLocal, Enter, Enqueue, TypeInv, TypeOK
  <2>4. QED
    BY <1>8, <2>2, <2>3 DEF GetLocal, TypeInv, TypeOK, Statuses
<1>9. ASSUME NEW r \in Requests, TestLocal(r) PROVE TypeInv'
  BY <1>9 DEF TestLocal, SetStatus, TypeInv, TypeOK, Results
<1>10. ASSUME NEW r \in Requests, Cancel(r) PROVE TypeInv'
  <2>1. Caller[r] \in Nodes /\ "cancelled" \in Statuses
    BY GetEndpointAssumption DEF Statuses, Results
  <2>2. net' = net
    BY <1>10, NotSent DEF Cancel, CancelTo
  <2>3. CASE ResumeAll(Caller[r], Server[r], PortOf[r], "cancelled")
    <3>1. /\ local' \in [Nodes -> SUBSET Requests] /\ status' \in [Requests -> Statuses]
          /\ blocked' \subseteq Requests
      BY <2>1, <2>3, ResumeTypes DEF TypeInv
    <3>2. QED
      BY <1>10, <2>2, <3>1 DEF Cancel, TypeInv, TypeOK, Statuses
  <2>4. CASE SetStatus(r, "cancelled") /\ UNCHANGED <<local, blocked>>
    BY <1>10, <2>2, <2>4 DEF Cancel, SetStatus, TypeInv, TypeOK, Results
  <2>5. QED
    BY <1>10, <2>3, <2>4 DEF Cancel
<1>11. ASSUME NEW n \in Nodes, NEW p \in Ports, Delete(n, p) PROVE TypeInv'
  BY <1>0, <1>11 DEF Delete, TypeInv, TypeOK
<1>12. ASSUME NEW r \in Requests, Retry(r) PROVE IsRemote(r)
  BY <1>12 DEF Retry, ListInv
<1>13. QED
  BY <1>1, <1>2, <1>3, <1>4, <1>5, <1>6, <1>7, <1>8, <1>9, <1>10, <1>11, <1>12, CreateTypes
     DEF Next, ControlTask

-----------------------------------------------------------------------------
(* The callers.                                                            *)

\* Answers take the requests they end off the list, and touch no other.
LEMMA ResumeList ==
  ASSUME TypeInv, ListInv, NEW c \in Nodes, NEW s, NEW p,
         NEW result, result \notin {"pending", "retry"}, ResumeAll(c, s, p, result)
  PROVE  ListInv'
<1>1. /\ \A r \in Requests : status'[r] = IF r \in Waiting(c, s, p) THEN result ELSE status[r]
      /\ \A d \in Nodes : local'[d] = IF d = c THEN local[c] \ Waiting(c, s, p) ELSE local[d]
      /\ blocked' = blocked
  BY DEF ResumeAll, TypeInv, TypeOK
<1>2. \A r \in Waiting(c, s, p) : r \in local[c]
  BY DEF Waiting
<1>3. \A r \in Requests : Caller[r] \in Nodes
  BY GetEndpointAssumption
<1>4. QED
  BY <1>1, <1>2, <1>3 DEF ListInv

\* A caller's request joins the list when it is sent, and only then.
LEMMA CallList ==
  ASSUME TypeInv, ListInv, NEW r \in Requests, NEW blocks \in BOOLEAN, IsRemote(r),
         status[r] \in {"unused", "retry"}, blocked \subseteq blocked',
         SendRequest(r) \/ RequestFails(r, blocks)
  PROVE  ListInv'
<1>1. Caller[r] \in Nodes
  BY GetEndpointAssumption
<1>2. CASE SendRequest(r)
  <2>1. /\ \A q \in Requests : status'[q] = IF q = r THEN "pending" ELSE status[q]
        /\ \A d \in Nodes : local'[d] = IF d = Caller[r] THEN local[d] \cup {r} ELSE local[d]
    BY <1>1, <1>2 DEF SendRequest, SetStatus, Enqueue, TypeInv, TypeOK
  <2>2. \A q \in Requests : Caller[q] \in Nodes
    BY GetEndpointAssumption
  <2>3. ASSUME NEW q \in Requests, NEW d \in Nodes, q \in local'[d]
        PROVE  /\ d = Caller[q] /\ status'[q] = "pending"
               /\ IsRemote(q) \/ q \in blocked'
    <3>1. CASE q = r
      <4>1. d = Caller[r]
        BY <2>1, <2>3, <3>1 DEF ListInv
      <4>2. QED
        BY <2>1, <3>1, <4>1
    <3>2. CASE q # r
      <4>1. q \in local[d]
        BY <2>1, <2>3, <3>2
      <4>2. d = Caller[q] /\ status[q] = "pending" /\ (IsRemote(q) \/ q \in blocked)
        BY <4>1 DEF ListInv
      <4>3. QED
        BY <2>1, <3>2, <4>2
    <3>3. QED
      BY <3>1, <3>2
  <2>4. ASSUME NEW q \in Requests
        PROVE  /\ IsRemote(q) /\ status'[q] = "pending" => q \in local'[Caller[q]]
               /\ status'[q] = "retry" => IsRemote(q)
    BY <2>1, <2>2 DEF ListInv
  <2>5. QED
    BY <2>3, <2>4 DEF ListInv, IsRemote
<1>3. CASE RequestFails(r, blocks)
  <2>1. local' = local /\ \A q \in Requests :
          q # r => status'[q] = status[q]
    BY <1>3 DEF RequestFails, SetStatus, TypeInv, TypeOK
  <2>2. status'[r] \in {"retry", "failed"}
    BY <1>3 DEF RequestFails, SetStatus, TypeInv, TypeOK
  <2>3. \A c \in Nodes : r \notin local[c]
    BY DEF ListInv
  <2>4. QED
    BY <2>1, <2>2, <2>3 DEF ListInv, IsRemote
<1>4. QED
  BY <1>2, <1>3

\* Every step keeps the lists and the states of the requests together.
LEMMA ListStep ==
  ASSUME TypeInv, ListInv, Next
  PROVE  ListInv'
<1> USE DEF clients
<1>1. CASE UNCHANGED clients
  BY <1>1 DEF ListInv
<1>2. ASSUME NEW n \in Nodes, ControlTask(n) PROVE ListInv'
  <2>1. CASE HandleRequest(n)
    BY <1>1, <2>1 DEF HandleRequest
  <2>2. CASE HandleResponse(n)
    <3>1. Head(net[n]) \in Messages
      BY <1>2, TakenTyped DEF ControlTask, TypeInv
    <3>2. Head(net[n]).result \notin {"pending", "retry"}
      BY <2>2, <3>1, MessageKinds DEF HandleResponse
    <3>3. QED
      BY <2>2, <3>2, ResumeList DEF HandleResponse
  <2>3. QED
    BY <1>2, <2>1, <2>2 DEF ControlTask
<1>3. ASSUME NEW n \in Nodes, EndFinalize(n) PROVE ListInv'
  <2>1. /\ \A r \in Requests : status'[r] = IF r \in local[n] THEN "cancelled" ELSE status[r]
        /\ \A d \in Nodes : local'[d] = IF d = n THEN {} ELSE local[d]
        /\ blocked' = blocked
    BY <1>3 DEF EndFinalize, TypeInv, TypeOK
  <2>2. \A q \in Requests : Caller[q] \in Nodes
    BY GetEndpointAssumption
  <2>3. QED
    BY <2>1, <2>2 DEF ListInv
<1>4. ASSUME NEW r \in Requests, NEW blocks \in BOOLEAN, GetRemote(r, blocks) PROVE ListInv'
  BY <1>4, CallList DEF GetRemote, Enter
<1>5. ASSUME NEW r \in Requests, Retry(r) PROVE ListInv'
  BY <1>5, CallList DEF Retry, ListInv
<1>6. ASSUME NEW r \in Requests, NEW blocks \in BOOLEAN, GetLocal(r, blocks) PROVE ListInv'
  <2>1. /\ \A q \in Requests : q # r => status'[q] = status[q]
        /\ status[r] = "unused" /\ status'[r] \in {"success", "pending"}
    BY <1>6 DEF GetLocal, Enter, SetStatus, TypeInv, TypeOK
  <2>2. /\ blocked' = IF blocks THEN blocked \cup {r} ELSE blocked
        /\ ~IsRemote(r) /\ Caller[r] \in Nodes
    BY <1>6, GetEndpointAssumption DEF GetLocal, Enter
  <2>3. \A q \in Requests : Caller[q] \in Nodes
    BY GetEndpointAssumption
  <2>4. CASE blocks /\ PortOf[r] \notin open[Caller[r]]
    <3>1. \A d \in Nodes : local'[d] = IF d = Caller[r] THEN local[d] \cup {r} ELSE local[d]
      BY <1>6, <2>2, <2>4 DEF GetLocal, Enqueue, TypeInv, TypeOK
    <3>2. status'[r] = "pending"
      BY <1>6, <2>4 DEF GetLocal, SetStatus, TypeInv, TypeOK
    <3>3. ASSUME NEW q \in Requests, NEW d \in Nodes, q \in local'[d]
          PROVE  /\ d = Caller[q] /\ status'[q] = "pending"
                 /\ IsRemote(q) \/ q \in blocked'
      <4>1. CASE q = r
        <5>1. d = Caller[r]
          BY <2>1, <3>1, <3>3, <4>1 DEF ListInv
        <5>2. QED
          BY <2>2, <2>4, <3>2, <4>1, <5>1
      <4>2. CASE q # r
        <5>1. q \in local[d]
          BY <3>1, <3>3, <4>2
        <5>2. d = Caller[q] /\ status[q] = "pending" /\ (IsRemote(q) \/ q \in blocked)
          BY <5>1 DEF ListInv
        <5>3. QED
          BY <2>1, <2>2, <4>2, <5>2
      <4>3. QED
        BY <4>1, <4>2
    <3>4. ASSUME NEW q \in Requests
          PROVE  /\ IsRemote(q) /\ status'[q] = "pending" => q \in local'[Caller[q]]
                 /\ status'[q] = "retry" => IsRemote(q)
      BY <2>1, <2>2, <2>3, <3>1 DEF ListInv
    <3>5. QED
      BY <3>3, <3>4 DEF ListInv, IsRemote
  <2>5. CASE ~ (blocks /\ PortOf[r] \notin open[Caller[r]])
    <3>1. local' = local
      BY <1>6, <2>5 DEF GetLocal
    <3>2. QED
      BY <2>1, <2>2, <2>3, <3>1 DEF ListInv
  <2>6. QED
    BY <2>4, <2>5
<1>7. ASSUME NEW r \in Requests, TestLocal(r) PROVE ListInv'
  <2>1. /\ \A q \in Requests : status'[q] = IF q = r THEN "success" ELSE status[q]
        /\ ~IsRemote(r) /\ r \notin blocked /\ local' = local /\ blocked' = blocked
    BY <1>7 DEF TestLocal, SetStatus, TypeInv, TypeOK
  <2>2. QED
    BY <2>1 DEF ListInv
<1>8. ASSUME NEW r \in Requests, Cancel(r) PROVE ListInv'
  <2>1. Caller[r] \in Nodes
    BY GetEndpointAssumption
  <2>2. CASE ResumeAll(Caller[r], Server[r], PortOf[r], "cancelled")
    BY <2>1, <2>2, ResumeList
  <2>3. CASE /\ Waiting(Caller[r], Server[r], PortOf[r]) = {}
             /\ SetStatus(r, "cancelled") /\ UNCHANGED <<local, blocked>>
    <3>1. r \notin local[Caller[r]]
      BY <2>3 DEF Waiting
    <3>2. \A q \in Requests : status'[q] = IF q = r THEN "cancelled" ELSE status[q]
      BY <2>3 DEF SetStatus, TypeInv, TypeOK
    <3>3. QED
      BY <2>3, <3>1, <3>2 DEF ListInv
  <2>4. QED
    BY <1>8, <2>2, <2>3 DEF Cancel
<1>9. ASSUME NEW n \in Nodes, NEW p \in Ports, Create(n, p) PROVE ListInv'
  BY <1>9, ResumeList DEF Create
<1>10. ASSUME NEW n \in Nodes, Initialize(n) \/ BeginFinalize(n) PROVE ListInv'
  BY <1>1, <1>10 DEF Initialize, BeginFinalize
<1>11. ASSUME NEW n \in Nodes, NEW p \in Ports, Delete(n, p) PROVE ListInv'
  BY <1>1, <1>11 DEF Delete
<1>12. QED
  BY <1>2, <1>3, <1>4, <1>5, <1>6, <1>7, <1>8, <1>9, <1>10, <1>11 DEF Next

\* No step changes the result of a request that has one.
LEMMA ResultKept ==
  ASSUME TypeInv, ListInv, Next, NEW r \in Requests, status[r] \in Results
  PROVE  status'[r] = status[r]
<1> USE DEF clients, Results
<1>1. \A c \in Nodes : r \notin local[c]
  BY DEF ListInv
<1>2. ASSUME NEW c \in Nodes, NEW s, NEW p, NEW result, ResumeAll(c, s, p, result)
      PROVE  status'[r] = status[r]
  BY <1>1, <1>2 DEF ResumeAll, Waiting
<1>3. ASSUME NEW q \in Requests, NEW result, SetStatus(q, result), status[q] \notin Results
      PROVE  status'[r] = status[r]
  BY <1>3 DEF SetStatus, TypeInv, TypeOK
<1>4. \A q \in Requests : Caller[q] \in Nodes
  BY GetEndpointAssumption
<1>5. ASSUME NEW n \in Nodes, Initialize(n) \/ BeginFinalize(n) PROVE status'[r] = status[r]
  BY <1>5 DEF Initialize, BeginFinalize
<1>6. ASSUME NEW n \in Nodes, ControlTask(n) PROVE status'[r] = status[r]
  BY <1>2, <1>6 DEF ControlTask, HandleRequest, HandleResponse
<1>7. ASSUME NEW n \in Nodes, EndFinalize(n) PROVE status'[r] = status[r]
  BY <1>1, <1>7 DEF EndFinalize
<1>8. ASSUME NEW q \in Requests, NEW blocks \in BOOLEAN, GetRemote(q, blocks) \/ Retry(q)
      PROVE  status'[r] = status[r]
  <2>1. status[q] \notin Results
    BY <1>8 DEF GetRemote, Retry, Enter
  <2>2. \E result \in Statuses : SetStatus(q, result)
    BY <1>8 DEF GetRemote, Retry, SendRequest, RequestFails, Statuses
  <2>3. QED
    BY <1>3, <2>1, <2>2
<1>9. ASSUME NEW q \in Requests, NEW blocks \in BOOLEAN, GetLocal(q, blocks)
      PROVE  status'[r] = status[r]
  BY <1>3, <1>9 DEF GetLocal, Enter
<1>10. ASSUME NEW q \in Requests, TestLocal(q) PROVE status'[r] = status[r]
  BY <1>3, <1>10 DEF TestLocal
<1>11. ASSUME NEW q \in Requests, Cancel(q) PROVE status'[r] = status[r]
  BY <1>2, <1>3, <1>4, <1>11 DEF Cancel
<1>12. ASSUME NEW n \in Nodes, NEW p \in Ports, Create(n, p) \/ Delete(n, p)
       PROVE  status'[r] = status[r]
  BY <1>2, <1>12 DEF Create, Delete
<1>13. QED
  BY <1>5, <1>6, <1>7, <1>8, <1>9, <1>10, <1>11, <1>12 DEF Next

-----------------------------------------------------------------------------
(* The other node.                                                         *)

\* The same of one node.
ForeignAt(s) ==
  /\ \A i, j \in foreign[s] :
       /\ struct[s][i].port \notin open[s]
       /\ struct[s][i].port = struct[s][j].port /\ struct[s][i].from = struct[s][j].from
            => i = j
  /\ Running(s) => foreign[s] = {i \in Pool : struct[s][i] # Free}
  /\ ~Running(s) => foreign[s] = {}
  /\ up[s] = "off" => \A i \in Pool : struct[s][i] = Free

\* The invariant is that of every node.
LEMMA ForeignParts == ForeignInv <=> \A s \in Nodes : ForeignAt(s)
  BY DEF ForeignInv, ForeignConsistent, ForeignAt

\* A node whose endpoints and structures stay the same has nothing to answer for.
LEMMA ForeignSame ==
  ASSUME NEW s \in Nodes, ForeignAt(s), up'[s] = up[s], open'[s] = open[s],
         struct'[s] = struct[s], foreign'[s] = foreign[s]
  PROVE  ForeignAt(s)'
  BY DEF ForeignAt, Running

\* A request is listed, or counted where its node is listed already.
LEMMA ForeignRequest ==
  ASSUME TypeInv, ForeignInv, NEW s \in Nodes, up[s] = "up", net[s] # <<>>, HandleRequest(s)
  PROVE  ForeignInv'
<1> DEFINE m == Head(net[s])
<1>1. m.from \in Nodes /\ m.port \in Ports
  BY RequestTypes
<1>2. \A n \in Nodes : ForeignAt(n)
  BY ForeignParts
<1>3. /\ struct \in [Nodes -> [Pool -> Entries \cup {Free}]] /\ foreign \in [Nodes -> SUBSET Pool]
      /\ up' = up /\ open' = open /\ Free \notin Entries
  BY GetEndpointAssumption DEF TypeInv, TypeOK, HandleRequest, Entries
<1>4. foreign[s] = {i \in Pool : struct[s][i] # Free}
  BY <1>2 DEF ForeignAt, Running
<1>5. CASE AnswerNow(s, m) \/ RefuseRequest(s, m)
  BY <1>3, <1>5 DEF AnswerNow, RefuseRequest, ForeignInv, ForeignConsistent, Running
<1>6. CASE CountRequest(s, m)
  <2>1. PICK i \in EntryOf(s, m.port, m.from) : struct' = [struct EXCEPT ![s][i].count = @ + 1]
    BY <1>6 DEF CountRequest
  <2>2. i \in Pool /\ i \in foreign[s] /\ foreign' = foreign
    BY <1>3, <1>6, <2>1 DEF EntryOf, ListedFor, CountRequest
  <2>3. struct[s][i] \in Entries /\ [struct[s][i] EXCEPT !.count = @ + 1] \in Entries
    BY <1>3, <1>4, <2>2 DEF Entries
  <2>4. /\ struct'[s][i] = [struct[s][i] EXCEPT !.count = @ + 1]
        /\ \A j \in Pool : j # i => struct'[s][j] = struct[s][j]
        /\ \A n \in Nodes : n # s => struct'[n] = struct[n]
    BY <1>3, <2>1, <2>2
  <2>5. \A j \in Pool : /\ struct'[s][j] # Free <=> struct[s][j] # Free
                        /\ struct[s][j] # Free => /\ struct'[s][j].port = struct[s][j].port
                                                  /\ struct'[s][j].from = struct[s][j].from
    <3>1. /\ struct'[s][i].port = struct[s][i].port /\ struct'[s][i].from = struct[s][i].from
          /\ struct'[s][i] # Free /\ struct[s][i] # Free
      BY <1>3, <2>3, <2>4 DEF Entries
    <3>2. QED
      BY <2>4, <3>1
  <2>6. ForeignAt(s)'
    BY <1>2, <1>3, <1>4, <2>2, <2>5 DEF ForeignAt, Running
  <2>7. ASSUME NEW n \in Nodes, n # s PROVE ForeignAt(n)'
    BY <1>2, <1>3, <2>2, <2>4, <2>7, ForeignSame
  <2>8. \A n \in Nodes : ForeignAt(n)'
    BY <2>6, <2>7
  <2>9. QED
    BY <2>8 DEF ForeignInv, ForeignConsistent, ForeignAt
<1>7. CASE ListRequest(s, m)
  <2>1. PICK i \in Pool : i = FreeStruct(s) /\ struct[s][i] = Free
    BY <1>7, FreeStructFree DEF ListRequest
  <2>2. PICK e \in Entries : e = Entry(m.port, m.from, 1) /\ e.port = m.port /\ e.from = m.from
    <3>1. /\ Entry(m.port, m.from, 1) \in Entries
          /\ Entry(m.port, m.from, 1).port = m.port /\ Entry(m.port, m.from, 1).from = m.from
      BY <1>1 DEF Entry, Entries
    <3>2. QED
      BY <3>1
  <2>3. /\ \A j \in Pool : struct'[s][j] = IF j = i THEN e ELSE struct[s][j]
        /\ \A n \in Nodes : n # s => struct'[n] = struct[n] /\ foreign'[n] = foreign[n]
        /\ foreign'[s] = foreign[s] \cup {i}
    BY <1>3, <1>7, <2>1, <2>2 DEF ListRequest
  <2>4. /\ m.port \notin open[s]
        /\ \A j \in foreign[s] : ~ (struct[s][j].port = m.port /\ struct[s][j].from = m.from)
    BY <1>7 DEF ListRequest, EntryOf, ListedFor
  <2>5. foreign'[s] = {j \in Pool : struct'[s][j] # Free}
    BY <1>3, <1>4, <2>2, <2>3
  <2>6. i \notin foreign[s] /\ foreign[s] \subseteq Pool
    BY <1>4, <2>1
  <2>7. ASSUME NEW j \in foreign'[s], NEW k \in foreign'[s]
        PROVE  /\ struct'[s][j].port \notin open'[s]
               /\ struct'[s][j].port = struct'[s][k].port /\ struct'[s][j].from = struct'[s][k].from
                    => j = k
    <3>1. ForeignAt(s)
      BY <1>2
    <3>2. CASE j = i /\ k = i
      BY <1>3, <2>2, <2>3, <2>4, <3>2
    <3>3. CASE j = i /\ k # i
      BY <1>3, <2>2, <2>3, <2>4, <2>6, <2>7, <3>3
    <3>4. CASE j # i /\ k = i
      BY <1>3, <2>2, <2>3, <2>4, <2>6, <2>7, <3>1, <3>4 DEF ForeignAt
    <3>5. CASE j # i /\ k # i
      BY <1>3, <2>3, <2>6, <2>7, <3>1, <3>5 DEF ForeignAt
    <3>6. QED
      BY <3>2, <3>3, <3>4, <3>5
  <2>8. ForeignAt(s)'
    BY <1>3, <2>5, <2>7 DEF ForeignAt, Running
  <2>9. ASSUME NEW n \in Nodes, n # s PROVE ForeignAt(n)'
    BY <1>2, <1>3, <2>3, <2>9, ForeignSame
  <2>10. \A n \in Nodes : ForeignAt(n)'
    BY <2>8, <2>9
  <2>11. QED
    BY <2>10 DEF ForeignInv, ForeignConsistent, ForeignAt
<1>8. QED
  BY <1>5, <1>6, <1>7 DEF HandleRequest

\* The requests for a new endpoint leave the list and the pool.
LEMMA ForeignCreate ==
  ASSUME TypeInv, ForeignInv, NEW s \in Nodes, NEW p \in Ports, Create(s, p)
  PROVE  ForeignInv'
<1>1. \A n \in Nodes : ForeignAt(n)
  BY ForeignParts
<1>2. PICK S \in SUBSET Pool : S = ListedFor(s, p)
  BY DEF ListedFor, TypeInv, TypeOK
<1>3. /\ \A j \in Pool : struct'[s][j] = IF j \in S THEN Free ELSE struct[s][j]
      /\ foreign'[s] = foreign[s] \ S
      /\ \A n \in Nodes : n # s => struct'[n] = struct[n] /\ foreign'[n] = foreign[n]
  BY <1>2 DEF Create, Release, TypeInv, TypeOK
<1>4. /\ up' = up /\ open'[s] = open[s] \cup {p} /\ Running(s)
      /\ \A n \in Nodes : n # s => open'[n] = open[n]
  BY DEF Create, TypeInv, TypeOK
<1>5. foreign[s] = {j \in Pool : struct[s][j] # Free}
  BY <1>1, <1>4 DEF ForeignAt
<1>6. \A j \in foreign[s] : j \in S <=> struct[s][j].port = p
  BY <1>2 DEF ListedFor
<1>7. foreign'[s] = {j \in Pool : struct'[s][j] # Free}
  BY <1>3, <1>5
<1>8. ASSUME NEW j \in foreign'[s], NEW k \in foreign'[s]
      PROVE  /\ struct'[s][j].port \notin open'[s]
             /\ struct'[s][j].port = struct'[s][k].port /\ struct'[s][j].from = struct'[s][k].from
                  => j = k
  <2>1. j \in foreign[s] /\ k \in foreign[s] /\ struct'[s][j] = struct[s][j]
        /\ struct'[s][k] = struct[s][k] /\ struct[s][j].port # p
    BY <1>3, <1>5, <1>6, <1>8
  <2>2. ForeignAt(s)
    BY <1>1
  <2>3. QED
    BY <1>4, <2>1, <2>2 DEF ForeignAt
<1>9. ForeignAt(s)'
  BY <1>4, <1>7, <1>8 DEF ForeignAt, Running
<1>10. ASSUME NEW n \in Nodes, n # s PROVE ForeignAt(n)'
  BY <1>1, <1>3, <1>4, <1>10, ForeignSame
<1>11. \A n \in Nodes : ForeignAt(n)'
  BY <1>9, <1>10
<1>12. QED
  BY <1>11 DEF ForeignInv, ForeignConsistent, ForeignAt

\* Every step keeps the foreign requests with their structures.
LEMMA ForeignStep ==
  ASSUME TypeInv, ForeignInv, Next
  PROVE  ForeignInv'
<1> USE DEF servers
<1>1. \A s \in Nodes : ForeignAt(s)
  BY ForeignParts
<1>2. CASE UNCHANGED <<up, open, struct, foreign>>
  BY <1>2 DEF ForeignInv, ForeignConsistent, Running
<1>3. ASSUME NEW n \in Nodes, Initialize(n) PROVE ForeignInv'
  <2>1. /\ \A s \in Nodes : s # n => up'[s] = up[s]
        /\ up[n] = "off" /\ up'[n] = "up" /\ UNCHANGED <<open, struct, foreign>>
    BY <1>3 DEF Initialize, TypeInv, TypeOK
  <2>2. ForeignAt(n)'
    <3>1. ForeignAt(n) /\ ~Running(n)
      BY <1>1, <2>1 DEF Running
    <3>2. foreign[n] = {} /\ \A i \in Pool : struct[n][i] = Free
      BY <2>1, <3>1 DEF ForeignAt
    <3>3. QED
      BY <2>1, <3>2 DEF ForeignAt, Running
  <2>3. ASSUME NEW s \in Nodes, s # n PROVE ForeignAt(s)'
    BY <1>1, <2>1, <2>3, ForeignSame
  <2>4. \A s \in Nodes : ForeignAt(s)'
    BY <2>2, <2>3
  <2>5. QED
    BY <2>4 DEF ForeignInv, ForeignConsistent, ForeignAt
<1>4. ASSUME NEW n \in Nodes, ControlTask(n) PROVE ForeignInv'
  BY <1>2, <1>4, ForeignRequest DEF ControlTask, HandleResponse
<1>5. ASSUME NEW n \in Nodes, BeginFinalize(n) PROVE ForeignInv'
  <2>1. /\ \A s \in Nodes : s # n => up'[s] = up[s]
        /\ up[n] = "up" /\ up'[n] = "closing" /\ UNCHANGED <<open, struct, foreign>>
    BY <1>5 DEF BeginFinalize, TypeInv, TypeOK
  <2>2. ForeignAt(n)'
    BY <1>1, <2>1 DEF ForeignAt, Running
  <2>3. ASSUME NEW s \in Nodes, s # n PROVE ForeignAt(s)'
    BY <1>1, <2>1, <2>3, ForeignSame
  <2>4. \A s \in Nodes : ForeignAt(s)'
    BY <2>2, <2>3
  <2>5. QED
    BY <2>4 DEF ForeignInv, ForeignConsistent, ForeignAt
<1>6. ASSUME NEW n \in Nodes, EndFinalize(n) PROVE ForeignInv'
  <2>1. /\ \A s \in Nodes : s # n => /\ up'[s] = up[s] /\ open'[s] = open[s]
                                     /\ foreign'[s] = foreign[s]
        /\ up'[n] = "down" /\ foreign'[n] = {} /\ struct' = struct
    BY <1>6 DEF EndFinalize, TypeInv, TypeOK
  <2>2. ForeignAt(n)'
    BY <2>1 DEF ForeignAt, Running
  <2>3. ASSUME NEW s \in Nodes, s # n PROVE ForeignAt(s)'
    BY <1>1, <2>1, <2>3, ForeignSame
  <2>4. \A s \in Nodes : ForeignAt(s)'
    BY <2>2, <2>3
  <2>5. QED
    BY <2>4 DEF ForeignInv, ForeignConsistent, ForeignAt
<1>7. ASSUME NEW r \in Requests, Retry(r) \/ TestLocal(r) \/ Cancel(r) PROVE ForeignInv'
  BY <1>2, <1>7 DEF Retry, TestLocal, Cancel
<1>8. ASSUME NEW r \in Requests, NEW blocks \in BOOLEAN,
             GetRemote(r, blocks) \/ GetLocal(r, blocks)
      PROVE  ForeignInv'
  BY <1>2, <1>8 DEF GetRemote, GetLocal
<1>9. ASSUME NEW n \in Nodes, NEW p \in Ports, Delete(n, p) PROVE ForeignInv'
  <2>1. /\ \A s \in Nodes : open'[s] \subseteq open[s]
        /\ UNCHANGED <<up, struct, foreign>>
    BY <1>9 DEF Delete, TypeInv, TypeOK
  <2>2. QED
    BY <2>1 DEF ForeignInv, ForeignConsistent, Running
<1>10. QED
  BY <1>3, <1>4, <1>5, <1>6, <1>7, <1>8, <1>9, ForeignCreate DEF Next

-----------------------------------------------------------------------------
(* Between the two.                                                        *)

\* The node that is asked knows of r, or the request or an answer is under way.
Remembered(r) ==
  \/ EntryOf(Server[r], PortOf[r], Caller[r]) # {}
  \/ InQueue(net[Server[r]], Request(Caller[r], PortOf[r]))
  \/ InQueue(net[Caller[r]], Response(Server[r], PortOf[r], "success"))

\* Whoever waits has been initialized, and so has the other node; while both are up
\* the request is remembered, unless its answer was lost.
WaitAt(r) ==
  IsRemote(r) /\ status[r] = "pending" =>
    /\ up[Caller[r]] # "off" /\ up[Server[r]] # "off"
    /\ up[Caller[r]] = "up" /\ up[Server[r]] = "up" /\ r \notin unanswered => Remembered(r)

WaitInv == \A r \in Requests : WaitAt(r)

\* A request that waits on is remembered as long as the nodes, the entry and the
\* messages that are about it stay.
LEMMA WaitKept ==
  ASSUME NEW r \in Requests, WaitAt(r), status'[r] = "pending" => status[r] = "pending",
         up'[Caller[r]] = up[Caller[r]], up'[Server[r]] = up[Server[r]],
         unanswered \subseteq unanswered',
         EntryOf(Server[r], PortOf[r], Caller[r]) # {}
           => EntryOf(Server[r], PortOf[r], Caller[r])' # {},
         InQueue(net[Server[r]], Request(Caller[r], PortOf[r]))
           => InQueue(net'[Server[r]], Request(Caller[r], PortOf[r])),
         InQueue(net[Caller[r]], Response(Server[r], PortOf[r], "success"))
           => InQueue(net'[Caller[r]], Response(Server[r], PortOf[r], "success"))
  PROVE  WaitAt(r)'
  BY DEF WaitAt, Remembered, IsRemote, Request, Response, InQueue

\* The entries of a node whose list and structures stay are the same.
LEMMA EntrySame ==
  ASSUME NEW s \in Nodes, foreign'[s] = foreign[s], struct'[s] = struct[s], NEW p, NEW n
  PROVE  EntryOf(s, p, n)' = EntryOf(s, p, n)
  BY DEF EntryOf, ListedFor

\* Whatever becomes of a request, the entries for others are kept, and the one that
\* is counted or listed has an entry.
LEMMA EntryRequest ==
  ASSUME TypeInv, ForeignInv, NEW s \in Nodes, up[s] = "up", net[s] # <<>>, HandleRequest(s)
  PROVE  LET m == Head(net[s]) IN
         /\ \A n \in Nodes : n # s => foreign'[n] = foreign[n] /\ struct'[n] = struct[n]
         /\ \A p, n : EntryOf(s, p, n) # {} => EntryOf(s, p, n)' # {}
         /\ CountRequest(s, m) \/ ListRequest(s, m) =>
              \A p, n : p = m.port /\ n = m.from => EntryOf(s, p, n)' # {}
<1>1. PICK m, port, from : m = Head(net[s]) /\ port = m.port /\ from = m.from
  OBVIOUS
<1>2. /\ struct \in [Nodes -> [Pool -> Entries \cup {Free}]] /\ foreign \in [Nodes -> SUBSET Pool]
      /\ foreign[s] = {i \in Pool : struct[s][i] # Free}
  BY DEF TypeInv, TypeOK, ForeignInv, ForeignConsistent, Running
<1>3. CASE CountRequest(s, m)
  <2>1. PICK i \in EntryOf(s, port, from) : struct' = [struct EXCEPT ![s][i].count = @ + 1]
    BY <1>1, <1>3 DEF CountRequest
  <2>2. i \in Pool /\ i \in foreign[s] /\ foreign' = foreign
    BY <1>2, <1>3, <2>1 DEF EntryOf, ListedFor, CountRequest
  <2>3. struct[s][i] \in Entries
    BY <1>2, <2>2, GetEndpointAssumption
  <2>4. /\ struct'[s][i] = [struct[s][i] EXCEPT !.count = @ + 1]
        /\ \A j \in Pool : j # i => struct'[s][j] = struct[s][j]
        /\ \A n \in Nodes : n # s => struct'[n] = struct[n]
    BY <1>2, <2>1, <2>2
  <2>5. \A j \in foreign[s] : /\ struct'[s][j].port = struct[s][j].port
                              /\ struct'[s][j].from = struct[s][j].from
    <3>1. struct'[s][i].port = struct[s][i].port /\ struct'[s][i].from = struct[s][i].from
      BY <2>3, <2>4 DEF Entries
    <3>2. QED
      BY <1>2, <2>4, <3>1
  <2>6. \A p, n : EntryOf(s, p, n)' = EntryOf(s, p, n)
    BY <2>2, <2>5 DEF EntryOf, ListedFor
  <2>7. EntryOf(s, port, from)' # {}
    BY <2>1, <2>6
  <2>8. QED
    BY <1>1, <2>2, <2>4, <2>6, <2>7
<1>4. CASE ListRequest(s, m)
  <2>1. PICK i \in Pool : i = FreeStruct(s) /\ struct[s][i] = Free
    BY <1>4, FreeStructFree DEF ListRequest
  <2>2. Entry(port, from, 1).port = port /\ Entry(port, from, 1).from = from
    BY DEF Entry
  <2>3. /\ \A j \in Pool : struct'[s][j] = IF j = i THEN Entry(port, from, 1) ELSE struct[s][j]
        /\ \A n \in Nodes : n # s => struct'[n] = struct[n] /\ foreign'[n] = foreign[n]
        /\ foreign'[s] = foreign[s] \cup {i}
    BY <1>1, <1>2, <1>4, <2>1 DEF ListRequest
  <2>4. i \in EntryOf(s, port, from)'
    BY <2>1, <2>2, <2>3 DEF EntryOf, ListedFor
  <2>5. \A p, n : EntryOf(s, p, n) \subseteq EntryOf(s, p, n)'
    BY <1>2, <2>1, <2>3 DEF EntryOf, ListedFor
  <2>6. QED
    BY <1>1, <2>3, <2>4, <2>5
<1>5. CASE ~CountRequest(s, m) /\ ~ListRequest(s, m)
  <2>1. foreign' = foreign /\ struct' = struct
    BY <1>1, <1>5 DEF HandleRequest, AnswerNow, RefuseRequest
  <2>2. QED
    BY <1>1, <1>5, <2>1, EntrySame
<1>6. QED
  BY <1>3, <1>4, <1>5

\* A request that goes out is under way; one that does not is no longer waiting.
LEMMA WaitCall ==
  ASSUME TypeInv, WaitInv, NEW q \in Requests, NEW blocks \in BOOLEAN, IsRemote(q),
         SendRequest(q) \/ RequestFails(q, blocks),
         UNCHANGED <<up, servers, unanswered>>
  PROVE  WaitInv'
<1>1. /\ \A r \in Requests : Caller[r] \in Nodes /\ Server[r] \in Nodes /\ PortOf[r] \in Ports
      /\ up' = up /\ foreign' = foreign /\ struct' = struct /\ unanswered' = unanswered
  BY GetEndpointAssumption DEF servers
<1>2. \A r \in Requests : r # q => status'[r] = status[r]
  BY DEF SendRequest, RequestFails, SetStatus, TypeInv, TypeOK
<1>3. CASE SendRequest(q)
  <2> DEFINE m == Request(Caller[q], PortOf[q])
  <2>1. m \in Messages
    BY <1>1 DEF Messages
  <2>2. net' = Sent(net, Server[q], m)
    BY <1>1, <1>3, <2>1, SentOne DEF SendRequest, TypeInv
  <2>3. /\ up[Server[q]] = "up" => InQueue(net'[Server[q]], m)
        /\ \A c \in Nodes : \A x : InQueue(net[c], x) => InQueue(net'[c], x)
    BY <1>1, <2>1, <2>2, SentTyped DEF TypeInv
  <2>4. WaitAt(q)'
    <3>1. up[Caller[q]] = "up" /\ up[Server[q]] \in {"up", "closing"}
      BY <1>3 DEF SendRequest, MaySend, Running
    <3>2. QED
      BY <1>1, <2>3, <3>1 DEF WaitAt, Remembered, IsRemote, InQueue, Request
  <2>5. ASSUME NEW r \in Requests, r # q PROVE WaitAt(r)'
    BY <1>1, <1>2, <2>3, <2>5, WaitKept, EntrySame DEF WaitInv
  <2>6. QED
    BY <2>4, <2>5 DEF WaitInv
<1>4. CASE RequestFails(q, blocks)
  <2>1. net' = net /\ status'[q] # "pending"
    BY <1>4 DEF RequestFails, SetStatus, TypeInv, TypeOK
  <2>2. ASSUME NEW r \in Requests PROVE WaitAt(r)'
    BY <1>1, <1>2, <2>1, <2>2, WaitKept, EntrySame DEF WaitInv
  <2>3. QED
    BY <2>2 DEF WaitInv
<1>5. QED
  BY <1>3, <1>4

\* A request that is taken from the queue is answered, counted or listed.
LEMMA WaitRequest ==
  ASSUME TypeInv, ListInv, ForeignInv, WaitInv, NEW s \in Nodes, up[s] = "up", net[s] # <<>>,
         HandleRequest(s)
  PROVE  WaitInv'
<1>1. PICK m : m = Head(net[s])
  OBVIOUS
<1>2. /\ m \in Messages /\ m.from \in Nodes /\ m.port \in Ports
      /\ m = Request(m.from, m.port) /\ Taken(s) \in Net
  BY <1>1, RequestTypes
<1>3. \A c \in Nodes : \A x : InQueue(net[c], x) =>
        InQueue(Taken(s)[c], x) \/ (c = s /\ x = m)
  BY <1>1, TakenTyped DEF TypeInv
<1>4. /\ \A n \in Nodes : n # s => foreign'[n] = foreign[n] /\ struct'[n] = struct[n]
      /\ \A p, n : EntryOf(s, p, n) # {} => EntryOf(s, p, n)' # {}
      /\ CountRequest(s, m) \/ ListRequest(s, m) =>
           \A p, n : p = m.port /\ n = m.from => EntryOf(s, p, n)' # {}
  BY <1>1, EntryRequest
<1>5. \A n \in Nodes : \A p, c : EntryOf(n, p, c) # {} => EntryOf(n, p, c)' # {}
  BY <1>4, EntrySame
<1>6. up' = up /\ status' = status /\ local' = local
  BY DEF HandleRequest, clients
<1>7. AnswerNow(s, m) \/ CountRequest(s, m) \/ ListRequest(s, m) \/ RefuseRequest(s, m)
  BY <1>1 DEF HandleRequest
<1>8. unanswered \subseteq unanswered'
  BY <1>7 DEF AnswerNow, CountRequest, ListRequest, RefuseRequest, Forget
<1>9. Response(s, m.port, "success") \in Messages /\ Response(s, ControlPort, "limit") \in Messages
  BY <1>2 DEF Messages
<1>10. /\ net' \in {Taken(s), Sent(Taken(s), m.from, Response(s, m.port, "success")),
                    Sent(Taken(s), m.from, Response(s, ControlPort, "limit"))}
       /\ AnswerNow(s, m) => \/ net' = Sent(Taken(s), m.from, Response(s, m.port, "success"))
                             \/ unanswered' = unanswered \cup Waiting(m.from, s, m.port)
  <2>1. CASE AnswerNow(s, m)
    <3>1. Delivered(Taken(s), m.from, ControlPort, Response(s, m.port, "success"), 1)
            = Sent(Taken(s), m.from, Response(s, m.port, "success"))
      BY <1>2, <1>9, SentOne
    <3>2. QED
      BY <1>1, <2>1, <3>1 DEF AnswerNow, Forget
  <2>2. CASE CountRequest(s, m) \/ ListRequest(s, m)
    BY <1>1, <1>7, <2>1, <2>2 DEF CountRequest, ListRequest, AnswerNow
  <2>3. CASE RefuseRequest(s, m)
    <3>1. Delivered(Taken(s), m.from, ControlPort, Response(s, ControlPort, "limit"), 1)
            = Sent(Taken(s), m.from, Response(s, ControlPort, "limit"))
      BY <1>2, <1>9, SentOne
    <3>2. ~AnswerNow(s, m)
      BY <1>1, <2>3 DEF RefuseRequest, AnswerNow, Forget
    <3>3. QED
      BY <1>1, <2>3, <3>1, <3>2 DEF RefuseRequest
  <2>4. QED
    BY <1>7, <2>1, <2>2, <2>3
<1>11. /\ \A c \in Nodes : \A x : InQueue(Taken(s)[c], x) => InQueue(net'[c], x)
       /\ net' = Sent(Taken(s), m.from, Response(s, m.port, "success")) /\ up[m.from] = "up"
            => InQueue(net'[m.from], Response(s, m.port, "success"))
  <2>1. PICK q \in Net, n \in Nodes : q = Taken(s) /\ n = m.from
    BY <1>2
  <2>2. PICK a \in Messages, b \in Messages :
          a = Response(s, m.port, "success") /\ b = Response(s, ControlPort, "limit")
    BY <1>9
  <2>3. /\ \A c \in Nodes : \A x : InQueue(q[c], x) => InQueue(Sent(q, n, a)[c], x)
        /\ \A c \in Nodes : \A x : InQueue(q[c], x) => InQueue(Sent(q, n, b)[c], x)
        /\ up[n] = "up" => InQueue(Sent(q, n, a)[n], a)
    BY SentTyped
  <2>4. net' = q \/ net' = Sent(q, n, a) \/ net' = Sent(q, n, b)
    BY <1>10, <2>1, <2>2
  <2>5. QED
    BY <2>1, <2>2, <2>3, <2>4
<1>12. ASSUME NEW r \in Requests, Server[r] = s, Caller[r] = m.from, PortOf[r] = m.port
       PROVE  WaitAt(r)'
  <2>1. SUFFICES ASSUME IsRemote(r), status[r] = "pending", up[Caller[r]] = "up",
                        r \notin unanswered'
                 PROVE  Remembered(r)'
    BY <1>6, <1>8 DEF WaitInv, WaitAt, IsRemote
  <2>2. r \in Waiting(m.from, s, m.port)
    BY <1>12, <2>1 DEF ListInv, Waiting
  <2>3. CASE AnswerNow(s, m)
    <3>1. net' = Sent(Taken(s), m.from, Response(s, m.port, "success"))
      BY <1>10, <2>1, <2>2, <2>3
    <3>2. InQueue(net'[m.from], Response(s, m.port, "success"))
      BY <1>11, <1>12, <2>1, <3>1
    <3>3. QED
      BY <1>12, <3>2 DEF Remembered, InQueue, Response
  <2>4. CASE CountRequest(s, m) \/ ListRequest(s, m)
    <3>1. EntryOf(Server[r], PortOf[r], Caller[r])' # {}
      BY <1>4, <1>12, <2>4
    <3>2. QED
      BY <3>1 DEF Remembered
  <2>5. CASE RefuseRequest(s, m)
    BY <2>1, <2>2, <2>5 DEF RefuseRequest, Forget
  <2>6. QED
    BY <1>7, <2>3, <2>4, <2>5
<1>13. ASSUME NEW r \in Requests,
              ~ (Server[r] = s /\ Caller[r] = m.from /\ PortOf[r] = m.port)
       PROVE  WaitAt(r)'
  <2>1. Server[r] \in Nodes /\ Caller[r] \in Nodes
    BY GetEndpointAssumption
  <2>2. /\ m = Request(Caller[r], PortOf[r]) => Server[r] # s
        /\ m # Response(Server[r], PortOf[r], "success")
    BY <1>2, <1>13 DEF Request, Response
  <2>3. /\ InQueue(net[Server[r]], Request(Caller[r], PortOf[r]))
             => InQueue(net'[Server[r]], Request(Caller[r], PortOf[r]))
        /\ InQueue(net[Caller[r]], Response(Server[r], PortOf[r], "success"))
             => InQueue(net'[Caller[r]], Response(Server[r], PortOf[r], "success"))
    BY <1>3, <1>11, <2>1, <2>2
  <2>4. QED
    BY <1>5, <1>6, <1>8, <2>1, <2>3, WaitKept DEF WaitInv
<1>14. QED
  BY <1>12, <1>13 DEF WaitInv

\* An answer that is taken from the queue ends all requests it is about.
LEMMA WaitResponse ==
  ASSUME TypeInv, ListInv, WaitInv, NEW n \in Nodes, net[n] # <<>>, HandleResponse(n)
  PROVE  WaitInv'
<1>1. PICK m : m = Head(net[n])
  OBVIOUS
<1>2. m \in Messages /\ m.type = "response"
  BY <1>1, TakenTyped DEF TypeInv, HandleResponse
<1>3. \A c \in Nodes : \A x : InQueue(net[c], x) =>
        InQueue(net'[c], x) \/ (c = n /\ x = m)
  BY <1>1, TakenTyped DEF TypeInv, HandleResponse
<1>4. m.result # "pending"
  BY <1>2, MessageKinds
<1>5. /\ \A r \in Requests :
           status'[r] = IF r \in Waiting(n, m.from, m.port) THEN m.result ELSE status[r]
      /\ up' = up /\ unanswered' = unanswered /\ foreign' = foreign /\ struct' = struct
  BY <1>1 DEF HandleResponse, ResumeAll, servers
<1>6. ASSUME NEW r \in Requests, status'[r] = "pending" PROVE WaitAt(r)'
  <2>1. /\ status[r] = "pending" /\ r \notin Waiting(n, m.from, m.port)
        /\ Server[r] \in Nodes /\ Caller[r] \in Nodes
    BY <1>4, <1>5, <1>6, GetEndpointAssumption
  <2>2. m # Request(Caller[r], PortOf[r])
    BY <1>2 DEF Request
  <2>3. CASE Caller[r] = n /\ m = Response(Server[r], PortOf[r], "success") /\ IsRemote(r)
    <3>1. m.from = Server[r] /\ m.port = PortOf[r]
      BY <2>3 DEF Response
    <3>2. r \notin local[Caller[r]]
      BY <2>1, <2>3, <3>1 DEF Waiting
    <3>3. QED
      BY <2>1, <2>3, <3>2 DEF ListInv
  <2>4. CASE ~IsRemote(r)
    BY <2>4 DEF WaitAt, IsRemote
  <2>5. CASE ~ (Caller[r] = n /\ m = Response(Server[r], PortOf[r], "success"))
    <3>1. /\ InQueue(net[Server[r]], Request(Caller[r], PortOf[r]))
               => InQueue(net'[Server[r]], Request(Caller[r], PortOf[r]))
          /\ InQueue(net[Caller[r]], Response(Server[r], PortOf[r], "success"))
               => InQueue(net'[Caller[r]], Response(Server[r], PortOf[r], "success"))
      BY <1>3, <2>1, <2>2, <2>5
    <3>2. QED
      BY <1>5, <2>1, <3>1, WaitKept, EntrySame DEF WaitInv
  <2>6. QED
    BY <2>3, <2>4, <2>5
<1>7. ASSUME NEW r \in Requests, status'[r] # "pending" PROVE WaitAt(r)'
  BY <1>7 DEF WaitAt
<1>8. QED
  BY <1>6, <1>7 DEF WaitInv

\* Whoever is listed for a new endpoint is told or counts as one whose answer was lost.
LEMMA WaitCreate ==
  ASSUME TypeInv, ListInv, ForeignInv, WaitInv, NEW s \in Nodes, NEW p \in Ports, Create(s, p)
  PROVE  WaitInv'
<1> DEFINE S == ListedFor(s, p)
           nodes == {struct[s][i].from : i \in S}
           answer == Response(s, p, "success")
<1>1. PICK told \in SUBSET {n \in nodes : MaySend(s, n)} :
        /\ net' = [n \in Nodes |-> IF n \in told /\ up[n] = "up"
                                  THEN Append(net[n], Response(s, p, "success")) ELSE net[n]]
        /\ unanswered' = unanswered \cup UNION {Waiting(n, s, p) : n \in nodes \ told}
  BY DEF Create, Forget
<1>2. answer \in Messages
  BY DEF Messages
<1>3. /\ \A c \in Nodes : \A x : InQueue(net[c], x) => InQueue(net'[c], x)
      /\ \A c \in Nodes : c \in told /\ up[c] = "up" => InQueue(net'[c], answer)
  <2>1. \A c \in Nodes : \A x : InQueue(net[c], x) \/ x = answer => InQueue(Append(net[c], answer), x)
    BY <1>2, QueueAppend DEF TypeInv, Net
  <2>2. \A c \in Nodes : net'[c] = IF c \in told /\ up[c] = "up"
                                   THEN Append(net[c], answer) ELSE net[c]
    BY <1>1
  <2>3. QED
    BY <2>1, <2>2
<1>4. /\ up' = up /\ unanswered \subseteq unanswered'
      /\ \A r \in Requests : status'[r] = "pending" => status[r] = "pending"
  BY <1>1 DEF Create, ResumeAll
<1>5. /\ \A j \in Pool : struct'[s][j] = IF j \in S THEN Free ELSE struct[s][j]
      /\ foreign'[s] = foreign[s] \ S
      /\ \A n \in Nodes : n # s => struct'[n] = struct[n] /\ foreign'[n] = foreign[n]
      /\ foreign[s] \subseteq Pool
  BY DEF Create, Release, TypeInv, TypeOK
<1>6. \A r \in Requests : Server[r] \in Nodes /\ Caller[r] \in Nodes
  BY GetEndpointAssumption
<1>7. ASSUME NEW r \in Requests, Server[r] = s, PortOf[r] = p, EntryOf(s, p, Caller[r]) # {}
      PROVE  WaitAt(r)'
  <2>1. Caller[r] \in nodes
    BY <1>7 DEF EntryOf
  <2>2. SUFFICES ASSUME IsRemote(r), status[r] = "pending", up[Caller[r]] = "up",
                        r \notin unanswered'
                 PROVE  Remembered(r)'
    BY <1>4 DEF WaitInv, WaitAt, IsRemote
  <2>3. r \in Waiting(Caller[r], s, p)
    BY <1>7, <2>2 DEF ListInv, Waiting
  <2>4. Caller[r] \in told
    BY <1>1, <2>1, <2>2, <2>3
  <2>5. InQueue(net'[Caller[r]], answer)
    BY <1>3, <1>6, <2>2, <2>4
  <2>6. QED
    BY <1>7, <2>5 DEF Remembered, InQueue, Response
<1>8. ASSUME NEW r \in Requests,
             ~ (Server[r] = s /\ PortOf[r] = p /\ EntryOf(s, p, Caller[r]) # {})
      PROVE  WaitAt(r)'
  <2>1. EntryOf(Server[r], PortOf[r], Caller[r]) # {}
          => EntryOf(Server[r], PortOf[r], Caller[r])' # {}
    <3>1. CASE Server[r] # s
      BY <1>5, <1>6, <3>1, EntrySame
    <3>2. CASE Server[r] = s /\ PortOf[r] # p
      <4>1. \A i \in EntryOf(s, PortOf[r], Caller[r]) : i \in foreign[s] /\ i \notin S
        BY <3>2 DEF EntryOf, ListedFor
      <4>2. \A i \in EntryOf(s, PortOf[r], Caller[r]) :
              i \in foreign'[s] /\ struct'[s][i] = struct[s][i]
        BY <1>5, <4>1
      <4>3. EntryOf(s, PortOf[r], Caller[r]) \subseteq EntryOf(s, PortOf[r], Caller[r])'
        BY <4>2 DEF EntryOf, ListedFor
      <4>4. QED
        BY <3>2, <4>3
    <3>3. QED
      BY <1>8, <3>1, <3>2
  <2>2. QED
    BY <1>3, <1>4, <1>6, <2>1, WaitKept DEF WaitInv
<1>9. QED
  BY <1>7, <1>8 DEF WaitInv

\* Nodes that start, leave or have left: nobody who waits depended on one that is off.
LEMMA WaitNodes ==
  ASSUME TypeInv, ListInv, WaitInv, NEW n \in Nodes,
         Initialize(n) \/ BeginFinalize(n) \/ EndFinalize(n)
  PROVE  WaitInv'
<1>1. \A r \in Requests : Server[r] \in Nodes /\ Caller[r] \in Nodes
  BY GetEndpointAssumption
<1>2. CASE Initialize(n)
  <2>1. /\ up[n] = "off" /\ \A s \in Nodes : up'[s] = IF s = n THEN "up" ELSE up[s]
        /\ status' = status /\ net' = net /\ unanswered' = unanswered
        /\ foreign' = foreign /\ struct' = struct
    BY <1>2 DEF Initialize, clients, servers, TypeInv, TypeOK
  <2>2. ASSUME NEW r \in Requests, Caller[r] # n, Server[r] # n PROVE WaitAt(r)'
    BY <1>1, <2>1, <2>2, WaitKept, EntrySame DEF WaitInv
  <2>3. ASSUME NEW r \in Requests, Caller[r] = n \/ Server[r] = n PROVE WaitAt(r)'
    <3>1. ~ (IsRemote(r) /\ status[r] = "pending")
      BY <2>1, <2>3 DEF WaitInv, WaitAt
    <3>2. QED
      BY <2>1, <3>1 DEF WaitAt, IsRemote
  <2>4. QED
    BY <2>2, <2>3 DEF WaitInv
<1>3. CASE BeginFinalize(n) \/ EndFinalize(n)
  <2>1. /\ \A s \in Nodes : s # n => /\ up'[s] = up[s] /\ net'[s] = net[s]
                                     /\ foreign'[s] = foreign[s]
        /\ up'[n] \in {"closing", "down"}
        /\ \A r \in Requests : status'[r] = "pending" => status[r] = "pending"
        /\ unanswered' = unanswered /\ struct' = struct
    <3>1. CASE BeginFinalize(n)
      BY <3>1 DEF BeginFinalize, clients, servers, TypeInv, TypeOK, Net
    <3>2. CASE EndFinalize(n)
      BY <3>2 DEF EndFinalize, TypeInv, TypeOK
    <3>3. QED
      BY <1>3, <3>1, <3>2
  <2>2. ASSUME NEW r \in Requests, Caller[r] # n, Server[r] # n PROVE WaitAt(r)'
    BY <1>1, <2>1, <2>2, WaitKept, EntrySame DEF WaitInv
  <2>3. ASSUME NEW r \in Requests, Caller[r] = n \/ Server[r] = n PROVE WaitAt(r)'
    BY <1>1, <2>1, <2>3 DEF WaitInv, WaitAt, IsRemote
  <2>4. QED
    BY <2>2, <2>3 DEF WaitInv
<1>4. QED
  BY <1>2, <1>3

\* Every step keeps whoever waits remembered.
LEMMA WaitStep ==
  ASSUME TypeInv, ListInv, ForeignInv, WaitInv, Next
  PROVE  WaitInv'
<1> USE DEF servers
<1>1. ASSUME NEW n \in Nodes, ControlTask(n) PROVE WaitInv'
  BY <1>1, WaitRequest, WaitResponse DEF ControlTask
<1>2. ASSUME NEW q \in Requests, NEW blocks \in BOOLEAN, GetRemote(q, blocks) \/ Retry(q)
      PROVE  WaitInv'
  BY <1>2, WaitCall DEF GetRemote, Retry, ListInv
<1>3. ASSUME UNCHANGED <<up, struct, foreign, net, unanswered>>,
             \A r \in Requests :
               IsRemote(r) /\ status'[r] = "pending" => status[r] = "pending"
      PROVE  WaitInv'
  <2>1. ASSUME NEW r \in Requests, IsRemote(r) PROVE WaitAt(r)'
    BY <1>3, <2>1, WaitKept, EntrySame, GetEndpointAssumption DEF WaitInv
  <2>2. ASSUME NEW r \in Requests, ~IsRemote(r) PROVE WaitAt(r)'
    BY <2>2 DEF WaitAt, IsRemote
  <2>3. QED
    BY <2>1, <2>2 DEF WaitInv
<1>4. ASSUME NEW q \in Requests, NEW blocks \in BOOLEAN, GetLocal(q, blocks) \/ TestLocal(q)
      PROVE  WaitInv'
  <2>1. /\ \A r \in Requests : r # q => status'[r] = status[r]
        /\ ~IsRemote(q)
    BY <1>4 DEF GetLocal, TestLocal, SetStatus, TypeInv, TypeOK
  <2>2. UNCHANGED <<up, struct, foreign, net, unanswered>>
    BY <1>4 DEF GetLocal, TestLocal
  <2>3. QED
    BY <1>3, <2>1, <2>2
<1>5. ASSUME NEW q \in Requests, Cancel(q) PROVE WaitInv'
  <2>1. net' = net
    BY <1>5, NotSent DEF Cancel, CancelTo
  <2>2. \A r \in Requests : status'[r] = "pending" => status[r] = "pending"
    BY <1>5 DEF Cancel, ResumeAll, SetStatus, TypeInv, TypeOK
  <2>3. UNCHANGED <<up, struct, foreign, unanswered>>
    BY <1>5 DEF Cancel
  <2>4. QED
    BY <1>3, <2>1, <2>2, <2>3
<1>6. ASSUME NEW n \in Nodes, NEW p \in Ports, Delete(n, p) PROVE WaitInv'
  BY <1>3, <1>6 DEF Delete, clients
<1>7. QED
  BY <1>1, <1>2, <1>4, <1>5, <1>6, WaitNodes, WaitCreate DEF Next

-----------------------------------------------------------------------------
(* The theorems.                                                           *)

Inv == TypeInv /\ ListInv /\ ForeignInv /\ WaitInv

\* Nobody waits at first, and nobody is listed.
LEMMA InvInit == Init => Inv
<1> SUFFICES ASSUME Init PROVE Inv
  OBVIOUS
<1>1. TypeInv
  BY TypeInit
<1>2. ListInv /\ WaitInv
  BY DEF Init, ListInv, WaitInv, WaitAt
<1>3. ForeignInv
  BY DEF Init, ForeignInv, ForeignConsistent, Running
<1>4. QED
  BY <1>1, <1>2, <1>3 DEF Inv

\* The invariant holds after every step, and after none.
LEMMA InvStep == Inv /\ [Next]_vars => Inv'
<1> SUFFICES ASSUME Inv, [Next]_vars PROVE Inv'
  OBVIOUS
<1>1. CASE Next
  BY <1>1, TypeStep, ListStep, ForeignStep, WaitStep DEF Inv
<1>2. CASE UNCHANGED vars
  <2> USE <1>2 DEF vars, clients, servers, bounds
  <2>1. TypeInv'
    BY DEF Inv, TypeInv, TypeOK
  <2>2. ListInv'
    BY DEF Inv, ListInv
  <2>3. ForeignInv'
    BY DEF Inv, ForeignInv, ForeignConsistent, Running
  <2>4. WaitInv'
    BY DEF Inv, WaitInv, WaitAt, Remembered, EntryOf, ListedFor
  <2>5. QED
    BY <2>1, <2>2, <2>3, <2>4 DEF Inv
<1>3. QED
  BY <1>1, <1>2

\* In every state the lists of the callers, those of the servers and the messages
\* between them agree on who waits for which endpoint.
THEOREM GetInvariant == Spec => []Inv
<1>1. QED
  BY InvInit, InvStep, PTL DEF Spec

\* The variables keep to what the structures hold, whatever the nodes do.
THEOREM TypeCorrect == Spec => []TypeOK
<1>1. Inv => TypeOK
  BY DEF Inv, TypeInv
<1>2. QED
  BY <1>1, GetInvariant, PTL

\* A node is listed once for an endpoint that does not exist, and no structure of the
\* pool is lost (mcapi_add_foreign_request, mcapi_check_foreign_resume).
THEOREM ForeignCorrect == Spec => []ForeignConsistent
<1>1. Inv => ForeignConsistent
  BY DEF Inv, ForeignInv
<1>2. QED
  BY <1>1, GetInvariant, PTL

\* Whoever waits for an endpoint of another node is remembered there, or a message
\* about it is under way, whatever is created, deleted, cancelled and finalized.
THEOREM WaitersRemembered == Spec => []WaiterRemembered
<1>1. Inv => WaiterRemembered
  BY DEF Inv, WaitInv, WaitAt, Remembered, InQueue, WaiterRemembered
<1>2. QED
  BY <1>1, GetInvariant, PTL

\* A request that has ended keeps its result and does not come back to the list.
THEOREM ResultsFinal == Spec => ResultIsFinal
<1> DEFINE Final == \A r \in Requests : status[r] \in Results =>
                      status'[r] = status[r] /\ r \notin local'[Caller[r]]
<1>1. Inv /\ Inv' /\ [Next]_vars => [Final]_vars
  <2> SUFFICES ASSUME Inv, Inv', Next, NEW r \in Requests, status[r] \in Results
               PROVE  status'[r] = status[r] /\ r \notin local'[Caller[r]]
    OBVIOUS
  <2>1. status'[r] = status[r]
    BY ResultKept DEF Inv
  <2>2. r \notin local'[Caller[r]]
    BY <2>1, GetEndpointAssumption DEF Inv, ListInv, Results
  <2>3. QED
    BY <2>1, <2>2
<1>2. QED
  BY <1>1, GetInvariant, PTL DEF Spec, ResultIsFinal
=============================================================================
