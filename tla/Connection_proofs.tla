-------------------------- MODULE Connection_proofs --------------------------
(***************************************************************************)
(* Proofs about making, opening and closing channels, for every set of     *)
(* nodes, endpoints and calls, whoever closes, cancels and deletes what,   *)
(* and however many messages are lost: types, the fate of every open that  *)
(* waits, and, while nothing goes wrong, that of every connect and the     *)
(* agreement of the two ends of a connection.                              *)
(***************************************************************************)
EXTENDS Connection, TLAPS

-----------------------------------------------------------------------------
(* Messages under way.                                                     *)

Control == [Nodes -> Seq(Messages)]

\* A response goes to the node of the caller.
Addressed(m, n) == m.kind = "CONNECT_RESPONSE" => m.req = n
AllAddressed(L) == \A n \in Nodes : \A i \in 1 .. Len(L[n]) : Addressed(L[n][i], n)

\* A message that will bring the answer to a call of mcapi_connect.
Brings(m, c) ==
  /\ m.tx = CallOf[c].tx /\ m.req = CallOf[c].node
  /\ m.kind \in {"CONNECT_REQUEST", "CONNECT_SYN", "CONNECT_ACK", "CONNECT_RESPONSE"}
About(L, c) == \E n \in Nodes : \E i \in 1 .. Len(L[n]) : Brings(L[n][i], c)

\* What is posted joins the messages under way, if it can be sent.
LEMMA Posted ==
  ASSUME NEW L \in Control, AllAddressed(L), NEW n \in Nodes, NEW m \in Messages,
         Addressed(m, n), NEW sent \in BOOLEAN
  PROVE  /\ Post(L, n, m, sent) \in Control /\ AllAddressed(Post(L, n, m, sent))
         /\ \A c \in Calls : About(L, c) \/ (sent /\ Brings(m, c))
              => About(Post(L, n, m, sent), c)
<1>1. CASE ~sent
  BY <1>1 DEF Post
<1>2. CASE sent
  <2> DEFINE q == Append(L[n], m)
             P == [L EXCEPT ![n] = q]
  <2>1. L[n] \in Seq(Messages)
    BY DEF Control
  <2>2. /\ q \in Seq(Messages) /\ Len(L[n]) \in Nat /\ Len(q) = Len(L[n]) + 1
        /\ \A i \in 1 .. Len(L[n]) : q[i] = L[n][i]
        /\ q[Len(L[n]) + 1] = m
    BY <2>1
  <2>3. /\ \A i \in 1 .. Len(q) : i \in 1 .. Len(L[n]) \/ i = Len(L[n]) + 1
        /\ \A i \in 1 .. Len(L[n]) : i \in 1 .. Len(q)
        /\ Len(L[n]) + 1 \in 1 .. Len(q)
    BY <2>2
  <2>4. /\ Post(L, n, m, sent) = P /\ P[n] = q /\ P \in Control
        /\ \A k \in Nodes : k # n => P[k] = L[k]
    BY <1>2, <2>2 DEF Post, Control
  <2> HIDE DEF P, q
  <2>5. AllAddressed(P)
    <3> SUFFICES ASSUME NEW k \in Nodes, NEW i \in 1 .. Len(P[k])
                 PROVE  Addressed(P[k][i], k)
      BY DEF AllAddressed
    <3>1. CASE k = n
      BY <2>2, <2>3, <2>4, <3>1 DEF AllAddressed
    <3>2. CASE k # n
      BY <2>4, <3>2 DEF AllAddressed
    <3>3. QED
      BY <3>1, <3>2
  <2>6. ASSUME NEW c \in Calls, About(L, c) PROVE About(P, c)
    <3>1. PICK k \in Nodes : \E i \in 1 .. Len(L[k]) : Brings(L[k][i], c)
      BY <2>6 DEF About
    <3>2. PICK i \in 1 .. Len(L[k]) : Brings(L[k][i], c)
      BY <3>1
    <3>3. i \in 1 .. Len(P[k]) /\ P[k][i] = L[k][i]
      BY <2>2, <2>3, <2>4
    <3>4. QED
      BY <3>2, <3>3 DEF About
  <2>7. ASSUME NEW c \in Calls, Brings(m, c) PROVE About(P, c)
    BY <2>2, <2>3, <2>4, <2>7 DEF About
  <2>8. QED
    BY <2>4, <2>5, <2>6, <2>7
<1>3. QED
  BY <1>1, <1>2

\* What the control task takes is the only message that is gone.
LEMMA TakenAway ==
  ASSUME control \in Control, AllAddressed(control), NEW n \in Nodes, control[n] # <<>>
  PROVE  /\ Taken(n) \in Control /\ AllAddressed(Taken(n))
         /\ Head(control[n]) \in Messages /\ Addressed(Head(control[n]), n)
         /\ \A c \in Calls : About(control, c) =>
              About(Taken(n), c) \/ Brings(Head(control[n]), c)
<1> DEFINE q == Tail(control[n])
           P == Taken(n)
<1>1. control[n] \in Seq(Messages)
  BY DEF Control
<1>2. /\ q \in Seq(Messages) /\ Len(control[n]) \in Nat /\ Len(control[n]) > 0
      /\ Len(q) = Len(control[n]) - 1
      /\ \A i \in 1 .. Len(control[n]) - 1 : q[i] = control[n][i + 1]
      /\ Head(control[n]) = control[n][1] /\ control[n][1] \in Messages
  BY <1>1
<1>3. /\ \A i \in 1 .. Len(q) : i + 1 \in 1 .. Len(control[n]) /\ q[i] = control[n][i + 1]
      /\ \A i \in 1 .. Len(control[n]) :
           i # 1 => i - 1 \in 1 .. Len(q) /\ q[i - 1] = control[n][i]
      /\ 1 \in 1 .. Len(control[n])
  BY <1>2
<1>4. P \in Control /\ P[n] = q /\ \A k \in Nodes : k # n => P[k] = control[k]
  BY <1>2 DEF Taken, Control
<1> HIDE DEF P, q
<1>5. AllAddressed(P)
  <2> SUFFICES ASSUME NEW k \in Nodes, NEW i \in 1 .. Len(P[k])
               PROVE  Addressed(P[k][i], k)
    BY DEF AllAddressed
  <2>1. CASE k = n
    BY <1>3, <1>4, <2>1 DEF AllAddressed
  <2>2. CASE k # n
    BY <1>4, <2>2 DEF AllAddressed
  <2>3. QED
    BY <2>1, <2>2
<1>6. ASSUME NEW c \in Calls, About(control, c), ~Brings(Head(control[n]), c)
      PROVE  About(P, c)
  <2>1. PICK k \in Nodes : \E i \in 1 .. Len(control[k]) : Brings(control[k][i], c)
    BY <1>6 DEF About
  <2>2. CASE k = n
    <3>1. PICK i \in 1 .. Len(control[n]) : Brings(control[n][i], c)
      BY <2>1, <2>2
    <3>2. i # 1
      BY <1>2, <1>6, <3>1
    <3>3. i - 1 \in 1 .. Len(P[n]) /\ P[n][i - 1] = control[n][i]
      BY <1>3, <1>4, <3>1, <3>2
    <3>4. QED
      BY <3>1, <3>3 DEF About
  <2>3. CASE k # n
    BY <1>4, <2>1, <2>3 DEF About
  <2>4. QED
    BY <2>2, <2>3
<1>7. Head(control[n]) \in Messages /\ Addressed(Head(control[n]), n)
  BY <1>2, <1>3 DEF AllAddressed
<1>8. QED
  BY <1>4, <1>5, <1>6, <1>7 DEF P

\* Every endpoint, and none, has a node.
LEMMA NodeTyped ==
  ASSUME NEW e \in Peers
  PROVE  NodeOf(e) \in Nodes
  BY ConnectionAssumption DEF NodeOf, Peers

\* A message that is sent back keeps what it is about.
LEMMA ReplyTyped ==
  ASSUME NEW m \in Messages, NEW kind \in Kinds, NEW ok \in BOOLEAN
  PROVE  /\ Reply(m, kind, ok) \in Messages
         /\ Reply(m, kind, ok).kind = kind /\ Reply(m, kind, ok).tx = m.tx
         /\ Reply(m, kind, ok).req = m.req
  BY DEF Reply, Messages

\* What an endpoint that opens, or goes away, tells its peer.
LEMMA OwnMessages ==
  ASSUME NEW e \in Endpoints, NEW side \in Sides, NEW peer \in Peers,
         NEW type \in Types \cup {NoType}, foreign[e] \in Peers
  PROVE  /\ OpenMessage(e, side, peer, type) \in Messages
         /\ OpenMessage(e, side, peer, type).kind # "CONNECT_RESPONSE"
         /\ Fin(e) \in Messages /\ Fin(e).kind # "CONNECT_RESPONSE"
<1>1. NodeOf(e) \in Nodes /\ e \in Peers
  BY NodeTyped DEF Peers
<1>2. QED
  BY <1>1 DEF OpenMessage, OpenKind, Message, Fin, Messages, Kinds, Sides

\* A message that cannot be sent is a mishap.
LEMMA Spent ==
  ASSUME mishaps \in 0 .. MaxMishaps, NEW k \in Nat, Spend(k)
  PROVE  /\ mishaps' \in 0 .. MaxMishaps
         /\ mishaps' = 0 => mishaps = 0 /\ k = 0
  BY ConnectionAssumption DEF Spend

\* A message is sent, or costs one.
LEMMA LoseTyped ==
  ASSUME NEW sent \in BOOLEAN
  PROVE  Lose(sent) \in Nat /\ (Lose(sent) = 0 => sent)
  BY DEF Lose

-----------------------------------------------------------------------------
(* Answers to mcapi_connect.                                               *)

\* What is under way is of the protocol, and as long as there was no mishap a message
\* brings the answer to every call that waits.
NetFine(L, con, mis) ==
  /\ L \in Control /\ AllAddressed(L)
  /\ mis \in 0 .. MaxMishaps
  /\ mis = 0 => \A c \in Calls : con[c] = "pending" => About(L, c)
NetInv == NetFine(control, connect, mishaps)

EntryTypes ==
  /\ flags \in [Endpoints -> SUBSET Bits]
  /\ chanType \in [Endpoints -> Types \cup {NoType}]
  /\ foreign \in [Endpoints -> Peers]
CallTypes ==
  /\ opening \in [Endpoints -> Results]
  /\ connect \in [Calls -> Results]
CountTypes ==
  /\ opens \in [Endpoints -> Nat]
  /\ \A e \in Endpoints : opens[e] <= MaxOpens[e]
  /\ early \in BOOLEAN
TypeInv == EntryTypes /\ CallTypes /\ CountTypes /\ NetInv

\* While a message is added, or none is, whoever waits is as well off as before.
LEMMA NetPosted ==
  ASSUME NetInv, NEW n \in Nodes, NEW m \in Messages, Addressed(m, n), NEW k \in Nat,
         NEW sent \in BOOLEAN, Spend(k + Lose(sent)), control' = Post(control, n, m, sent),
         \A c \in Calls : connect'[c] = "pending" =>
           connect[c] = "pending" \/ (sent /\ Brings(m, c))
  PROVE  NetInv'
<1>1. Lose(sent) \in Nat /\ k + Lose(sent) \in Nat
  BY LoseTyped
<1>2. mishaps' \in 0 .. MaxMishaps /\ (mishaps' = 0 => mishaps = 0)
  BY <1>1, Spent DEF NetInv, NetFine
<1>3. /\ control' \in Control /\ AllAddressed(control')
      /\ \A c \in Calls : About(control, c) \/ (sent /\ Brings(m, c)) => About(control', c)
  BY Posted DEF NetInv, NetFine
<1>4. NetFine(control', connect', mishaps')
  BY <1>2, <1>3 DEF NetInv, NetFine
<1>5. QED
  BY <1>4 DEF NetInv

\* The same where the messages stay as they are.
LEMMA NetSame ==
  ASSUME NetInv, control' = control,
         mishaps' \in 0 .. MaxMishaps, mishaps' = 0 => mishaps = 0,
         \A c \in Calls : connect'[c] = "pending" => connect[c] = "pending"
  PROVE  NetInv'
<1>1. NetFine(control', connect', mishaps')
  BY DEF NetInv, NetFine
<1>2. QED
  BY <1>1 DEF NetInv

\* Endpoints that go away tell their peer.
LEMMA NetFin ==
  ASSUME NetInv, EntryTypes, NEW e \in Endpoints, NEW cost \in Nat, SendFin(e, cost),
         \A c \in Calls : connect'[c] = "pending" => connect[c] = "pending"
  PROVE  NetInv'
<1>1. CASE "CONNECTING" \in flags[e]
  <2>1. PICK sent \in BOOLEAN : /\ Spend(cost + Lose(sent))
                                /\ control' = Post(control, NodeOf(foreign[e]), Fin(e), sent)
    BY <1>1 DEF SendFin
  <2>2. foreign[e] \in Peers /\ NodeOf(foreign[e]) \in Nodes
    BY NodeTyped DEF EntryTypes
  <2>3. Fin(e) \in Messages /\ Addressed(Fin(e), NodeOf(foreign[e]))
    <3>1. /\ "TX" \in Sides /\ NoType \in Types \cup {NoType}
      BY DEF Sides
    <3>2. Fin(e) \in Messages /\ Fin(e).kind # "CONNECT_RESPONSE"
      BY <2>2, <3>1, OwnMessages
    <3>3. QED
      BY <3>2 DEF Addressed
  <2>4. QED
    BY <2>1, <2>2, <2>3, NetPosted
<1>2. CASE "CONNECTING" \notin flags[e]
  <2>1. Spend(cost) /\ control' = control
    BY <1>2 DEF SendFin
  <2>2. mishaps' \in 0 .. MaxMishaps /\ (mishaps' = 0 => mishaps = 0)
    BY <2>1, Spent DEF NetInv, NetFine
  <2>3. QED
    BY <2>1, <2>2, NetSame
<1>3. QED
  BY <1>1, <1>2

\* A call of mcapi_connect waits once its request is under way.
LEMMA NetConnect ==
  ASSUME NetInv, CallTypes, NEW c \in Calls, Connect(c)
  PROVE  NetInv'
<1> DEFINE k == CallOf[c]
           m == Message("CONNECT_REQUEST", k.tx, k.rx, k.type, k.node, TRUE)
<1>1. /\ k.node \in Nodes /\ k.tx \in Endpoints /\ k.rx \in Endpoints /\ k.type \in Types
      /\ Home[k.tx] \in Nodes
  BY ConnectionAssumption
<1>2. m \in Messages /\ Addressed(m, Home[k.tx]) /\ Brings(m, c)
  BY <1>1 DEF Message, Messages, Kinds, Peers, Addressed, Brings
<1>3. ASSUME NEW sent \in BOOLEAN, Spend(Lose(sent)),
             control' = Post(control, Home[k.tx], m, sent),
             connect' = [connect EXCEPT ![c] = IF sent THEN "pending" ELSE "failed"]
      PROVE  NetInv'
  <2>1. \A d \in Calls : connect'[d] = "pending" =>
          connect[d] = "pending" \/ (sent /\ Brings(m, d))
    BY <1>2, <1>3 DEF CallTypes
  <2>2. 0 \in Nat /\ Spend(0 + Lose(sent))
    BY <1>3, LoseTyped
  <2> HIDE DEF m, k
  <2>3. QED
    BY <1>1, <1>2, <1>3, <2>1, <2>2, NetPosted
<1>4. ASSUME connect' = [connect EXCEPT ![c] = "failed"], UNCHANGED <<control, mishaps>>
      PROVE  NetInv'
  <2>1. \A d \in Calls : connect'[d] = "pending" => connect[d] = "pending"
    BY <1>4 DEF CallTypes
  <2>2. QED
    BY <1>4, <2>1, NetSame DEF NetInv, NetFine
<1>5. QED
  BY <1>3, <1>4 DEF Connect

\* An open is told to the peer, and concerns no call of mcapi_connect.
LEMMA NetOpen ==
  ASSUME NetInv, EntryTypes, NEW o \in OpenAs, Open(o.ep, o.side, o.type)
  PROVE  NetInv'
<1>1. /\ o.ep \in Endpoints /\ o.side \in Sides /\ o.type \in Types \cup {NoType}
      /\ connect' = connect
  BY ConnectionAssumption DEF Open
<1>2. PICK e \in Endpoints, side \in Sides, type \in Types \cup {NoType} :
        e = o.ep /\ side = o.side /\ type = o.type
  BY <1>1
<1>3. foreign[e] \in Peers /\ NodeOf(foreign[e]) \in Nodes
  BY NodeTyped DEF EntryTypes
<1>4. CASE "CONNECTING" \in flags[e]
  <2> DEFINE m == OpenMessage(e, side, foreign[e], type)
  <2>1. PICK sent \in BOOLEAN : /\ Spend(Lose(sent))
                                /\ control' = Post(control, NodeOf(foreign[e]), m, sent)
    BY <1>2, <1>4 DEF Open
  <2>2. m \in Messages /\ Addressed(m, NodeOf(foreign[e]))
    BY <1>3, OwnMessages DEF Addressed
  <2>3. 0 \in Nat /\ Spend(0 + Lose(sent))
    BY <2>1, LoseTyped
  <2> HIDE DEF m
  <2>4. QED
    BY <1>1, <1>3, <2>1, <2>2, <2>3, NetPosted
<1>5. CASE "CONNECTING" \notin flags[e]
  <2>1. UNCHANGED <<control, mishaps>>
    BY <1>2, <1>5 DEF Open
  <2>2. QED
    BY <1>1, <2>1, NetSame DEF NetInv, NetFine
<1>6. QED
  BY <1>4, <1>5

Handshake == {"CONNECT_REQUEST", "CONNECT_SYN", "CONNECT_ACK", "CONNECT_RESPONSE"}

\* A reply keeps the answer of whoever the message was about under way.
LEMMA Replied ==
  ASSUME NetInv, NEW n \in Nodes, control[n] # <<>>, NEW L \in Control, AllAddressed(L),
         \A c \in Calls : About(control, c) => About(L, c) \/ Brings(Head(control[n]), c),
         NEW kind \in Kinds, NEW ok \in BOOLEAN, NEW sent \in BOOLEAN, NEW to \in Nodes,
         kind = "CONNECT_RESPONSE" => to = Head(control[n]).req,
         Head(control[n]).kind \in Handshake => kind \in Handshake
  PROVE  LET P == Post(L, to, Reply(Head(control[n]), kind, ok), sent) IN
         /\ P \in Control /\ AllAddressed(P)
         /\ sent => \A c \in Calls : About(control, c) => About(P, c)
<1> DEFINE m == Head(control[n])
           r == Reply(m, kind, ok)
<1>1. m \in Messages
  BY TakenAway DEF NetInv, NetFine
<1>2. r \in Messages /\ r.kind = kind /\ r.tx = m.tx /\ r.req = m.req
  BY <1>1, ReplyTyped
<1>3. Addressed(r, to) /\ \A c \in Calls : Brings(m, c) => Brings(r, c)
  BY <1>2 DEF Addressed, Brings, Handshake
<1> HIDE DEF r, m
<1>4. /\ Post(L, to, r, sent) \in Control /\ AllAddressed(Post(L, to, r, sent))
      /\ \A c \in Calls : About(L, c) \/ (sent /\ Brings(r, c)) => About(Post(L, to, r, sent), c)
  BY <1>2, <1>3, Posted
<1>5. sent => \A c \in Calls : About(control, c) => About(Post(L, to, r, sent), c)
  BY <1>3, <1>4 DEF m
<1>6. QED
  BY <1>4, <1>5 DEF r, m

\* The control task takes a message that is no part of an answer, or gives the answer.
LEMMA NetTaken ==
  ASSUME NetInv, NEW n \in Nodes, control[n] # <<>>, control' = Taken(n), mishaps' = mishaps,
         \A c \in Calls : connect'[c] = "pending" =>
           connect[c] = "pending" /\ ~Brings(Head(control[n]), c)
  PROVE  NetInv'
<1>1. /\ Taken(n) \in Control /\ AllAddressed(Taken(n))
      /\ \A c \in Calls : About(control, c) => About(Taken(n), c) \/ Brings(Head(control[n]), c)
  BY TakenAway DEF NetInv, NetFine
<1>2. NetFine(control', connect', mishaps')
  BY <1>1 DEF NetInv, NetFine
<1>3. QED
  BY <1>2 DEF NetInv

\* It takes a message and sends it back, or on.
LEMMA NetReplied ==
  ASSUME NetInv, NEW n \in Nodes, control[n] # <<>>,
         NEW kind \in Kinds, NEW ok \in BOOLEAN, NEW sent \in BOOLEAN, NEW to \in Nodes,
         kind = "CONNECT_RESPONSE" => to = Head(control[n]).req,
         Head(control[n]).kind \in Handshake => kind \in Handshake,
         control' = Post(Taken(n), to, Reply(Head(control[n]), kind, ok), sent),
         mishaps' \in 0 .. MaxMishaps, mishaps' = 0 => mishaps = 0 /\ sent,
         \A c \in Calls : connect'[c] = "pending" => connect[c] = "pending"
  PROVE  NetInv'
<1>1. /\ Taken(n) \in Control /\ AllAddressed(Taken(n))
      /\ \A c \in Calls : About(control, c) => About(Taken(n), c) \/ Brings(Head(control[n]), c)
  BY TakenAway DEF NetInv, NetFine
<1>2. /\ control' \in Control /\ AllAddressed(control')
      /\ sent => \A c \in Calls : About(control, c) => About(control', c)
  BY <1>1, Replied
<1>3. NetFine(control', connect', mishaps')
  BY <1>2 DEF NetInv, NetFine
<1>4. QED
  BY <1>3 DEF NetInv

\* What a handler has at hand.
LEMMA HeadTyped ==
  ASSUME NetInv, NEW n \in Nodes, NEW kind, Arrived(n, kind)
  PROVE  /\ control[n] # <<>> /\ Head(control[n]) \in Messages
         /\ Head(control[n]).kind = kind
         /\ Head(control[n]).tx \in Peers /\ Head(control[n]).rx \in Peers
         /\ Head(control[n]).type \in Types \cup {NoType} /\ Head(control[n]).req \in Nodes
         /\ Head(control[n]).ok \in BOOLEAN
         /\ Addressed(Head(control[n]), n)
<1>1. Head(control[n]) \in Messages /\ Addressed(Head(control[n]), n)
  BY TakenAway DEF NetInv, NetFine, Arrived
<1>2. QED
  BY <1>1 DEF Messages, Arrived

\* A request is refused, which is the answer, or goes on as a SYN.
LEMMA NetRequest ==
  ASSUME NetInv, NEW n \in Nodes, HandleConnectRequest(n)
  PROVE  NetInv'
<1> DEFINE m == Head(control[n])
<1>1. /\ control[n] # <<>> /\ m.kind = "CONNECT_REQUEST" /\ m.req \in Nodes
      /\ NodeOf(m.rx) \in Nodes /\ connect' = connect
  BY HeadTyped, NodeTyped DEF HandleConnectRequest, requests
<1>2. PICK syn \in BOOLEAN, answer \in BOOLEAN :
        /\ ~Free(m.tx) => ~syn
        /\ ~(~Free(m.tx) \/ ~syn) => answer
        /\ Spend((IF Free(m.tx) THEN Lose(syn) ELSE 0) + Lose(answer))
        /\ control' = IF ~Free(m.tx) \/ ~syn
                      THEN Answer(Taken(n), m, FALSE, answer)
                      ELSE Post(Taken(n), NodeOf(m.rx), Reply(m, "CONNECT_SYN", TRUE), TRUE)
  BY DEF HandleConnectRequest
<1>3. mishaps' \in 0 .. MaxMishaps /\ (mishaps' = 0 => mishaps = 0 /\ answer)
  <2>1. PICK k \in Nat : k = IF Free(m.tx) THEN Lose(syn) ELSE 0
    BY LoseTyped
  <2>2. Spend(k + Lose(answer)) /\ Lose(answer) \in Nat
    BY <1>2, <2>1, LoseTyped
  <2>3. /\ mishaps' \in 0 .. MaxMishaps
        /\ mishaps' = 0 => mishaps = 0 /\ k + Lose(answer) = 0
    BY <2>2, Spent DEF NetInv, NetFine
  <2>4. k + Lose(answer) = 0 => Lose(answer) = 0
    BY <2>2
  <2>5. QED
    BY <2>3, <2>4, LoseTyped
<1>4. CASE ~Free(m.tx) \/ ~syn
  <2>1. control' = Post(Taken(n), m.req, Reply(m, "CONNECT_RESPONSE", FALSE), answer)
    BY <1>2, <1>4 DEF Answer
  <2>2. "CONNECT_RESPONSE" \in Kinds /\ "CONNECT_RESPONSE" \in Handshake
    BY DEF Kinds, Handshake
  <2>3. QED
    BY <1>1, <1>3, <2>1, <2>2, NetReplied
<1>5. CASE ~(~Free(m.tx) \/ ~syn)
  <2>1. control' = Post(Taken(n), NodeOf(m.rx), Reply(m, "CONNECT_SYN", TRUE), TRUE)
    BY <1>2, <1>5
  <2>2. "CONNECT_SYN" \in Kinds /\ "CONNECT_SYN" \in Handshake /\ "CONNECT_SYN" # "CONNECT_RESPONSE"
    BY DEF Kinds, Handshake
  <2>3. QED
    BY <1>1, <1>3, <2>1, <2>2, NetReplied
<1>6. QED
  BY <1>4, <1>5

\* An open is noted and confirmed.
LEMMA NetOpened ==
  ASSUME NetInv, CallTypes, NEW n \in Nodes, NEW side \in Sides, HandleOpen(n, side)
  PROVE  NetInv'
<1> DEFINE m == Head(control[n])
           e == EndOf(m, Peer(side))
<1>1. /\ control[n] # <<>> /\ m.kind \notin Handshake
      /\ EndOf(m, side) \in Peers /\ NodeOf(EndOf(m, side)) \in Nodes
  <2>1. control[n] # <<>> /\ m.kind = OpenKind(side) /\ EndOf(m, side) \in Peers
    BY HeadTyped DEF HandleOpen, EndOf
  <2>2. QED
    BY <2>1, NodeTyped DEF OpenKind, Handshake
<1>2. PICK sent \in BOOLEAN :
        /\ Spend(Lose(sent))
        /\ control' = Post(Taken(n), NodeOf(EndOf(m, side)),
                           Reply(m, AckKind(side), Exists(e)), sent)
  BY DEF HandleOpen
<1>3. mishaps' \in 0 .. MaxMishaps /\ (mishaps' = 0 => mishaps = 0 /\ sent)
  BY <1>2, LoseTyped, Spent DEF NetInv, NetFine
<1>4. \A c \in Calls : connect'[c] = "pending" => connect[c] = "pending"
  BY DEF HandleOpen, Acknowledge, Resume, requests, CallTypes
<1>5. AckKind(side) \in Kinds /\ AckKind(side) # "CONNECT_RESPONSE" /\ Exists(e) \in BOOLEAN
  BY DEF AckKind, Kinds, Exists
<1> HIDE DEF e
<1>6. QED
  BY <1>1, <1>2, <1>3, <1>4, <1>5, NetReplied

\* Two messages to send: with no mishap both are.
LEMMA SpentTwice ==
  ASSUME mishaps \in 0 .. MaxMishaps, NEW a \in BOOLEAN, NEW b \in BOOLEAN,
         Spend(Lose(a) + Lose(b))
  PROVE  /\ mishaps' \in 0 .. MaxMishaps
         /\ mishaps' = 0 => mishaps = 0 /\ a /\ b
<1>1. PICK k \in Nat, l \in Nat : k = Lose(a) /\ l = Lose(b)
  BY LoseTyped
<1>2. Spend(k + l) /\ k + l \in Nat /\ (k + l = 0 => k = 0 /\ l = 0)
  BY <1>1
<1>3. mishaps' \in 0 .. MaxMishaps /\ (mishaps' = 0 => mishaps = 0 /\ k + l = 0)
  BY <1>2, Spent
<1>4. (k = 0 => a) /\ (l = 0 => b)
  BY <1>1, LoseTyped
<1>5. QED
  BY <1>2, <1>3, <1>4

\* A SYN is answered with an ACK, and an open may follow it.
LEMMA NetSyn ==
  ASSUME NetInv, EntryTypes, NEW n \in Nodes, HandleConnectSyn(n)
  PROVE  NetInv'
<1> DEFINE m == Head(control[n])
           e == m.rx
<1>1. /\ control[n] # <<>> /\ m.kind = "CONNECT_SYN" /\ m.tx \in Peers
      /\ m.type \in Types \cup {NoType} /\ NodeOf(m.tx) \in Nodes /\ connect' = connect
  BY HeadTyped, NodeTyped DEF HandleConnectSyn, requests
<1>2. PICK f : f = foreign'[e]
  OBVIOUS
<1>3. PICK ack \in BOOLEAN, open \in BOOLEAN :
        /\ ~(ack /\ HasOpened(e, "RX")) => open
        /\ Spend(Lose(ack) + Lose(open))
        /\ \/ Free(e) /\ SetUp(e, "RX", m.tx, m.type)
           \/ ~Free(e) /\ UNCHANGED entries
        /\ control' =
             IF ack /\ HasOpened(e, "RX")
             THEN Post(Post(Taken(n), NodeOf(m.tx), Reply(m, "CONNECT_ACK", Free(e)), ack),
                       NodeOf(f), OpenMessage(e, "RX", f, m.type), open)
             ELSE Post(Taken(n), NodeOf(m.tx), Reply(m, "CONNECT_ACK", Free(e)), ack)
  BY <1>2 DEF HandleConnectSyn
<1>4. mishaps' \in 0 .. MaxMishaps /\ (mishaps' = 0 => mishaps = 0 /\ ack /\ open)
  BY <1>3, SpentTwice DEF NetInv, NetFine
<1>5. PICK ok \in BOOLEAN : ok = Free(e)
  BY DEF Free, Exists
<1>6. PICK P : P = Post(Taken(n), NodeOf(m.tx), Reply(m, "CONNECT_ACK", ok), ack)
  OBVIOUS
<1>7. /\ P \in Control /\ AllAddressed(P)
      /\ ack => \A c \in Calls : About(control, c) => About(P, c)
  <2>1. /\ Taken(n) \in Control /\ AllAddressed(Taken(n))
        /\ \A c \in Calls : About(control, c) => About(Taken(n), c) \/ Brings(m, c)
    BY <1>1, TakenAway DEF NetInv, NetFine
  <2>2. "CONNECT_ACK" \in Kinds /\ "CONNECT_ACK" \in Handshake /\ "CONNECT_ACK" # "CONNECT_RESPONSE"
    BY DEF Kinds, Handshake
  <2>3. QED
    BY <1>1, <1>6, <2>1, <2>2, Replied
<1>8. CASE ack /\ HasOpened(e, "RX")
  <2>1. control' = Post(P, NodeOf(f), OpenMessage(e, "RX", f, m.type), open)
    BY <1>3, <1>5, <1>6, <1>8
  <2>2. e \in Endpoints
    BY <1>8 DEF HasOpened, Exists
  <2>3. f \in Peers
    BY <1>1, <1>2, <1>3, <2>2 DEF SetUp, entries, EntryTypes
  <2>4. PICK o : o = OpenMessage(e, "RX", f, m.type)
    OBVIOUS
  <2>5. o \in Messages /\ o.kind # "CONNECT_RESPONSE"
    BY <1>1, <2>2, <2>3, <2>4, OwnMessages DEF EntryTypes, Sides
  <2>6. Addressed(o, NodeOf(f)) /\ NodeOf(f) \in Nodes
    BY <2>3, <2>5, NodeTyped DEF Addressed
  <2>7. /\ control' \in Control /\ AllAddressed(control')
        /\ \A c \in Calls : About(P, c) => About(control', c)
    BY <1>7, <2>1, <2>4, <2>5, <2>6, Posted
  <2>8. NetFine(control', connect', mishaps')
    BY <1>1, <1>4, <1>7, <2>7 DEF NetInv, NetFine
  <2>9. QED
    BY <2>8 DEF NetInv
<1>9. CASE ~(ack /\ HasOpened(e, "RX"))
  <2>1. control' = P
    BY <1>3, <1>5, <1>6, <1>9
  <2>2. NetFine(control', connect', mishaps')
    BY <1>1, <1>4, <1>7, <2>1 DEF NetInv, NetFine
  <2>3. QED
    BY <2>2 DEF NetInv
<1>10. QED
  BY <1>8, <1>9

\* An ACK is the last of the handshake: the answer goes to the caller.
LEMMA NetAck ==
  ASSUME NetInv, EntryTypes, NEW n \in Nodes, HandleConnectAck(n)
  PROVE  NetInv'
<1> DEFINE m == Head(control[n])
           e == m.tx
           tell == Exists(e) /\ m.ok /\ HasOpened(e, "TX")
<1>1. /\ control[n] # <<>> /\ m.kind = "CONNECT_ACK" /\ m.rx \in Peers /\ m.req \in Nodes
      /\ m.type \in Types \cup {NoType} /\ NodeOf(m.rx) \in Nodes /\ m.ok \in BOOLEAN
      /\ connect' = connect
  BY HeadTyped, NodeTyped DEF HandleConnectAck, requests
<1>2. PICK open \in BOOLEAN, answer \in BOOLEAN :
        /\ Spend(Lose(open) + Lose(answer))
        /\ control' =
             Post(IF tell
                  THEN Post(Taken(n), NodeOf(m.rx), OpenMessage(e, "TX", m.rx, m.type), open)
                  ELSE Taken(n),
                  m.req, Reply(m, "CONNECT_RESPONSE", m.ok /\ open), answer)
  BY DEF HandleConnectAck, Answer
<1>3. mishaps' \in 0 .. MaxMishaps /\ (mishaps' = 0 => mishaps = 0 /\ open /\ answer)
  BY <1>2, SpentTwice DEF NetInv, NetFine
<1>4. PICK ok \in BOOLEAN : ok = (m.ok /\ open)
  BY <1>1
<1>5. PICK L : L = IF tell
                   THEN Post(Taken(n), NodeOf(m.rx), OpenMessage(e, "TX", m.rx, m.type), open)
                   ELSE Taken(n)
  OBVIOUS
<1>6. /\ Taken(n) \in Control /\ AllAddressed(Taken(n))
      /\ \A c \in Calls : About(control, c) => About(Taken(n), c) \/ Brings(m, c)
  BY <1>1, TakenAway DEF NetInv, NetFine
<1>7. /\ L \in Control /\ AllAddressed(L)
      /\ \A c \in Calls : About(control, c) => About(L, c) \/ Brings(m, c)
  <2>1. CASE ~tell
    BY <1>5, <1>6, <2>1
  <2>2. CASE tell
    <3>1. e \in Endpoints
      BY <2>2 DEF Exists
    <3>2. PICK o : o = OpenMessage(e, "TX", m.rx, m.type)
      OBVIOUS
    <3>3. o \in Messages /\ o.kind # "CONNECT_RESPONSE"
      BY <1>1, <3>1, <3>2, OwnMessages DEF EntryTypes, Sides
    <3>4. Addressed(o, NodeOf(m.rx)) /\ L = Post(Taken(n), NodeOf(m.rx), o, open)
      BY <1>5, <2>2, <3>2, <3>3 DEF Addressed
    <3>5. /\ L \in Control /\ AllAddressed(L)
          /\ \A c \in Calls : About(Taken(n), c) => About(L, c)
      BY <1>1, <1>6, <3>3, <3>4, Posted
    <3>6. QED
      BY <1>6, <3>5
  <2>3. QED
    BY <2>1, <2>2
<1>8. control' = Post(L, m.req, Reply(m, "CONNECT_RESPONSE", ok), answer)
  BY <1>2, <1>4, <1>5
<1> HIDE DEF tell
<1>9. "CONNECT_RESPONSE" \in Kinds /\ "CONNECT_RESPONSE" \in Handshake
  BY DEF Kinds, Handshake
<1>10. /\ control' \in Control /\ AllAddressed(control')
       /\ answer => \A c \in Calls : About(control, c) => About(control', c)
  BY <1>1, <1>7, <1>8, <1>9, Replied
<1>11. NetFine(control', connect', mishaps')
  BY <1>1, <1>3, <1>10 DEF NetInv, NetFine
<1>12. QED
  BY <1>11 DEF NetInv

\* The rest of the control task takes a message; a response wakes who waits for it.
LEMMA NetHandled ==
  ASSUME NetInv, CallTypes, NEW n \in Nodes,
         \/ \E side \in Sides : HandleOpenAck(n, side)
         \/ HandleConnectResponse(n) \/ HandleFin(n)
  PROVE  NetInv'
<1> DEFINE m == Head(control[n])
<1>1. ASSUME NEW side \in Sides, HandleOpenAck(n, side)
      PROVE  NetInv'
  <2>1. /\ control[n] # <<>> /\ m.kind = AckKind(side)
        /\ control' = Taken(n) /\ mishaps' = mishaps
    BY <1>1 DEF HandleOpenAck, Arrived
  <2>2. \A c \in Calls : connect'[c] = "pending" => connect[c] = "pending"
    BY <1>1 DEF HandleOpenAck, Acknowledge, Resume, requests, CallTypes
  <2>3. \A c \in Calls : ~Brings(m, c)
    BY <2>1 DEF Brings, AckKind
  <2>4. QED
    BY <2>1, <2>2, <2>3, NetTaken
<1>2. ASSUME HandleConnectResponse(n)
      PROVE  NetInv'
  <2>1. /\ control[n] # <<>> /\ Addressed(m, n) /\ m.kind = "CONNECT_RESPONSE"
        /\ control' = Taken(n) /\ mishaps' = mishaps
    BY <1>2, HeadTyped DEF HandleConnectResponse
  <2>2. m.req = n
    BY <2>1 DEF Addressed
  <2>3. \A c \in Calls : connect'[c] = "pending" => connect[c] = "pending" /\ ~Brings(m, c)
    BY <1>2, <2>2 DEF HandleConnectResponse, Brings, CallTypes
  <2>4. QED
    BY <2>1, <2>3, NetTaken
<1>3. ASSUME HandleFin(n)
      PROVE  NetInv'
  <2>1. /\ control[n] # <<>> /\ m.kind = "CONNECT_FIN"
        /\ control' = Taken(n) /\ mishaps' = mishaps
    BY <1>3 DEF HandleFin, Arrived
  <2>2. \A c \in Calls : connect'[c] = "pending" => connect[c] = "pending"
    BY <1>3 DEF HandleFin, Resume, requests, CallTypes
  <2>3. \A c \in Calls : ~Brings(m, c)
    BY <2>1 DEF Brings
  <2>4. QED
    BY <2>1, <2>2, <2>3, NetTaken
<1>4. QED
  BY <1>1, <1>2, <1>3

\* Nothing that is done loses sight of a call that waits.
LEMMA NetStep ==
  ASSUME TypeInv, [Next]_vars
  PROVE  NetInv'
<1>1. NetInv /\ EntryTypes /\ CallTypes /\ mishaps \in 0 .. MaxMishaps
  BY DEF TypeInv, NetInv, NetFine
<1>2. CASE \E c \in Calls : Connect(c)
  BY <1>1, <1>2, NetConnect
<1>3. CASE \E o \in OpenAs : Open(o.ep, o.side, o.type)
  BY <1>1, <1>3, NetOpen
<1>4. ASSUME NEW e \in Closers, NEW side \in Sides, NEW type \in Types, Close(e, side, type)
      PROVE  NetInv'
  <2>1. \A c \in Calls : connect'[c] = "pending" => connect[c] = "pending"
    BY <1>1, <1>4 DEF Close, Resume, CallTypes
  <2>2. e \in Endpoints /\ 0 \in Nat /\ SendFin(e, 0)
    BY <1>4, ConnectionAssumption DEF Close
  <2>3. QED
    BY <1>1, <2>1, <2>2, NetFin
<1>5. ASSUME NEW e \in Closers, Cancel(e)
      PROVE  NetInv'
  <2>1. UNCHANGED <<control, connect>> /\ 1 \in Nat /\ Spend(1)
    BY <1>5 DEF Cancel
  <2>2. mishaps' \in 0 .. MaxMishaps /\ (mishaps' = 0 => mishaps = 0)
    BY <1>1, <2>1, Spent
  <2>3. QED
    BY <1>1, <2>1, <2>2, NetSame
<1>6. ASSUME NEW e \in Closers, Delete(e)
      PROVE  NetInv'
  <2>1. \A c \in Calls : connect'[c] = "pending" => connect[c] = "pending"
    BY <1>1, <1>6 DEF Delete, Resume, CallTypes
  <2>2. e \in Endpoints /\ 1 \in Nat /\ SendFin(e, 1)
    BY <1>6, ConnectionAssumption DEF Delete
  <2>3. QED
    BY <1>1, <2>1, <2>2, NetFin
<1>7. ASSUME NEW c \in Calls, CancelConnect(c)
      PROVE  NetInv'
  <2>1. \A d \in Calls : connect'[d] = "pending" => connect[d] = "pending"
    BY <1>1, <1>7 DEF CancelConnect, CallTypes
  <2>2. UNCHANGED <<control, mishaps>>
    BY <1>7 DEF CancelConnect
  <2>3. QED
    BY <1>1, <2>1, <2>2, NetSame
<1>8. CASE \/ \E e \in Closers : Create(e)
           \/ \E d \in Datagrams : SendDatagram(d)
           \/ UNCHANGED vars
  <2>1. UNCHANGED <<control, connect, mishaps>>
    BY <1>8 DEF Create, SendDatagram, requests, vars
  <2>2. QED
    BY <1>1, <2>1, NetSame
<1>9. ASSUME NEW n \in Nodes, ControlTask(n)
      PROVE  NetInv'
  BY <1>1, <1>9, NetRequest, NetSyn, NetAck, NetOpened, NetHandled DEF ControlTask
<1>10. QED
  BY <1>2, <1>3, <1>4, <1>5, <1>6, <1>7, <1>8, <1>9 DEF Next

-----------------------------------------------------------------------------
(* The endpoints and the calls.                                            *)

\* Who is woken has a result; nobody else is.
LEMMA Resumed ==
  ASSUME CallTypes, NEW e \in Endpoints, NEW result \in Results \ {"pending"},
         Resume(e, result)
  PROVE  /\ CallTypes'
         /\ \A f \in Endpoints : opening'[f] = "pending" => opening[f] = "pending" /\ f # e
<1>1. opening' \in [Endpoints -> Results] /\ connect' \in [Calls -> Results]
  BY DEF Resume, CallTypes, Results
<1>2. QED
  BY <1>1 DEF Resume, CallTypes

\* An endpoint that learns of an open keeps its bits and, connected, waits no longer.
LEMMA Acknowledged ==
  ASSUME EntryTypes, CallTypes, NEW e \in Endpoints, NEW side \in Sides, Acknowledge(e, side)
  PROVE  /\ flags' \in [Endpoints -> SUBSET Bits] /\ CallTypes'
         /\ \A f \in Endpoints :
              /\ flags[f] \subseteq flags'[f]
              /\ opening'[f] = "pending" =>
                   /\ opening[f] = "pending"
                   /\ "CONNECTED" \in flags'[f] => "CONNECTED" \in flags[f]
<1>1. flags[e] \subseteq Bits /\ Acked(side) \in Bits /\ "CONNECTED" \in Bits
      /\ Acked(side) # "CONNECTED"
  BY DEF EntryTypes, Acked, Bits
<1>2. PICK new : new = flags[e] \cup {Acked(side)}
                       \cup (IF OtherAcked(e, side) THEN {"CONNECTED"} ELSE {})
  OBVIOUS
<1>3. new \in SUBSET Bits /\ flags[e] \subseteq new
      /\ ("CONNECTED" \in new => "CONNECTED" \in flags[e] \/ OtherAcked(e, side))
  BY <1>1, <1>2
<1>4. flags' = [flags EXCEPT ![e] = new]
  BY <1>2 DEF Acknowledge, EntryTypes
<1>5. flags' \in [Endpoints -> SUBSET Bits] /\ \A f \in Endpoints : flags[f] \subseteq flags'[f]
  BY <1>3, <1>4 DEF EntryTypes
<1>6. CASE OtherAcked(e, side)
  <2>1. Resume(e, "ok") /\ "ok" \in Results \ {"pending"}
    BY <1>6 DEF Acknowledge, Results
  <2>2. /\ CallTypes'
        /\ \A f \in Endpoints : opening'[f] = "pending" => opening[f] = "pending" /\ f # e
    BY <2>1, Resumed
  <2>3. QED
    BY <1>4, <1>5, <2>2 DEF EntryTypes
<1>7. CASE ~OtherAcked(e, side)
  <2>1. UNCHANGED <<opening, connect>>
    BY <1>7 DEF Acknowledge, requests
  <2>2. CallTypes'
    BY <2>1 DEF CallTypes
  <2>3. QED
    BY <1>3, <1>4, <1>5, <1>7, <2>1, <2>2 DEF EntryTypes
<1>8. QED
  BY <1>6, <1>7

\* Whoever still waits for an endpoint to open has opened it, and it is not connected yet.
OpenInv ==
  \A e \in Endpoints : opening[e] = "pending" =>
    "OPEN" \in flags[e] /\ flags[e] \cap Sides # {} /\ ~IsConnected(e)

Local == EntryTypes /\ CallTypes /\ CountTypes /\ OpenInv

\* mcapi_connect leaves the endpoints alone.
LEMMA LocalConnect ==
  ASSUME Local, NEW c \in Calls, Connect(c)
  PROVE  Local'
<1>1. UNCHANGED <<flags, chanType, foreign, opening, early, opens>>
  BY DEF Connect, entries
<1>2. connect' \in [Calls -> Results]
  BY DEF Connect, Local, CallTypes, Results
<1>3. EntryTypes' /\ CallTypes' /\ CountTypes'
  BY <1>1, <1>2 DEF Local, EntryTypes, CallTypes, CountTypes
<1>4. OpenInv'
  BY <1>1 DEF Local, OpenInv, IsConnected
<1>5. QED
  BY <1>3, <1>4 DEF Local

\* mcapi_open, which waits if its message is sent.
LEMMA LocalOpen ==
  ASSUME Local, NEW e \in Endpoints, NEW side \in Sides, NEW type \in Types, Open(e, side, type)
  PROVE  Local'
<1>1. /\ UNCHANGED <<foreign, connect, early>>
      /\ opens[e] < MaxOpens[e] /\ opens' = [opens EXCEPT ![e] = @ + 1]
      /\ "OPEN" \in flags[e] /\ flags[e] \cap {"CONNECTED", "TX", "RX"} = {}
      /\ chanType' = chanType \/ chanType' = [chanType EXCEPT ![e] = type]
  BY DEF Open, Exists
<1>2. PICK sent \in BOOLEAN :
        /\ flags' = [flags EXCEPT ![e] = IF sent THEN @ \cup {side} ELSE @]
        /\ opening' = [opening EXCEPT ![e] = IF sent THEN "pending" ELSE "failed"]
  BY DEF Open
<1>3. side \in Bits /\ flags[e] \subseteq Bits
  BY DEF Sides, Bits, Local, EntryTypes
<1>4. EntryTypes'
  <2>1. flags' \in [Endpoints -> SUBSET Bits]
    BY <1>2, <1>3 DEF Local, EntryTypes
  <2>2. chanType' \in [Endpoints -> Types \cup {NoType}]
    BY <1>1 DEF Local, EntryTypes
  <2>3. QED
    BY <1>1, <2>1, <2>2 DEF Local, EntryTypes
<1>5. CallTypes'
  BY <1>1, <1>2 DEF Local, CallTypes, Results
<1>6. CountTypes'
  <2>1. /\ opens \in [Endpoints -> Nat] /\ MaxOpens \in [Endpoints -> Nat]
        /\ \A f \in Endpoints : opens[f] <= MaxOpens[f]
    BY ConnectionAssumption DEF Local, CountTypes
  <2>2. opens[e] + 1 \in Nat /\ opens[e] + 1 <= MaxOpens[e]
    BY <1>1, <2>1
  <2>3. opens' \in [Endpoints -> Nat] /\ \A f \in Endpoints : opens'[f] <= MaxOpens[f]
    BY <1>1, <2>1, <2>2
  <2>4. QED
    BY <1>1, <2>3 DEF Local, CountTypes
<1>7. OpenInv'
  <2> SUFFICES ASSUME NEW f \in Endpoints, opening'[f] = "pending"
               PROVE  /\ "OPEN" \in flags'[f] /\ flags'[f] \cap Sides # {}
                      /\ "CONNECTED" \notin flags'[f]
    BY DEF OpenInv, IsConnected
  <2>1. CASE f = e
    <3>1. sent
      BY <1>2, <2>1 DEF Local, CallTypes
    <3>2. flags'[e] = flags[e] \cup {side} /\ side # "CONNECTED"
      BY <1>2, <3>1 DEF Local, EntryTypes, Sides
    <3>3. QED
      BY <1>1, <2>1, <3>2
  <2>2. CASE f # e
    BY <1>2, <2>2 DEF Local, EntryTypes, CallTypes, OpenInv, IsConnected
  <2>3. QED
    BY <2>1, <2>2
<1>8. QED
  BY <1>4, <1>5, <1>6, <1>7 DEF Local

\* What ends an open, for good or ill, leaves nobody waiting.
LEMMA LocalEnded ==
  ASSUME Local, NEW e \in Endpoints, NEW new \in SUBSET Bits,
         flags' = [flags EXCEPT ![e] = new],
         NEW type \in Types \cup {NoType},
         chanType' = chanType \/ chanType' = [chanType EXCEPT ![e] = type],
         foreign' = foreign, opens' = opens, early' \in BOOLEAN, CallTypes',
         \A f \in Endpoints : opening'[f] = "pending" => opening[f] = "pending" /\ f # e
  PROVE  Local'
<1>1. EntryTypes'
  BY DEF Local, EntryTypes
<1>2. CountTypes'
  BY DEF Local, CountTypes
<1>3. OpenInv'
  BY DEF Local, EntryTypes, OpenInv, IsConnected
<1>4. QED
  BY <1>1, <1>2, <1>3 DEF Local

\* The same where nobody is woken and no one can be hurt: the endpoint keeps what an
\* open that waits relies on.
LEMMA LocalKept ==
  ASSUME Local, NEW e \in Endpoints, NEW new \in SUBSET Bits,
         flags' = [flags EXCEPT ![e] = new],
         flags[e] \cap {"OPEN", "TX", "RX"} \subseteq new,
         "CONNECTED" \in new => "CONNECTED" \in flags[e],
         NEW type \in Types \cup {NoType}, NEW peer \in Peers,
         chanType' = chanType \/ chanType' = [chanType EXCEPT ![e] = type],
         foreign' = foreign \/ foreign' = [foreign EXCEPT ![e] = peer],
         UNCHANGED <<opening, connect, early, opens>>
  PROVE  Local'
<1>1. EntryTypes'
  BY DEF Local, EntryTypes
<1>2. CountTypes' /\ CallTypes'
  BY DEF Local, CountTypes, CallTypes
<1>3. OpenInv'
  BY DEF Local, EntryTypes, OpenInv, IsConnected, Sides
<1>4. QED
  BY <1>1, <1>2, <1>3 DEF Local

\* And where the entries stay as they are.
LEMMA LocalSame ==
  ASSUME Local, UNCHANGED <<flags, chanType, foreign, opens, early>>, CallTypes',
         \A f \in Endpoints : opening'[f] = "pending" => opening[f] = "pending"
  PROVE  Local'
<1>1. EntryTypes'
  BY DEF Local, EntryTypes
<1>2. CountTypes'
  BY DEF Local, CountTypes
<1>3. OpenInv'
  BY DEF Local, OpenInv, IsConnected
<1>4. QED
  BY <1>1, <1>2, <1>3 DEF Local

\* mcapi_close, mcapi_cancel and mcapi_delete_endpoint answer the open that waits.
LEMMA LocalGone ==
  ASSUME Local, NEW e \in Endpoints,
         \/ \E side \in Sides, type \in Types : Close(e, side, type)
         \/ Cancel(e)
         \/ Delete(e)
  PROVE  Local'
<1>1. /\ {} \in SUBSET Bits /\ {"OPEN", "DISCONNECTED"} \in SUBSET Bits
      /\ NoType \in Types \cup {NoType} /\ "failed" \in Results \ {"pending"}
      /\ CallTypes /\ early \in BOOLEAN
  BY DEF Bits, Results, Local, CountTypes
<1>2. ASSUME NEW side \in Sides, NEW type \in Types, Close(e, side, type)
      PROVE  Local'
  <2>1. /\ flags' = [flags EXCEPT ![e] = {"OPEN", "DISCONNECTED"}]
        /\ chanType' = [chanType EXCEPT ![e] = NoType]
        /\ Resume(e, "failed") /\ early' \in BOOLEAN
        /\ UNCHANGED <<foreign, opens>>
    BY <1>1, <1>2 DEF Close
  <2>2. /\ CallTypes'
        /\ \A f \in Endpoints : opening'[f] = "pending" => opening[f] = "pending" /\ f # e
    BY <1>1, <2>1, Resumed
  <2>3. QED
    BY <1>1, <2>1, <2>2, LocalEnded
<1>3. ASSUME Cancel(e)
      PROVE  Local'
  <2>1. /\ flags' = [flags EXCEPT ![e] = {"OPEN", "DISCONNECTED"}]
        /\ chanType' = [chanType EXCEPT ![e] = NoType]
        /\ opening' = [opening EXCEPT ![e] = "cancelled"]
        /\ UNCHANGED <<foreign, connect, early, opens>>
    BY <1>3 DEF Cancel
  <2>2. /\ CallTypes'
        /\ \A f \in Endpoints : opening'[f] = "pending" => opening[f] = "pending" /\ f # e
    BY <1>1, <2>1 DEF CallTypes, Results
  <2>3. QED
    BY <1>1, <2>1, <2>2, LocalEnded
<1>4. ASSUME Delete(e)
      PROVE  Local'
  <2>1. /\ flags' = [flags EXCEPT ![e] = {}] /\ Resume(e, "failed")
        /\ UNCHANGED <<chanType, foreign, early, opens>>
    BY <1>4 DEF Delete
  <2>2. /\ CallTypes'
        /\ \A f \in Endpoints : opening'[f] = "pending" => opening[f] = "pending" /\ f # e
    BY <1>1, <2>1, Resumed
  <2>3. QED
    BY <1>1, <2>1, <2>2, LocalEnded
<1>5. QED
  BY <1>2, <1>3, <1>4

\* A port that is created again had no open waiting; a datagram disturbs none.
LEMMA LocalRenewed ==
  ASSUME Local, \/ \E e \in Closers : Create(e)
                \/ \E d \in Datagrams : SendDatagram(d)
                \/ \E c \in Calls : CancelConnect(c)
  PROVE  Local'
<1>1. ASSUME NEW e \in Closers, Create(e)
      PROVE  Local'
  <2>1. /\ e \in Endpoints /\ "OPEN" \notin flags[e]
        /\ flags' = [flags EXCEPT ![e] = {"OPEN"}]
        /\ chanType' = [chanType EXCEPT ![e] = NoType]
        /\ foreign' = [foreign EXCEPT ![e] = NoEndpoint]
        /\ UNCHANGED <<opening, connect, early, opens>>
    BY <1>1, ConnectionAssumption DEF Create, Exists, requests
  <2>2. EntryTypes'
    BY <2>1 DEF Local, EntryTypes, Bits, Peers
  <2>3. CallTypes' /\ CountTypes'
    BY <2>1 DEF Local, CallTypes, CountTypes
  <2>4. OpenInv'
    BY <2>1 DEF Local, EntryTypes, OpenInv, IsConnected
  <2>5. QED
    BY <2>2, <2>3, <2>4 DEF Local
<1>2. ASSUME NEW d \in Datagrams, SendDatagram(d)
      PROVE  Local'
  <2>1. /\ d.from \in Endpoints /\ d.to \in Peers
        /\ UNCHANGED <<flags, chanType, opening, connect, early, opens>>
        /\ foreign' = [foreign EXCEPT ![d.from] = d.to]
    BY <1>2, ConnectionAssumption DEF SendDatagram, requests, Peers
  <2>2. EntryTypes'
    BY <2>1 DEF Local, EntryTypes
  <2>3. CallTypes' /\ CountTypes'
    BY <2>1 DEF Local, CallTypes, CountTypes
  <2>4. OpenInv'
    BY <2>1 DEF Local, OpenInv, IsConnected
  <2>5. QED
    BY <2>2, <2>3, <2>4 DEF Local
<1>3. ASSUME NEW c \in Calls, CancelConnect(c)
      PROVE  Local'
  <2>1. /\ UNCHANGED <<flags, chanType, foreign, opens, early>>
        /\ opening' = opening
    BY <1>3 DEF CancelConnect, entries
  <2>2. CallTypes'
    BY <1>3, <2>1 DEF CancelConnect, Local, CallTypes, Results
  <2>3. QED
    BY <2>1, <2>2, LocalSame
<1>4. QED
  BY <1>1, <1>2, <1>3

\* The handshake marks the two ends, or gives the sender back.
LEMMA LocalSetUp ==
  ASSUME Local, NetInv, NEW n \in Nodes,
         HandleConnectRequest(n) \/ HandleConnectSyn(n) \/ HandleConnectAck(n)
  PROVE  Local'
<1> DEFINE m == Head(control[n])
<1>1. /\ m.tx \in Peers /\ m.rx \in Peers /\ m.type \in Types \cup {NoType}
      /\ UNCHANGED <<opening, connect, early, opens>>
  BY HeadTyped DEF HandleConnectRequest, HandleConnectSyn, HandleConnectAck, requests
<1>2. CallTypes' /\ \A f \in Endpoints : opening'[f] = "pending" => opening[f] = "pending"
  BY <1>1 DEF Local, CallTypes
<1>3. ASSUME NEW e \in Endpoints, NEW side \in Sides, NEW peer \in Peers,
             NEW type \in Types \cup {NoType}, SetUp(e, side, peer, type)
      PROVE  Local'
  <2>1. PICK new : new = (flags[e] \cup {"CONNECTING", ConnectingAs(side)}) \ {"DISCONNECTED"}
    OBVIOUS
  <2>2. /\ new \in SUBSET Bits /\ flags[e] \cap {"OPEN", "TX", "RX"} \subseteq new
        /\ "CONNECTED" \in new => "CONNECTED" \in flags[e]
    BY <2>1 DEF ConnectingAs, Bits, Local, EntryTypes
  <2>3. /\ flags' = [flags EXCEPT ![e] = new]
        /\ foreign' = [foreign EXCEPT ![e] = peer]
        /\ chanType' = [chanType EXCEPT ![e] = type]
    BY <1>3, <2>1 DEF SetUp
  <2>4. QED
    BY <1>1, <2>2, <2>3, LocalKept
<1>4. ASSUME HandleConnectRequest(n)
      PROVE  Local'
  <2>1. CASE Free(m.tx)
    <3>1. PICK e \in Endpoints : e = m.tx
      BY <2>1 DEF Free, Exists
    <3>2. PICK new : new = (flags[e] \cup {"CONNECTING"}) \ {"DISCONNECTED"}
      OBVIOUS
    <3>3. /\ new \in SUBSET Bits /\ flags[e] \cap {"OPEN", "TX", "RX"} \subseteq new
          /\ "CONNECTED" \in new => "CONNECTED" \in flags[e]
      BY <3>2 DEF Bits, Local, EntryTypes
    <3>4. flags' = [flags EXCEPT ![e] = new] /\ UNCHANGED <<chanType, foreign>>
      BY <1>4, <2>1, <3>1, <3>2 DEF HandleConnectRequest
    <3>5. NoType \in Types \cup {NoType} /\ NoEndpoint \in Peers
      BY DEF Peers
    <3>6. QED
      BY <1>1, <3>3, <3>4, <3>5, LocalKept
  <2>2. CASE ~Free(m.tx)
    <3>1. UNCHANGED <<flags, chanType, foreign>>
      BY <1>4, <2>2 DEF HandleConnectRequest
    <3>2. QED
      BY <1>1, <1>2, <3>1, LocalSame
  <2>3. QED
    BY <2>1, <2>2
<1>5. ASSUME HandleConnectSyn(n)
      PROVE  Local'
  <2>1. CASE Free(m.rx) /\ SetUp(m.rx, "RX", m.tx, m.type)
    BY <1>1, <1>3, <2>1 DEF Free, Exists, Sides
  <2>2. CASE UNCHANGED entries
    BY <1>1, <1>2, <2>2, LocalSame DEF entries
  <2>3. QED
    BY <1>5, <2>1, <2>2 DEF HandleConnectSyn
<1>6. ASSUME HandleConnectAck(n)
      PROVE  Local'
  <2>1. CASE Exists(m.tx) /\ m.ok /\ SetUp(m.tx, "TX", m.rx, m.type)
    BY <1>1, <1>3, <2>1 DEF Exists, Sides
  <2>2. CASE /\ Exists(m.tx) /\ flags' = [flags EXCEPT ![m.tx] = @ \ {"CONNECTING"}]
             /\ UNCHANGED <<chanType, foreign>>
    <3>1. PICK e \in Endpoints : e = m.tx
      BY <2>2 DEF Exists
    <3>2. PICK new : new = flags[e] \ {"CONNECTING"}
      OBVIOUS
    <3>3. /\ new \in SUBSET Bits /\ flags[e] \cap {"OPEN", "TX", "RX"} \subseteq new
          /\ "CONNECTED" \in new => "CONNECTED" \in flags[e]
      BY <3>2 DEF Bits, Local, EntryTypes
    <3>4. flags' = [flags EXCEPT ![e] = new]
      BY <2>2, <3>1, <3>2
    <3>5. NoType \in Types \cup {NoType} /\ NoEndpoint \in Peers
      BY DEF Peers
    <3>6. QED
      BY <1>1, <2>2, <3>3, <3>4, <3>5, LocalKept
  <2>3. CASE UNCHANGED <<flags, chanType, foreign>>
    BY <1>1, <1>2, <2>3, LocalSame
  <2>4. QED
    BY <1>6, <2>1, <2>2, <2>3 DEF HandleConnectAck
<1>7. QED
  BY <1>4, <1>5, <1>6

\* MCAPI_OPEN_TX and _RX, their acknowledgements, the answer to a connect, and a FIN.
LEMMA LocalHandled ==
  ASSUME Local, NetInv, NEW n \in Nodes,
         \/ \E side \in Sides : HandleOpen(n, side) \/ HandleOpenAck(n, side)
         \/ HandleConnectResponse(n) \/ HandleFin(n)
  PROVE  Local'
<1> DEFINE m == Head(control[n])
<1>1. /\ UNCHANGED <<chanType, foreign, early, opens>>
      /\ EntryTypes /\ CallTypes /\ early \in BOOLEAN /\ NoType \in Types \cup {NoType}
      /\ "failed" \in Results \ {"pending"}
  BY DEF HandleOpen, HandleOpenAck, HandleConnectResponse, HandleFin, entries,
         Local, CountTypes, Results
<1>2. ASSUME NEW e \in Endpoints, NEW side \in Sides, Exists(e), Acknowledge(e, side)
      PROVE  Local'
  <2>1. /\ flags' \in [Endpoints -> SUBSET Bits] /\ CallTypes'
        /\ \A f \in Endpoints :
             /\ flags[f] \subseteq flags'[f]
             /\ opening'[f] = "pending" =>
                  /\ opening[f] = "pending"
                  /\ "CONNECTED" \in flags'[f] => "CONNECTED" \in flags[f]
    BY <1>1, <1>2, Acknowledged
  <2>2. EntryTypes' /\ CountTypes'
    BY <1>1, <2>1 DEF Local, EntryTypes, CountTypes
  <2>3. OpenInv'
    BY <2>1 DEF Local, OpenInv, IsConnected
  <2>4. QED
    BY <2>1, <2>2, <2>3 DEF Local
<1>3. ASSUME NEW e \in Endpoints, NEW gone \in SUBSET Bits, Resume(e, "failed"),
             flags' = [flags EXCEPT ![e] = @ \ gone]
      PROVE  Local'
  <2>1. /\ CallTypes'
        /\ \A f \in Endpoints : opening'[f] = "pending" => opening[f] = "pending" /\ f # e
    BY <1>1, <1>3, Resumed
  <2>2. PICK new \in SUBSET Bits : new = flags[e] \ gone
    BY <1>1 DEF EntryTypes
  <2>3. flags' = [flags EXCEPT ![e] = new]
    BY <1>3, <2>2
  <2>4. QED
    BY <1>1, <2>1, <2>3, LocalEnded
<1>4. ASSUME UNCHANGED <<flags, requests>>
      PROVE  Local'
  <2>1. UNCHANGED <<opening, connect>>
    BY <1>4 DEF requests
  <2>2. CallTypes'
    BY <1>1, <2>1 DEF CallTypes
  <2>3. QED
    BY <1>1, <1>4, <2>1, <2>2, LocalSame
<1>5. ASSUME NEW side \in Sides, HandleOpen(n, side)
      PROVE  Local'
  <2>1. PICK e : e = EndOf(m, Peer(side))
    OBVIOUS
  <2>2. \/ Exists(e) /\ Acknowledge(e, side)
        \/ UNCHANGED <<flags, requests>>
    BY <1>5, <2>1 DEF HandleOpen
  <2>3. QED
    BY <1>2, <1>4, <2>2 DEF Exists
<1>6. ASSUME NEW side \in Sides, HandleOpenAck(n, side)
      PROVE  Local'
  <2>1. PICK e : e = EndOf(m, side)
    OBVIOUS
  <2>2. \/ Exists(e) /\ Acknowledge(e, side)
        \/ Exists(e) /\ flags' = [flags EXCEPT ![e] = @ \ {side}] /\ Resume(e, "failed")
        \/ UNCHANGED <<flags, requests>>
    BY <1>6, <2>1 DEF HandleOpenAck
  <2>3. {side} \in SUBSET Bits
    BY DEF Sides, Bits
  <2>4. QED
    BY <1>2, <1>3, <1>4, <2>2, <2>3 DEF Exists
<1>7. ASSUME HandleConnectResponse(n)
      PROVE  Local'
  <2>1. UNCHANGED <<flags, chanType, foreign, opens, early, opening>>
    BY <1>7 DEF HandleConnectResponse, entries
  <2>2. CallTypes'
    BY <1>1, <1>7, <2>1 DEF HandleConnectResponse, CallTypes, Results
  <2>3. QED
    BY <2>1, <2>2, LocalSame
<1>8. ASSUME HandleFin(n)
      PROVE  Local'
  <2>1. \/ /\ Exists(m.rx) /\ Resume(m.rx, "failed")
           /\ flags' = [flags EXCEPT ![m.rx] = @ \ {"CONNECTED", "CONNECTING"}]
        \/ UNCHANGED <<flags, requests>>
    BY <1>8 DEF HandleFin
  <2>2. {"CONNECTED", "CONNECTING"} \in SUBSET Bits
    BY DEF Bits
  <2>3. QED
    BY <1>3, <1>4, <2>1, <2>2 DEF Exists
<1>9. QED
  BY <1>5, <1>6, <1>7, <1>8

\* Every step keeps the endpoints and the calls in order.
LEMMA LocalStep ==
  ASSUME TypeInv, OpenInv, [Next]_vars
  PROVE  Local'
<1>1. Local /\ NetInv
  BY DEF TypeInv, Local
<1>2. CASE \E c \in Calls : Connect(c)
  BY <1>1, <1>2, LocalConnect
<1>3. CASE \E o \in OpenAs : Open(o.ep, o.side, o.type)
  <2>1. PICK o \in OpenAs : Open(o.ep, o.side, o.type)
    BY <1>3
  <2>2. o.ep \in Endpoints /\ o.side \in Sides /\ o.type \in Types
    BY ConnectionAssumption
  <2>3. QED
    BY <1>1, <2>1, <2>2, LocalOpen
<1>4. CASE \/ \E e \in Closers, side \in Sides, type \in Types : Close(e, side, type)
           \/ \E e \in Closers : Cancel(e) \/ Delete(e)
  BY <1>1, <1>4, LocalGone, ConnectionAssumption
<1>5. CASE \/ \E e \in Closers : Create(e)
           \/ \E c \in Calls : CancelConnect(c)
           \/ \E d \in Datagrams : SendDatagram(d)
  BY <1>1, <1>5, LocalRenewed
<1>6. CASE \E n \in Nodes : ControlTask(n)
  BY <1>1, <1>6, LocalSetUp, LocalHandled DEF ControlTask
<1>7. CASE UNCHANGED vars
  <2>1. UNCHANGED <<flags, chanType, foreign, opens, early, opening, connect>>
    BY <1>7 DEF vars, entries, requests
  <2>2. CallTypes'
    BY <1>1, <2>1 DEF Local, CallTypes
  <2>3. QED
    BY <1>1, <2>1, <2>2, LocalSame
<1>8. QED
  BY <1>2, <1>3, <1>4, <1>5, <1>6, <1>7 DEF Next

\* The history of FINs that ended something else stays a yes or no.
LEMMA StrayStep ==
  ASSUME stray \in BOOLEAN, [Next]_vars
  PROVE  stray' \in BOOLEAN
<1>1. CASE \E n \in Nodes : HandleFin(n)
  BY <1>1 DEF HandleFin
<1>2. CASE \/ \E c \in Calls : Connect(c) \/ CancelConnect(c)
           \/ \E o \in OpenAs : Open(o.ep, o.side, o.type)
           \/ \E e \in Closers, side \in Sides, type \in Types : Close(e, side, type)
           \/ \E e \in Closers : Cancel(e) \/ Delete(e) \/ Create(e)
           \/ \E d \in Datagrams : SendDatagram(d)
           \/ UNCHANGED vars
  BY <1>2 DEF Connect, CancelConnect, Open, Close, Cancel, Delete, Create, SendDatagram, vars
<1>3. CASE \E n \in Nodes :
             \/ HandleConnectRequest(n) \/ HandleConnectSyn(n) \/ HandleConnectAck(n)
             \/ \E side \in Sides : HandleOpen(n, side) \/ HandleOpenAck(n, side)
             \/ HandleConnectResponse(n)
  BY <1>3 DEF HandleConnectRequest, HandleConnectSyn, HandleConnectAck, HandleOpen,
              HandleOpenAck, HandleConnectResponse
<1>4. QED
  BY <1>1, <1>2, <1>3 DEF Next, ControlTask

-----------------------------------------------------------------------------
(* The theorems.                                                           *)

Inv == TypeInv /\ OpenInv /\ stray \in BOOLEAN

\* A state of the types, in which every open that waits waits for its peer and, as
\* long as there was no mishap, every connect that waits has its answer under way.
THEOREM ConnectionInvariant == Spec => []Inv
<1>1. ASSUME Init PROVE Inv
  <2>1. EntryTypes
    BY <1>1 DEF Init, EntryTypes, Bits, Peers
  <2>2. CallTypes
    BY <1>1 DEF Init, CallTypes, Results
  <2>3. CountTypes
    <3>1. opens = [e \in Endpoints |-> 0] /\ early \in BOOLEAN
      BY <1>1 DEF Init
    <3>2. opens \in [Endpoints -> Nat] /\ \A e \in Endpoints : opens[e] <= MaxOpens[e]
      BY <3>1, ConnectionAssumption
    <3>3. QED
      BY <3>1, <3>2 DEF CountTypes
  <2>4. NetInv
    <3>1. control \in Control /\ AllAddressed(control)
      BY <1>1 DEF Init, Control, AllAddressed
    <3>2. mishaps \in 0 .. MaxMishaps /\ \A c \in Calls : connect[c] # "pending"
      BY <1>1, ConnectionAssumption DEF Init
    <3>3. QED
      BY <3>1, <3>2 DEF NetInv, NetFine
  <2>5. OpenInv
    BY <1>1 DEF Init, OpenInv
  <2>6. QED
    BY <1>1, <2>1, <2>2, <2>3, <2>4, <2>5 DEF Init, Inv, TypeInv
<1>2. ASSUME Inv, [Next]_vars PROVE Inv'
  <2>1. NetInv'
    BY <1>2, NetStep DEF Inv
  <2>2. Local'
    BY <1>2, LocalStep DEF Inv
  <2>3. stray' \in BOOLEAN
    BY <1>2, StrayStep DEF Inv
  <2>4. QED
    BY <2>1, <2>2, <2>3 DEF Inv, TypeInv, Local
<1>3. QED
  BY <1>1, <1>2, PTL DEF Spec

\* mcapi_state, the channel types, the control messages and the requests stay within
\* their types, whatever is closed, deleted and cancelled while messages are under way.
THEOREM TypeCorrect == Spec => []TypeOK
<1>1. ASSUME Inv PROVE TypeOK
  <2>1. /\ mishaps \in 0 .. MaxMishaps /\ control \in [Nodes -> Seq(Messages)]
    BY <1>1 DEF Inv, TypeInv, NetInv, NetFine, Control
  <2>2. \A e \in Endpoints : opens[e] \in 0 .. MaxOpens[e]
    BY <1>1, ConnectionAssumption DEF Inv, TypeInv, CountTypes
  <2>3. QED
    BY <1>1, <2>1, <2>2 DEF TypeOK, Inv, TypeInv, EntryTypes, CallTypes, CountTypes
<1>2. QED
  BY <1>1, ConnectionInvariant, PTL

\* Nobody still waits for an endpoint to open that is connected, or whose open was taken
\* back: every change of its bits that ends an open answers the call.
THEOREM OpensWait == Spec => []OpenWaitsForPeer
<1>1. ASSUME Inv PROVE OpenWaitsForPeer
  BY <1>1 DEF Inv, OpenInv, OpenWaitsForPeer
<1>2. QED
  BY <1>1, ConnectionInvariant, PTL

\* As long as every control message could be sent, a call of mcapi_connect that waits
\* has its request, its SYN, its ACK or its response under way.
THEOREM AnswersUnderWay == Spec => []AnswerUnderWay
<1>1. ASSUME Inv PROVE AnswerUnderWay
  <2>1. mishaps = 0 => \A c \in Calls : connect[c] = "pending" => About(control, c)
    BY <1>1 DEF Inv, TypeInv, NetInv, NetFine
  <2>2. QED
    BY <2>1 DEF AnswerUnderWay, About, Brings
<1>2. QED
  BY <1>1, ConnectionInvariant, PTL

-----------------------------------------------------------------------------
(* The order of what is under way.                                         *)

\* A message of S is in the queue; one of T is in it after one of S.
HasIn(q, S) == \E i \in 1 .. Len(q) : q[i] \in S
Follows(q, S, T) == \E i, j \in 1 .. Len(q) : i < j /\ q[i] \in S /\ q[j] \in T

\* A message joins a queue behind all others.
LEMMA Appended ==
  ASSUME NEW q \in Seq(Messages), NEW m \in Messages, NEW S, NEW T
  PROVE  /\ HasIn(Append(q, m), S) <=> HasIn(q, S) \/ m \in S
         /\ Follows(Append(q, m), S, T) <=> Follows(q, S, T) \/ (HasIn(q, S) /\ m \in T)
<1> DEFINE l == Len(q)
<1>1. PICK p : p = Append(q, m)
  OBVIOUS
<1>2. /\ l \in Nat /\ Len(p) = l + 1 /\ p[l + 1] = m
      /\ \A i \in 1 .. l : p[i] = q[i]
  BY <1>1
<1>3. /\ \A i \in 1 .. Len(p) : i \in 1 .. l \/ i = l + 1
      /\ \A i \in 1 .. l : i \in 1 .. Len(p) /\ i < l + 1 /\ ~(l + 1 < i)
      /\ l + 1 \in 1 .. Len(p) /\ ~(l + 1 < l + 1)
  BY <1>2
<1> HIDE DEF l
<1>4. HasIn(p, S) <=> HasIn(q, S) \/ m \in S
  BY <1>2, <1>3 DEF HasIn, l
<1>5. ASSUME Follows(q, S, T) \/ (HasIn(q, S) /\ m \in T)
      PROVE  Follows(p, S, T)
  BY <1>2, <1>3, <1>5 DEF HasIn, Follows, l
<1>6. ASSUME Follows(p, S, T)
      PROVE  Follows(q, S, T) \/ (HasIn(q, S) /\ m \in T)
  <2>1. PICK i \in 1 .. Len(p), j \in 1 .. Len(p) : i < j /\ p[i] \in S /\ p[j] \in T
    BY <1>6 DEF Follows
  <2>2. i \in 1 .. l
    BY <1>3, <2>1
  <2>3. q[i] \in S /\ HasIn(q, S)
    BY <1>2, <2>1, <2>2 DEF HasIn, l
  <2>4. CASE j = l + 1
    BY <1>2, <2>1, <2>3, <2>4
  <2>5. CASE j \in 1 .. l
    BY <1>2, <2>1, <2>2, <2>3, <2>5 DEF Follows, l
  <2>6. QED
    BY <1>3, <2>4, <2>5
<1>7. QED
  BY <1>1, <1>4, <1>5, <1>6

\* The first message of a queue is before all others.
LEMMA Headed ==
  ASSUME NEW q \in Seq(Messages), q # <<>>, NEW S, NEW T
  PROVE  /\ HasIn(q, S) <=> Head(q) \in S \/ HasIn(Tail(q), S)
         /\ Follows(q, S, T) <=>
              Follows(Tail(q), S, T) \/ (Head(q) \in S /\ HasIn(Tail(q), T))
<1> DEFINE l == Len(q)
<1>1. PICK p : p = Tail(q)
  OBVIOUS
<1>2. /\ l \in Nat /\ l > 0 /\ Len(p) = l - 1 /\ Head(q) = q[1]
      /\ \A i \in 1 .. l - 1 : p[i] = q[i + 1]
  BY <1>1
<1>3. /\ 1 \in 1 .. l
      /\ \A i \in 1 .. Len(p) : i + 1 \in 1 .. l /\ 1 < i + 1 /\ p[i] = q[i + 1]
      /\ \A i \in 1 .. l : i # 1 => i - 1 \in 1 .. Len(p) /\ p[i - 1] = q[i]
      /\ \A i, j \in 1 .. Len(p) : i < j => i + 1 < j + 1
      /\ \A i, j \in 1 .. l : i < j => j # 1 /\ i - 1 < j - 1
  BY <1>2
<1> HIDE DEF l
<1>4. HasIn(q, S) <=> q[1] \in S \/ HasIn(p, S)
  BY <1>3 DEF HasIn, l
<1>5. ASSUME Follows(p, S, T) \/ (q[1] \in S /\ HasIn(p, T))
      PROVE  Follows(q, S, T)
  BY <1>3, <1>5 DEF HasIn, Follows, l
<1>6. ASSUME Follows(q, S, T)
      PROVE  Follows(p, S, T) \/ (q[1] \in S /\ HasIn(p, T))
  <2>1. PICK i \in 1 .. l, j \in 1 .. l : i < j /\ q[i] \in S /\ q[j] \in T
    BY <1>6 DEF Follows, l
  <2>2. j # 1 /\ i - 1 < j - 1 /\ j - 1 \in 1 .. Len(p) /\ p[j - 1] \in T
    BY <1>3, <2>1
  <2>3. CASE i = 1
    BY <2>1, <2>2, <2>3 DEF HasIn
  <2>4. CASE i # 1
    <3>1. i - 1 \in 1 .. Len(p) /\ p[i - 1] \in S
      BY <1>3, <2>1, <2>4
    <3>2. QED
      BY <2>2, <3>1 DEF Follows
  <2>5. QED
    BY <2>3, <2>4
<1>7. QED
  BY <1>1, <1>2, <1>4, <1>5, <1>6

\* A message m is added to queue n of L, which makes P of it.
Posts(L, P, n, m) ==
  \A k \in Nodes : \A S, T :
    /\ HasIn(P[k], S) <=> HasIn(L[k], S) \/ (k = n /\ m \in S)
    /\ Follows(P[k], S, T) <=>
         Follows(L[k], S, T) \/ (k = n /\ HasIn(L[k], S) /\ m \in T)

LEMMA QueueGrown ==
  ASSUME NEW L \in Control, NEW P \in Control, NEW n \in Nodes, NEW m \in Messages,
         P[n] = Append(L[n], m), \A k \in Nodes : k # n => P[k] = L[k]
  PROVE  Posts(L, P, n, m)
<1>1. PICK q \in Seq(Messages), p \in Seq(Messages) :
        q = L[n] /\ p = Append(q, m) /\ p = P[n]
  BY DEF Control
<1>2. ASSUME NEW k \in Nodes, NEW S, NEW T
      PROVE  /\ HasIn(P[k], S) <=> HasIn(L[k], S) \/ (k = n /\ m \in S)
             /\ Follows(P[k], S, T) <=>
                  Follows(L[k], S, T) \/ (k = n /\ HasIn(L[k], S) /\ m \in T)
  <2>1. /\ HasIn(p, S) <=> HasIn(q, S) \/ m \in S
        /\ Follows(p, S, T) <=> Follows(q, S, T) \/ (HasIn(q, S) /\ m \in T)
    BY <1>1, Appended
  <2>2. QED
    BY <1>1, <2>1
<1>3. QED
  BY <1>2 DEF Posts

\* A message that is sent joins its queue, else nothing happens.
LEMMA SentPosts ==
  ASSUME NEW L \in Control, NEW n \in Nodes, NEW m \in Messages, NEW sent \in BOOLEAN
  PROVE  /\ Post(L, n, m, sent) \in Control
         /\ sent => Posts(L, Post(L, n, m, sent), n, m)
         /\ ~sent => Post(L, n, m, sent) = L
<1>1. CASE ~sent
  BY <1>1 DEF Post
<1>2. CASE sent
  <2>1. PICK p \in Seq(Messages) : p = Append(L[n], m)
    <3>1. L[n] \in Seq(Messages)
      BY DEF Control
    <3>2. Append(L[n], m) \in Seq(Messages)
      BY <3>1
    <3>3. QED
      BY <3>2
  <2>2. PICK P : P = [L EXCEPT ![n] = p]
    OBVIOUS
  <2>3. P \in Control /\ P[n] = p /\ \A k \in Nodes : k # n => P[k] = L[k]
    BY <2>1, <2>2 DEF Control
  <2>4. Posts(L, P, n, m)
    BY <2>1, <2>3, QueueGrown
  <2>5. Post(L, n, m, sent) = P
    BY <1>2, <2>1, <2>2 DEF Post
  <2>6. QED
    BY <1>2, <2>3, <2>4, <2>5
<1>3. QED
  BY <1>1, <1>2

\* What posting a message changes in the queues.
LEMMA QueuePosted ==
  ASSUME NEW L \in Control, NEW n \in Nodes, NEW m \in Messages, NEW sent \in BOOLEAN,
         NEW k \in Nodes, NEW S, NEW T
  PROVE  /\ Post(L, n, m, sent) \in Control
         /\ HasIn(Post(L, n, m, sent)[k], S) <=>
              HasIn(L[k], S) \/ (sent /\ k = n /\ m \in S)
         /\ Follows(Post(L, n, m, sent)[k], S, T) <=>
              Follows(L[k], S, T) \/ (sent /\ k = n /\ HasIn(L[k], S) /\ m \in T)
<1>1. CASE ~sent
  BY <1>1, SentPosts
<1>2. CASE sent
  <2>1. PICK P \in Control : P = Post(L, n, m, sent) /\ Posts(L, P, n, m)
    BY <1>2, SentPosts
  <2>2. /\ HasIn(P[k], S) <=> HasIn(L[k], S) \/ (k = n /\ m \in S)
        /\ Follows(P[k], S, T) <=>
             Follows(L[k], S, T) \/ (k = n /\ HasIn(L[k], S) /\ m \in T)
    BY <2>1 DEF Posts
  <2>3. QED
    BY <1>2, <2>1, <2>2
<1>3. QED
  BY <1>1, <1>2

\* What the control task changes in them when it takes a message.
LEMMA QueueTaken ==
  ASSUME control \in Control, NEW n \in Nodes, control[n] # <<>>,
         NEW k \in Nodes, NEW S, NEW T
  PROVE  /\ Taken(n) \in Control /\ Head(control[n]) \in Messages
         /\ HasIn(control[k], S) <=>
              HasIn(Taken(n)[k], S) \/ (k = n /\ Head(control[n]) \in S)
         /\ Follows(control[k], S, T) <=>
              \/ Follows(Taken(n)[k], S, T)
              \/ k = n /\ Head(control[n]) \in S /\ HasIn(Taken(n)[k], T)
<1>1. control[n] \in Seq(Messages)
  BY DEF Control
<1>2. Tail(control[n]) \in Seq(Messages) /\ Head(control[n]) \in Messages
  BY <1>1
<1>3. PICK P : P = Taken(n)
  OBVIOUS
<1>4. P \in Control /\ P[n] = Tail(control[n]) /\ (k # n => P[k] = control[k])
  BY <1>2, <1>3 DEF Taken, Control
<1>5. /\ HasIn(control[n], S) <=> Head(control[n]) \in S \/ HasIn(Tail(control[n]), S)
      /\ Follows(control[n], S, T) <=>
           \/ Follows(Tail(control[n]), S, T)
           \/ Head(control[n]) \in S /\ HasIn(Tail(control[n]), T)
  BY <1>1, Headed
<1>6. QED
  BY <1>2, <1>3, <1>4, <1>5

\* The messages under way, wherever they are.
Way(L) == {m \in Messages : \E n \in Nodes : HasIn(L[n], {m})}

\* At most one message of S is under way.
Once(L, S) ==
  \A n, k \in Nodes : /\ ~Follows(L[n], S, S)
                      /\ HasIn(L[n], S) /\ HasIn(L[k], S) => n = k

\* A message of a set is in a queue if some message under way is one of the set.
LEMMA OnWay ==
  ASSUME NEW L \in Control, NEW S
  PROVE  Way(L) \cap S = {} <=> \A n \in Nodes : ~HasIn(L[n], S)
<1>1. ASSUME NEW n \in Nodes, HasIn(L[n], S)
      PROVE  Way(L) \cap S # {}
  <2>1. PICK i \in 1 .. Len(L[n]) : L[n][i] \in S
    BY <1>1 DEF HasIn
  <2>2. L[n] \in Seq(Messages)
    BY DEF Control
  <2>3. L[n][i] \in Messages
    BY <2>1, <2>2
  <2>4. HasIn(L[n], {L[n][i]})
    BY DEF HasIn
  <2>5. QED
    BY <2>1, <2>3, <2>4 DEF Way
<1>2. ASSUME NEW m \in Way(L) \cap S
      PROVE  \E n \in Nodes : HasIn(L[n], S)
  BY <1>2 DEF Way, HasIn
<1>3. QED
  BY <1>1, <1>2

\* What posting a message changes in what is under way.
LEMMA WayPosted ==
  ASSUME NEW L \in Control, NEW n \in Nodes, NEW m \in Messages, NEW sent \in BOOLEAN
  PROVE  /\ Post(L, n, m, sent) \in Control
         /\ Way(Post(L, n, m, sent)) = Way(L) \cup (IF sent THEN {m} ELSE {})
<1>1. PICK P : P = Post(L, n, m, sent)
  OBVIOUS
<1>2. \A k \in Nodes, x \in Messages :
        HasIn(P[k], {x}) <=> HasIn(L[k], {x}) \/ (sent /\ k = n /\ m = x)
  <2>1. ASSUME NEW k \in Nodes, NEW x \in Messages
        PROVE  HasIn(P[k], {x}) <=> HasIn(L[k], {x}) \/ (sent /\ k = n /\ m \in {x})
    <3>1. PICK S : S = {x}
      OBVIOUS
    <3>2. HasIn(P[k], S) <=> HasIn(L[k], S) \/ (sent /\ k = n /\ m \in S)
      BY <1>1, QueuePosted
    <3>3. QED
      BY <3>1, <3>2
  <2>2. QED
    BY <2>1
<1>3. P \in Control
  BY <1>1, QueuePosted
<1>4. \A x \in Messages : x \in Way(P) <=> x \in Way(L) \/ (sent /\ x = m)
  BY <1>2 DEF Way
<1>5. Way(P) \subseteq Messages /\ Way(L) \subseteq Messages
  BY DEF Way
<1>6. QED
  BY <1>1, <1>3, <1>4, <1>5

\* A message that is alone of its kind stays so, and is posted where there was none.
LEMMA OncePosted ==
  ASSUME NEW L \in Control, NEW n \in Nodes, NEW m \in Messages, NEW sent \in BOOLEAN,
         NEW S, Once(L, S), m \in S => Way(L) \cap S = {}
  PROVE  Once(Post(L, n, m, sent), S)
<1>1. PICK P : P = Post(L, n, m, sent)
  OBVIOUS
<1>2. \A k \in Nodes :
        /\ HasIn(P[k], S) <=> HasIn(L[k], S) \/ (sent /\ k = n /\ m \in S)
        /\ Follows(P[k], S, S) <=>
             Follows(L[k], S, S) \/ (sent /\ k = n /\ HasIn(L[k], S) /\ m \in S)
  BY <1>1, QueuePosted
<1>3. m \in S => \A k \in Nodes : ~HasIn(L[k], S)
  BY OnWay
<1>4. Once(P, S)
  BY <1>2, <1>3 DEF Once
<1>5. QED
  BY <1>1, <1>4

\* What taking a message changes in what is under way.
LEMMA WayTaken ==
  ASSUME control \in Control, NEW n \in Nodes, control[n] # <<>>
  PROVE  /\ Taken(n) \in Control /\ Head(control[n]) \in Way(control)
         /\ Way(control) = Way(Taken(n)) \cup {Head(control[n])}
<1>1. PICK P, h : P = Taken(n) /\ h = Head(control[n])
  OBVIOUS
<1>2. P \in Control /\ h \in Messages
  BY <1>1, QueueTaken
<1>3. \A k \in Nodes, x \in Messages :
        HasIn(control[k], {x}) <=> HasIn(P[k], {x}) \/ (k = n /\ h = x)
  <2>1. ASSUME NEW k \in Nodes, NEW x \in Messages
        PROVE  HasIn(control[k], {x}) <=> HasIn(P[k], {x}) \/ (k = n /\ h \in {x})
    BY <1>1, QueueTaken
  <2>2. QED
    BY <2>1
<1>4. \A x \in Messages : x \in Way(control) <=> x \in Way(P) \/ x = h
  BY <1>3 DEF Way
<1>5. Way(P) \subseteq Messages /\ Way(control) \subseteq Messages
  BY DEF Way
<1>6. QED
  BY <1>1, <1>2, <1>4, <1>5

\* A message that is alone of its kind leaves none when it is taken.
LEMMA OnceTaken ==
  ASSUME control \in Control, NEW n \in Nodes, control[n] # <<>>, NEW S, Once(control, S)
  PROVE  /\ Once(Taken(n), S)
         /\ Head(control[n]) \in S => Way(Taken(n)) \cap S = {}
<1>1. PICK P, h : P = Taken(n) /\ h = Head(control[n])
  OBVIOUS
<1>2. P \in Control
  BY <1>1, QueueTaken
<1>3. \A k \in Nodes :
        /\ HasIn(control[k], S) <=> HasIn(P[k], S) \/ (k = n /\ h \in S)
        /\ Follows(control[k], S, S) <=>
             Follows(P[k], S, S) \/ (k = n /\ h \in S /\ HasIn(P[k], S))
  BY <1>1, QueueTaken
<1>4. Once(P, S)
  BY <1>3 DEF Once
<1>5. ASSUME h \in S PROVE Way(P) \cap S = {}
  <2>1. \A k \in Nodes : ~HasIn(P[k], S)
    BY <1>3, <1>5 DEF Once
  <2>2. QED
    BY <1>2, <2>1, OnWay
<1>6. QED
  BY <1>1, <1>4, <1>5

-----------------------------------------------------------------------------
(* The messages of a handshake.                                            *)

On(e) == "CONNECTING" \in flags[e]
\* The messages of the handshake of t; what names the two ends of a channel to be.
Shake(t) == {m \in Messages : m.kind \in {"CONNECT_SYN", "CONNECT_ACK"} /\ m.tx = t}
Hailing == {"CONNECT_REQUEST", "CONNECT_SYN", "CONNECT_ACK"}

\* What a reply keeps of the message, and what not.
LEMMA ReplyKeeps ==
  ASSUME NEW m \in Messages, NEW kind \in Kinds, NEW ok \in BOOLEAN
  PROVE  /\ Reply(m, kind, ok) \in Messages
         /\ Reply(m, kind, ok).kind = kind /\ Reply(m, kind, ok).ok = ok
         /\ Reply(m, kind, ok).tx = m.tx /\ Reply(m, kind, ok).rx = m.rx
         /\ Reply(m, kind, ok).type = m.type
  BY DEF Reply, Messages

-----------------------------------------------------------------------------
(* Who is connected to whom, and what is on its way to change that.  O is  *)
(* the set of endpoints that are taken, F names their peers and L has the  *)
(* messages under way.                                                     *)

Syn(t, r)   == {m \in Messages : m.kind = "CONNECT_SYN" /\ m.tx = t /\ m.rx = r}
AckOk(t, r) == {m \in Messages : m.kind = "CONNECT_ACK" /\ m.ok /\ m.tx = t /\ m.rx = r}
Fins(f, e)  == {m \in Messages : m.kind = "CONNECT_FIN" /\ m.tx = f /\ m.rx = e}

\* A control message is about endpoints, and in the queue of the one that handles it.
Placed(m, n) ==
  /\ m.kind \in Hailing \cup {"CONNECT_FIN"} => m.tx \in Endpoints /\ m.rx \in Endpoints
  /\ m.kind \in {"CONNECT_SYN", "CONNECT_FIN"} => n = Home[m.rx]
  /\ m.kind = "CONNECT_ACK" => n = Home[m.tx] /\ (m.ok => m.tx # m.rx)
Misplaced(n) == {m \in Messages : ~Placed(m, n)}

\* The handshake of t is under way.
Shaking(L, t) == \E n \in Nodes : HasIn(L[n], Shake(t))

\* Endpoint e is connected to f, as far as it knows; and f to e.
Bound(O, F, L, e, f) == e \in O /\ F[e] = f /\ ~Shaking(L, e)
Linked(O, F, L, e, f) == Bound(O, F, L, e, f) /\ Bound(O, F, L, f, e)

\* A handshake has one message under way, and its sender is taken.
Handshaken(O, L) ==
  \A t \in Endpoints : Once(L, Shake(t)) /\ (Shaking(L, t) => t \in O)

\* Who is connected to an endpoint that is not connected to it has a FIN coming, or has
\* accepted a sender that is not yet told.
Answered(O, F, L) ==
  \A e \in Endpoints, f \in Peers : Bound(O, F, L, e, f) =>
    /\ f \in Endpoints
    /\ \/ Linked(O, F, L, e, f)
       \/ HasIn(L[Home[e]], Fins(f, e))
       \/ HasIn(L[Home[f]], AckOk(f, e))

\* The sender of an ACK is still connected, and no FIN is under way between the two; or
\* its FIN follows.
Confirmed(O, F, L) ==
  \A t, r \in Endpoints : HasIn(L[Home[t]], AckOk(t, r)) =>
    \/ /\ Bound(O, F, L, r, t) /\ ~HasIn(L[Home[r]], Fins(t, r))
       /\ ~Follows(L[Home[t]], AckOk(t, r), Fins(r, t))
    \/ /\ ~Bound(O, F, L, r, t)
       /\ Follows(L[Home[t]], AckOk(t, r), Fins(r, t))

\* No FIN comes between endpoints that agree, none behind a SYN from where it came, and
\* of two endpoints one accepts the other.
Undisturbed(O, F, L) ==
  /\ \A e, f \in Endpoints : Linked(O, F, L, e, f) => ~HasIn(L[Home[e]], Fins(f, e))
  /\ \A t, r \in Endpoints : ~Follows(L[Home[r]], Syn(t, r), Fins(t, r))
  /\ \A t, r \in Endpoints :
       ~(HasIn(L[Home[t]], AckOk(t, r)) /\ HasIn(L[Home[r]], AckOk(r, t)))

EndsOk(O, F, L) ==
  /\ \A n \in Nodes : ~HasIn(L[n], Misplaced(n))
  /\ Handshaken(O, L) /\ Answered(O, F, L) /\ Confirmed(O, F, L)
  /\ Undisturbed(O, F, L)

\* Which messages are of a handshake, and which of them accept.
LEMMA Sorted ==
  ASSUME NEW m \in Messages
  PROVE  /\ \A t : m \in Shake(t) <=> m.kind \in {"CONNECT_SYN", "CONNECT_ACK"} /\ m.tx = t
         /\ \A t, r : m \in Syn(t, r) <=> m.kind = "CONNECT_SYN" /\ m.tx = t /\ m.rx = r
         /\ \A t, r : m \in AckOk(t, r) <=>
              m.kind = "CONNECT_ACK" /\ m.ok /\ m.tx = t /\ m.rx = r
         /\ \A f, e : m \in Fins(f, e) <=> m.kind = "CONNECT_FIN" /\ m.tx = f /\ m.rx = e
         /\ \A n : m \in Misplaced(n) <=> ~Placed(m, n)
  BY DEF Shake, Syn, AckOk, Fins, Misplaced

\* A SYN and an ACK are messages of the handshake.
LEMMA OfShake ==
  ASSUME NEW q, NEW t, NEW r
  PROVE  /\ HasIn(q, Syn(t, r)) => HasIn(q, Shake(t))
         /\ HasIn(q, AckOk(t, r)) => HasIn(q, Shake(t))
  BY DEF HasIn, Syn, AckOk, Shake

\* A message m of queue n is taken out of L, which leaves P.
Takes(L, P, n, m) ==
  \A k \in Nodes : \A S, T :
    /\ HasIn(L[k], S) <=> HasIn(P[k], S) \/ (k = n /\ m \in S)
    /\ Follows(L[k], S, T) <=>
         Follows(P[k], S, T) \/ (k = n /\ m \in S /\ HasIn(P[k], T))

\* The two have the same messages about who is connected.
Alike(L, P) ==
  \A k \in Nodes :
    /\ HasIn(P[k], Misplaced(k)) <=> HasIn(L[k], Misplaced(k))
    /\ \A t : /\ HasIn(P[k], Shake(t)) <=> HasIn(L[k], Shake(t))
              /\ Follows(P[k], Shake(t), Shake(t)) <=> Follows(L[k], Shake(t), Shake(t))
    /\ \A t, r :
         /\ HasIn(P[k], AckOk(t, r)) <=> HasIn(L[k], AckOk(t, r))
         /\ HasIn(P[k], Fins(t, r)) <=> HasIn(L[k], Fins(t, r))
         /\ Follows(P[k], Syn(t, r), Fins(t, r)) <=> Follows(L[k], Syn(t, r), Fins(t, r))
         /\ Follows(P[k], AckOk(t, r), Fins(r, t)) <=> Follows(L[k], AckOk(t, r), Fins(r, t))

OfChannels == {"CONNECT_SYN", "CONNECT_ACK", "CONNECT_FIN"}

\* Messages about other things change nothing.
LEMMA AlikePosted ==
  ASSUME NEW L, NEW P, NEW n \in Nodes, NEW m \in Messages, Posts(L, P, n, m),
         m.kind \notin OfChannels, Placed(m, n)
  PROVE  Alike(L, P)
<1>1. /\ \A t : m \notin Shake(t) /\ \A r : m \notin AckOk(t, r) /\ m \notin Fins(t, r)
                                            /\ m \notin Syn(t, r)
      /\ m \notin Misplaced(n)
  BY Sorted DEF OfChannels
<1>2. ASSUME NEW k \in Nodes
      PROVE  HasIn(P[k], Misplaced(k)) <=> HasIn(L[k], Misplaced(k))
  BY <1>1 DEF Posts
<1>3. ASSUME NEW k \in Nodes, NEW t
      PROVE  /\ HasIn(P[k], Shake(t)) <=> HasIn(L[k], Shake(t))
             /\ Follows(P[k], Shake(t), Shake(t)) <=> Follows(L[k], Shake(t), Shake(t))
  BY <1>1 DEF Posts
<1>4. ASSUME NEW k \in Nodes, NEW t, NEW r
      PROVE  /\ HasIn(P[k], AckOk(t, r)) <=> HasIn(L[k], AckOk(t, r))
             /\ HasIn(P[k], Fins(t, r)) <=> HasIn(L[k], Fins(t, r))
  BY <1>1 DEF Posts
<1>5. ASSUME NEW k \in Nodes, NEW t, NEW r
      PROVE  /\ Follows(P[k], Syn(t, r), Fins(t, r)) <=> Follows(L[k], Syn(t, r), Fins(t, r))
             /\ Follows(P[k], AckOk(t, r), Fins(r, t)) <=> Follows(L[k], AckOk(t, r), Fins(r, t))
  BY <1>1 DEF Posts
<1>6. QED
  BY ONLY <1>2, <1>3, <1>4, <1>5 DEF Alike

\* The same when they are taken.
LEMMA AlikeTaken ==
  ASSUME NEW L, NEW P, NEW n \in Nodes, NEW m \in Messages, Takes(L, P, n, m),
         m.kind \notin OfChannels, Placed(m, n)
  PROVE  Alike(L, P)
<1>1. /\ \A t : m \notin Shake(t) /\ \A r : m \notin AckOk(t, r) /\ m \notin Fins(t, r)
                                            /\ m \notin Syn(t, r)
      /\ m \notin Misplaced(n)
  BY Sorted DEF OfChannels
<1>2. ASSUME NEW k \in Nodes
      PROVE  HasIn(P[k], Misplaced(k)) <=> HasIn(L[k], Misplaced(k))
  BY <1>1 DEF Takes
<1>3. ASSUME NEW k \in Nodes, NEW t
      PROVE  /\ HasIn(P[k], Shake(t)) <=> HasIn(L[k], Shake(t))
             /\ Follows(P[k], Shake(t), Shake(t)) <=> Follows(L[k], Shake(t), Shake(t))
  BY <1>1 DEF Takes
<1>4. ASSUME NEW k \in Nodes, NEW t, NEW r
      PROVE  /\ HasIn(P[k], AckOk(t, r)) <=> HasIn(L[k], AckOk(t, r))
             /\ HasIn(P[k], Fins(t, r)) <=> HasIn(L[k], Fins(t, r))
  BY <1>1 DEF Takes
<1>5. ASSUME NEW k \in Nodes, NEW t, NEW r
      PROVE  /\ Follows(P[k], Syn(t, r), Fins(t, r)) <=> Follows(L[k], Syn(t, r), Fins(t, r))
             /\ Follows(P[k], AckOk(t, r), Fins(r, t)) <=> Follows(L[k], AckOk(t, r), Fins(r, t))
  BY <1>1 DEF Takes
<1>6. QED
  BY ONLY <1>2, <1>3, <1>4, <1>5 DEF Alike

\* To be alike is transitive.
LEMMA AlikeBoth ==
  ASSUME NEW L, NEW M, NEW P, Alike(L, M), Alike(M, P)
  PROVE  Alike(L, P)
<1>1. ASSUME NEW k \in Nodes
      PROVE  HasIn(P[k], Misplaced(k)) <=> HasIn(L[k], Misplaced(k))
  BY <1>1 DEF Alike
<1>2. ASSUME NEW k \in Nodes, NEW t
      PROVE  /\ HasIn(P[k], Shake(t)) <=> HasIn(L[k], Shake(t))
             /\ Follows(P[k], Shake(t), Shake(t)) <=> Follows(L[k], Shake(t), Shake(t))
  BY <1>2 DEF Alike
<1>3. ASSUME NEW k \in Nodes, NEW t, NEW r
      PROVE  /\ HasIn(P[k], AckOk(t, r)) <=> HasIn(L[k], AckOk(t, r))
             /\ HasIn(P[k], Fins(t, r)) <=> HasIn(L[k], Fins(t, r))
  BY <1>3 DEF Alike
<1>4. ASSUME NEW k \in Nodes, NEW t, NEW r
      PROVE  /\ Follows(P[k], Syn(t, r), Fins(t, r)) <=> Follows(L[k], Syn(t, r), Fins(t, r))
             /\ Follows(P[k], AckOk(t, r), Fins(r, t)) <=> Follows(L[k], AckOk(t, r), Fins(r, t))
  BY <1>4 DEF Alike
<1>5. QED
  BY ONLY <1>1, <1>2, <1>3, <1>4 DEF Alike

\* What is under way matters only in this respect, and of the peers those of the
\* endpoints that are taken.
LEMMA EndsAlike ==
  ASSUME NEW O \in SUBSET Endpoints, NEW F, NEW G, NEW L, NEW P,
         EndsOk(O, F, L), Alike(L, P), \A e \in O : G[e] = F[e]
  PROVE  EndsOk(O, G, P)
<1>1. \A e \in Endpoints : Home[e] \in Nodes
  BY ConnectionAssumption
<1>2. \A t : Shaking(P, t) <=> Shaking(L, t)
  BY DEF Alike, Shaking
<1>3. \A e, f : Bound(O, G, P, e, f) <=> Bound(O, F, L, e, f)
  BY <1>2 DEF Bound
<1>4. \A e, f : Linked(O, G, P, e, f) <=> Linked(O, F, L, e, f)
  BY <1>3 DEF Linked
<1>5. Handshaken(O, P)
  <2>1. \A t \in Endpoints : Once(P, Shake(t))
    BY DEF EndsOk, Handshaken, Once, Alike
  <2>2. QED
    BY <1>2, <2>1 DEF EndsOk, Handshaken
<1>6. Answered(O, G, P)
  BY <1>1, <1>3, <1>4 DEF EndsOk, Answered, Alike
<1>7. Confirmed(O, G, P)
  BY <1>1, <1>3 DEF EndsOk, Confirmed, Alike
<1>8. Undisturbed(O, G, P)
  BY <1>1, <1>4 DEF EndsOk, Undisturbed, Alike
<1>9. QED
  BY <1>5, <1>6, <1>7, <1>8 DEF EndsOk, Alike

\* A message that joins is alone of its kind.
LEMMA OncePosts ==
  ASSUME NEW L, NEW P, NEW n \in Nodes, NEW m, NEW S, Posts(L, P, n, m), Once(L, S),
         m \in S => \A k \in Nodes : ~HasIn(L[k], S)
  PROVE  Once(P, S)
  BY DEF Posts, Once

\* A message that leaves leaves none of its kind.
LEMMA OnceTakes ==
  ASSUME NEW L, NEW P, NEW n \in Nodes, NEW m, NEW S, Takes(L, P, n, m), Once(L, S)
  PROVE  /\ Once(P, S)
         /\ m \in S => \A k \in Nodes : ~HasIn(P[k], S)
  BY DEF Takes, Once

\* mcapi_connect_endpoints: the send endpoint is taken and its SYN is under way.
LEMMA EndsRequested ==
  ASSUME NEW O \in SUBSET Endpoints, NEW F, NEW L, NEW P, EndsOk(O, F, L),
         NEW t \in Endpoints, t \notin O, NEW r \in Endpoints, NEW m \in Messages,
         m.kind = "CONNECT_SYN", m.tx = t, m.rx = r, Posts(L, P, Home[r], m)
  PROVE  EndsOk(O \cup {t}, F, P)
<1> DEFINE U == O \cup {t}
<1>1. /\ \A e \in Endpoints : Home[e] \in Nodes
      /\ ~Shaking(L, t) /\ \A k \in Nodes : ~HasIn(L[k], Shake(t))
  BY ConnectionAssumption DEF EndsOk, Handshaken, Shaking
<1>2. /\ \A x : m \in Shake(x) <=> x = t
      /\ \A x, y : m \notin AckOk(x, y) /\ m \notin Fins(x, y)
      /\ m \notin Misplaced(Home[r])
  BY Sorted DEF Hailing, Placed
<1>3. \A k \in Nodes :
        /\ HasIn(P[k], Misplaced(k)) <=> HasIn(L[k], Misplaced(k))
        /\ \A x : HasIn(P[k], Shake(x)) <=> HasIn(L[k], Shake(x)) \/ (k = Home[r] /\ x = t)
        /\ \A x, y :
             /\ HasIn(P[k], AckOk(x, y)) <=> HasIn(L[k], AckOk(x, y))
             /\ HasIn(P[k], Fins(x, y)) <=> HasIn(L[k], Fins(x, y))
             /\ Follows(P[k], Syn(x, y), Fins(x, y)) <=> Follows(L[k], Syn(x, y), Fins(x, y))
             /\ Follows(P[k], AckOk(x, y), Fins(y, x)) <=>
                  Follows(L[k], AckOk(x, y), Fins(y, x))
  <2>1. ASSUME NEW k \in Nodes
        PROVE  HasIn(P[k], Misplaced(k)) <=> HasIn(L[k], Misplaced(k))
    BY <1>2 DEF Posts
  <2>2. ASSUME NEW k \in Nodes, NEW x
        PROVE  HasIn(P[k], Shake(x)) <=> HasIn(L[k], Shake(x)) \/ (k = Home[r] /\ x = t)
    BY <1>2 DEF Posts
  <2>3. ASSUME NEW k \in Nodes, NEW x, NEW y
        PROVE  /\ HasIn(P[k], AckOk(x, y)) <=> HasIn(L[k], AckOk(x, y))
               /\ HasIn(P[k], Fins(x, y)) <=> HasIn(L[k], Fins(x, y))
    BY <1>2 DEF Posts
  <2>4. ASSUME NEW k \in Nodes, NEW x, NEW y
        PROVE  /\ Follows(P[k], Syn(x, y), Fins(x, y)) <=> Follows(L[k], Syn(x, y), Fins(x, y))
               /\ Follows(P[k], AckOk(x, y), Fins(y, x)) <=>
                    Follows(L[k], AckOk(x, y), Fins(y, x))
    BY <1>2 DEF Posts
  <2>5. QED
    BY <2>1, <2>2, <2>3, <2>4
<1>4. /\ Shaking(P, t)
      /\ \A x : x # t => (Shaking(P, x) <=> Shaking(L, x))
  BY <1>1, <1>3 DEF Shaking
<1>5. \A e, f : Bound(U, F, P, e, f) <=> Bound(O, F, L, e, f)
  BY <1>4 DEF Bound
<1>6. \A e, f : Linked(U, F, P, e, f) <=> Linked(O, F, L, e, f)
  BY <1>5 DEF Linked
<1> HIDE DEF U
<1>7. Handshaken(U, P)
  <2>1. \A x \in Endpoints : Once(P, Shake(x))
    BY <1>1, <1>2, OncePosts DEF EndsOk, Handshaken
  <2>2. \A x \in Endpoints : Shaking(P, x) => x \in U
    BY <1>4 DEF EndsOk, Handshaken, U
  <2>3. QED
    BY <2>1, <2>2 DEF Handshaken
<1>8. Answered(U, F, P)
  BY <1>1, <1>3, <1>5, <1>6 DEF EndsOk, Answered
<1>9. Confirmed(U, F, P)
  BY <1>1, <1>3, <1>5 DEF EndsOk, Confirmed
<1>10. Undisturbed(U, F, P)
  BY <1>1, <1>3, <1>6 DEF EndsOk, Undisturbed
<1>11. QED
  BY <1>3, <1>7, <1>8, <1>9, <1>10 DEF EndsOk, U

\* A SYN is refused: the receiver is taken.
LEMMA EndsRefused ==
  ASSUME NEW O \in SUBSET Endpoints, NEW F, NEW L, NEW M, NEW P, EndsOk(O, F, L),
         NEW t \in Endpoints, NEW r \in Endpoints, NEW n \in Nodes,
         NEW m \in Messages, m.kind = "CONNECT_SYN", m.tx = t, m.rx = r,
         Takes(L, M, n, m),
         NEW x \in Messages, x.kind = "CONNECT_ACK", ~x.ok, x.tx = t, x.rx = r,
         Posts(M, P, Home[t], x)
  PROVE  EndsOk(O, F, P)
<1>1. \A e \in Endpoints : Home[e] \in Nodes
  BY ConnectionAssumption
<1>2. /\ \A y : m \in Shake(y) <=> y = t
      /\ \A y : x \in Shake(y) <=> y = t
      /\ \A a, b : /\ m \notin AckOk(a, b) /\ m \notin Fins(a, b)
                   /\ x \notin AckOk(a, b) /\ x \notin Fins(a, b) /\ x \notin Syn(a, b)
      /\ x \notin Misplaced(Home[t])
  BY Sorted DEF Hailing, Placed
<1>3. \A k \in Nodes :
        /\ ~HasIn(P[k], Misplaced(k))
        /\ \A y : y # t => (HasIn(P[k], Shake(y)) <=> HasIn(L[k], Shake(y)))
        /\ \A a, b :
             /\ HasIn(P[k], AckOk(a, b)) <=> HasIn(L[k], AckOk(a, b))
             /\ HasIn(P[k], Fins(a, b)) <=> HasIn(L[k], Fins(a, b))
             /\ Follows(P[k], Syn(a, b), Fins(a, b)) => Follows(L[k], Syn(a, b), Fins(a, b))
             /\ Follows(P[k], AckOk(a, b), Fins(b, a)) <=>
                  Follows(L[k], AckOk(a, b), Fins(b, a))
  <2> SUFFICES ASSUME NEW k \in Nodes
               PROVE  /\ ~HasIn(P[k], Misplaced(k))
                      /\ \A y : y # t => (HasIn(P[k], Shake(y)) <=> HasIn(L[k], Shake(y)))
                      /\ \A a, b :
                           /\ HasIn(P[k], AckOk(a, b)) <=> HasIn(L[k], AckOk(a, b))
                           /\ HasIn(P[k], Fins(a, b)) <=> HasIn(L[k], Fins(a, b))
                           /\ Follows(P[k], Syn(a, b), Fins(a, b)) =>
                                Follows(L[k], Syn(a, b), Fins(a, b))
                           /\ Follows(P[k], AckOk(a, b), Fins(b, a)) <=>
                                Follows(L[k], AckOk(a, b), Fins(b, a))
    OBVIOUS
  <2>1. ~HasIn(P[k], Misplaced(k))
    <3>1. ~HasIn(L[k], Misplaced(k))
      BY DEF EndsOk
    <3>2. ~HasIn(M[k], Misplaced(k))
      BY <3>1 DEF Takes
    <3>3. QED
      BY <1>1, <1>2, <3>2 DEF Posts
  <2>2. \A y : y # t => (HasIn(P[k], Shake(y)) <=> HasIn(L[k], Shake(y)))
    BY <1>1, <1>2 DEF Posts, Takes
  <2>3. \A a, b :
          /\ HasIn(M[k], AckOk(a, b)) <=> HasIn(L[k], AckOk(a, b))
          /\ HasIn(M[k], Fins(a, b)) <=> HasIn(L[k], Fins(a, b))
          /\ Follows(M[k], Syn(a, b), Fins(a, b)) => Follows(L[k], Syn(a, b), Fins(a, b))
          /\ Follows(M[k], AckOk(a, b), Fins(b, a)) <=>
               Follows(L[k], AckOk(a, b), Fins(b, a))
    BY <1>2 DEF Takes
  <2>4. \A a, b :
          /\ HasIn(P[k], AckOk(a, b)) <=> HasIn(M[k], AckOk(a, b))
          /\ HasIn(P[k], Fins(a, b)) <=> HasIn(M[k], Fins(a, b))
          /\ Follows(P[k], Syn(a, b), Fins(a, b)) <=> Follows(M[k], Syn(a, b), Fins(a, b))
          /\ Follows(P[k], AckOk(a, b), Fins(b, a)) <=>
               Follows(M[k], AckOk(a, b), Fins(b, a))
    BY <1>1, <1>2 DEF Posts
  <2>5. QED
    BY <2>1, <2>2, <2>3, <2>4
<1>4. Shaking(L, t) /\ Shaking(P, t)
  BY <1>1, <1>2 DEF Takes, Posts, Shaking
<1>5. \A y : Shaking(P, y) <=> Shaking(L, y)
  BY <1>3, <1>4 DEF Shaking
<1>6. \A e, f : Bound(O, F, P, e, f) <=> Bound(O, F, L, e, f)
  BY <1>5 DEF Bound
<1>7. \A e, f : Linked(O, F, P, e, f) <=> Linked(O, F, L, e, f)
  BY <1>6 DEF Linked
<1>8. Handshaken(O, P)
  <2>1. ASSUME NEW y \in Endpoints PROVE Once(P, Shake(y))
    <3>1. Once(M, Shake(y)) /\ (m \in Shake(y) => \A k \in Nodes : ~HasIn(M[k], Shake(y)))
      BY OnceTakes DEF EndsOk, Handshaken
    <3>2. QED
      BY <1>1, <1>2, <3>1, OncePosts
  <2>2. QED
    BY <1>5, <2>1 DEF EndsOk, Handshaken
<1>9. Answered(O, F, P)
  BY <1>1, <1>3, <1>6, <1>7 DEF EndsOk, Answered
<1>10. Confirmed(O, F, P)
  BY <1>1, <1>3, <1>6 DEF EndsOk, Confirmed
<1>11. Undisturbed(O, F, P)
  BY <1>1, <1>3, <1>7 DEF EndsOk, Undisturbed
<1>12. QED
  BY <1>3, <1>8, <1>9, <1>10, <1>11 DEF EndsOk

\* A SYN is accepted: the receiver is connected, as far as it knows.
LEMMA EndsAccepted ==
  ASSUME NEW O \in SUBSET Endpoints, NEW F, NEW G, NEW L, NEW M, NEW P, EndsOk(O, F, L),
         NEW t \in Endpoints, NEW r \in Endpoints, r \notin O,
         G[r] = t, \A e \in Endpoints : e # r => G[e] = F[e],
         NEW n \in Nodes,
         NEW m \in Messages, m.kind = "CONNECT_SYN", m.tx = t, m.rx = r,
         Takes(L, M, n, m),
         NEW x \in Messages, x.kind = "CONNECT_ACK", x.ok, x.tx = t, x.rx = r,
         Posts(M, P, Home[t], x)
  PROVE  EndsOk(O \cup {r}, G, P)
<1> DEFINE U == O \cup {r}
<1>1. /\ \A e \in Endpoints : Home[e] \in Nodes
      /\ ~Shaking(L, r) /\ \A k \in Nodes : ~HasIn(L[k], Shake(r))
  BY ConnectionAssumption DEF EndsOk, Handshaken, Shaking
<1>2. /\ \A y : m \in Shake(y) <=> y = t
      /\ \A y : x \in Shake(y) <=> y = t
      /\ \A a, b : /\ m \notin AckOk(a, b) /\ m \notin Fins(a, b)
                   /\ m \in Syn(a, b) <=> a = t /\ b = r
                   /\ x \in AckOk(a, b) <=> a = t /\ b = r
                   /\ x \notin Fins(a, b) /\ x \notin Syn(a, b)
      /\ \A k : m \in Misplaced(k) <=> ~Placed(m, k)
      /\ \A k : x \in Misplaced(k) <=> ~Placed(x, k)
  BY Sorted
<1>3. n = Home[r]
  <2>1. HasIn(L[n], Misplaced(n)) <=> HasIn(M[n], Misplaced(n)) \/ m \in Misplaced(n)
    BY DEF Takes
  <2>2. QED
    BY <1>2, <2>1 DEF EndsOk, Placed
<1>4. Shaking(L, t) /\ Shaking(P, t) /\ t # r /\ t \in O
  <2>1. HasIn(L[n], Shake(t)) /\ HasIn(P[Home[t]], Shake(t))
    BY <1>1, <1>2 DEF Takes, Posts
  <2>2. QED
    BY <1>1, <2>1 DEF Shaking, EndsOk, Handshaken
<1>5. \A k \in Nodes :
        /\ ~HasIn(P[k], Misplaced(k))
        /\ \A y : y # t => (HasIn(P[k], Shake(y)) <=> HasIn(L[k], Shake(y)))
        /\ \A a, b :
             /\ HasIn(P[k], AckOk(a, b)) <=>
                  HasIn(L[k], AckOk(a, b)) \/ (k = Home[t] /\ a = t /\ b = r)
             /\ HasIn(P[k], Fins(a, b)) <=> HasIn(L[k], Fins(a, b))
             /\ Follows(P[k], Syn(a, b), Fins(a, b)) => Follows(L[k], Syn(a, b), Fins(a, b))
             /\ Follows(P[k], AckOk(a, b), Fins(b, a)) <=>
                  Follows(L[k], AckOk(a, b), Fins(b, a))
  <2> SUFFICES ASSUME NEW k \in Nodes
               PROVE  /\ ~HasIn(P[k], Misplaced(k))
                      /\ \A y : y # t => (HasIn(P[k], Shake(y)) <=> HasIn(L[k], Shake(y)))
                      /\ \A a, b :
                           /\ HasIn(P[k], AckOk(a, b)) <=>
                                HasIn(L[k], AckOk(a, b)) \/ (k = Home[t] /\ a = t /\ b = r)
                           /\ HasIn(P[k], Fins(a, b)) <=> HasIn(L[k], Fins(a, b))
                           /\ Follows(P[k], Syn(a, b), Fins(a, b)) =>
                                Follows(L[k], Syn(a, b), Fins(a, b))
                           /\ Follows(P[k], AckOk(a, b), Fins(b, a)) <=>
                                Follows(L[k], AckOk(a, b), Fins(b, a))
    OBVIOUS
  <2>1. ~HasIn(P[k], Misplaced(k))
    <3>1. ~HasIn(L[k], Misplaced(k))
      BY DEF EndsOk
    <3>2. ~HasIn(M[k], Misplaced(k))
      BY <3>1 DEF Takes
    <3>3. x \notin Misplaced(Home[t])
      BY <1>2, <1>4 DEF Placed, Hailing
    <3>4. QED
      BY <1>1, <3>2, <3>3 DEF Posts
  <2>2. \A y : y # t => (HasIn(P[k], Shake(y)) <=> HasIn(L[k], Shake(y)))
    BY <1>1, <1>2 DEF Posts, Takes
  <2>3. \A a, b :
          /\ HasIn(M[k], AckOk(a, b)) <=> HasIn(L[k], AckOk(a, b))
          /\ HasIn(M[k], Fins(a, b)) <=> HasIn(L[k], Fins(a, b))
          /\ Follows(M[k], Syn(a, b), Fins(a, b)) => Follows(L[k], Syn(a, b), Fins(a, b))
          /\ Follows(M[k], AckOk(a, b), Fins(b, a)) <=>
               Follows(L[k], AckOk(a, b), Fins(b, a))
    BY <1>2 DEF Takes
  <2>4. \A a, b :
          /\ HasIn(P[k], AckOk(a, b)) <=>
               HasIn(M[k], AckOk(a, b)) \/ (k = Home[t] /\ a = t /\ b = r)
          /\ HasIn(P[k], Fins(a, b)) <=> HasIn(M[k], Fins(a, b))
          /\ Follows(P[k], Syn(a, b), Fins(a, b)) <=> Follows(M[k], Syn(a, b), Fins(a, b))
          /\ Follows(P[k], AckOk(a, b), Fins(b, a)) <=>
               Follows(M[k], AckOk(a, b), Fins(b, a))
    BY <1>1, <1>2 DEF Posts
  <2>5. QED
    BY <2>1, <2>2, <2>3, <2>4
<1>6. \A y : Shaking(P, y) <=> Shaking(L, y)
  BY <1>4, <1>5 DEF Shaking
<1>7. /\ Bound(U, G, P, r, t)
      /\ \A f : Bound(U, G, P, r, f) => f = t
      /\ \A f : ~Bound(O, F, L, r, f)
      /\ \A f : ~Bound(U, G, P, t, f) /\ ~Bound(O, F, L, t, f)
      /\ \A e \in Endpoints : e # r => \A f : Bound(U, G, P, e, f) <=> Bound(O, F, L, e, f)
  BY <1>1, <1>4, <1>6 DEF Bound
<1>8. \A e \in Endpoints, f \in Endpoints :
        Linked(U, G, P, e, f) <=> Linked(O, F, L, e, f)
  BY <1>7 DEF Linked
<1>9. /\ \A k \in Nodes : ~HasIn(L[k], AckOk(t, r))
      /\ ~HasIn(L[Home[r]], Fins(t, r)) /\ ~HasIn(L[Home[r]], AckOk(r, t))
  <2>1. \A k \in Nodes : ~HasIn(M[k], Shake(t))
    BY <1>2, OnceTakes DEF EndsOk, Handshaken
  <2>2. \A k \in Nodes : HasIn(L[k], AckOk(t, r)) <=> HasIn(M[k], AckOk(t, r))
    BY <1>2 DEF Takes
  <2>3. ~HasIn(M[Home[r]], Fins(t, r))
    <3>1. ~Follows(L[Home[r]], Syn(t, r), Fins(t, r))
      BY DEF EndsOk, Undisturbed
    <3>2. Follows(L[Home[r]], Syn(t, r), Fins(t, r)) <=>
            Follows(M[Home[r]], Syn(t, r), Fins(t, r)) \/ HasIn(M[Home[r]], Fins(t, r))
      BY <1>1, <1>2, <1>3 DEF Takes
    <3>3. QED
      BY <3>1, <3>2
  <2>4. HasIn(L[Home[r]], Fins(t, r)) <=> HasIn(M[Home[r]], Fins(t, r))
    BY <1>1, <1>2 DEF Takes
  <2>5. ~HasIn(L[Home[r]], AckOk(r, t))
    BY <1>1, OfShake
  <2>6. QED
    BY <2>1, <2>2, <2>3, <2>4, <2>5, OfShake
<1>10. ~Follows(L[Home[t]], AckOk(t, r), Fins(r, t))
  <2>1. Follows(L[Home[t]], AckOk(t, r), Fins(r, t)) => HasIn(L[Home[t]], AckOk(t, r))
    BY DEF Follows, HasIn
  <2>2. QED
    BY <1>1, <1>9, <2>1
<1> HIDE DEF U
<1>11. Handshaken(U, P)
  <2>1. ASSUME NEW y \in Endpoints PROVE Once(P, Shake(y))
    <3>1. Once(M, Shake(y)) /\ (m \in Shake(y) => \A k \in Nodes : ~HasIn(M[k], Shake(y)))
      BY OnceTakes DEF EndsOk, Handshaken
    <3>2. QED
      BY <1>1, <1>2, <3>1, OncePosts
  <2>2. \A y \in Endpoints : Shaking(P, y) => y \in U
    BY <1>6 DEF EndsOk, Handshaken, U
  <2>3. QED
    BY <2>1, <2>2 DEF Handshaken
<1>12. Answered(U, G, P)
  <2> SUFFICES ASSUME NEW e \in Endpoints, NEW f \in Peers, Bound(U, G, P, e, f)
               PROVE  /\ f \in Endpoints
                      /\ \/ Linked(U, G, P, e, f)
                         \/ HasIn(P[Home[e]], Fins(f, e))
                         \/ HasIn(P[Home[f]], AckOk(f, e))
    BY DEF Answered
  <2>1. CASE e = r
    BY <1>1, <1>5, <1>7, <2>1
  <2>2. CASE e # r
    <3>1. Bound(O, F, L, e, f)
      BY <1>7, <2>2
    <3>2. /\ f \in Endpoints
          /\ \/ Linked(O, F, L, e, f)
             \/ HasIn(L[Home[e]], Fins(f, e))
             \/ HasIn(L[Home[f]], AckOk(f, e))
      BY <3>1 DEF EndsOk, Answered
    <3>3. QED
      BY <1>1, <1>5, <1>8, <3>2
  <2>3. QED
    BY <2>1, <2>2
<1>13. Confirmed(U, G, P)
  <2> SUFFICES ASSUME NEW a \in Endpoints, NEW b \in Endpoints, HasIn(P[Home[a]], AckOk(a, b))
               PROVE  \/ /\ Bound(U, G, P, b, a) /\ ~HasIn(P[Home[b]], Fins(a, b))
                         /\ ~Follows(P[Home[a]], AckOk(a, b), Fins(b, a))
                      \/ /\ ~Bound(U, G, P, b, a)
                         /\ Follows(P[Home[a]], AckOk(a, b), Fins(b, a))
    BY DEF Confirmed
  <2>1. CASE a = t /\ b = r
    BY <1>1, <1>5, <1>7, <1>9, <1>10, <2>1
  <2>2. CASE ~(a = t /\ b = r)
    <3>1. HasIn(L[Home[a]], AckOk(a, b))
      BY <1>1, <1>5, <2>2
    <3>2. \/ /\ Bound(O, F, L, b, a) /\ ~HasIn(L[Home[b]], Fins(a, b))
             /\ ~Follows(L[Home[a]], AckOk(a, b), Fins(b, a))
          \/ /\ ~Bound(O, F, L, b, a)
             /\ Follows(L[Home[a]], AckOk(a, b), Fins(b, a))
      BY <3>1 DEF EndsOk, Confirmed
    <3>3. QED
      BY <1>1, <1>5, <1>7, <2>2, <3>2
  <2>3. QED
    BY <2>1, <2>2
<1>14. Undisturbed(U, G, P)
  <2>1. \A e \in Endpoints, f \in Endpoints :
          Linked(U, G, P, e, f) => ~HasIn(P[Home[e]], Fins(f, e))
    BY <1>1, <1>5, <1>8 DEF EndsOk, Undisturbed
  <2>2. \A a, b \in Endpoints : ~Follows(P[Home[b]], Syn(a, b), Fins(a, b))
    BY <1>1, <1>5 DEF EndsOk, Undisturbed
  <2>3. \A a, b \in Endpoints :
          ~(HasIn(P[Home[a]], AckOk(a, b)) /\ HasIn(P[Home[b]], AckOk(b, a)))
    BY <1>1, <1>4, <1>5, <1>9 DEF EndsOk, Undisturbed
  <2>4. QED
    BY <2>1, <2>2, <2>3 DEF Undisturbed
<1>15. QED
  BY <1>5, <1>11, <1>12, <1>13, <1>14 DEF EndsOk, U

\* An ACK is taken: the sender is connected, as far as it knows.
LEMMA EndsMade ==
  ASSUME NEW O \in SUBSET Endpoints, NEW F, NEW G, NEW L, NEW P, EndsOk(O, F, L),
         NEW t \in Endpoints, NEW r \in Endpoints,
         G[t] = r, \A e \in Endpoints : e # t => G[e] = F[e],
         NEW n \in Nodes,
         NEW m \in Messages, m.kind = "CONNECT_ACK", m.ok, m.tx = t, m.rx = r,
         Takes(L, P, n, m)
  PROVE  EndsOk(O, G, P)
<1>1. \A e \in Endpoints : Home[e] \in Nodes
  BY ConnectionAssumption
<1>2. /\ \A y : m \in Shake(y) <=> y = t
      /\ \A a, b : /\ m \in AckOk(a, b) <=> a = t /\ b = r
                   /\ m \notin Fins(a, b) /\ m \notin Syn(a, b)
      /\ \A k : m \in Misplaced(k) <=> ~Placed(m, k)
  BY Sorted
<1>3. n = Home[t] /\ t # r
  <2>1. HasIn(L[n], Misplaced(n)) <=> HasIn(P[n], Misplaced(n)) \/ m \in Misplaced(n)
    BY DEF Takes
  <2>2. QED
    BY <1>2, <2>1 DEF EndsOk, Placed
<1>4. /\ \A k \in Nodes : ~HasIn(P[k], Shake(t))
      /\ Shaking(L, t) /\ ~Shaking(P, t) /\ t \in O
  <2>1. \A k \in Nodes : ~HasIn(P[k], Shake(t))
    BY <1>2, OnceTakes DEF EndsOk, Handshaken
  <2>2. HasIn(L[n], Shake(t))
    BY <1>2 DEF Takes
  <2>3. QED
    BY <2>1, <2>2 DEF Shaking, EndsOk, Handshaken
<1>5. \A k \in Nodes :
        /\ ~HasIn(P[k], Misplaced(k))
        /\ \A y : y # t => (HasIn(P[k], Shake(y)) <=> HasIn(L[k], Shake(y)))
        /\ \A b : ~HasIn(P[k], AckOk(t, b))
  <2>1. ASSUME NEW k \in Nodes
        PROVE  ~HasIn(P[k], Misplaced(k))
    BY DEF Takes, EndsOk
  <2>2. ASSUME NEW k \in Nodes, NEW y, y # t
        PROVE  HasIn(P[k], Shake(y)) <=> HasIn(L[k], Shake(y))
    BY <1>2, <2>2 DEF Takes
  <2>3. ASSUME NEW k \in Nodes, NEW b
        PROVE  ~HasIn(P[k], AckOk(t, b))
    BY <1>4, OfShake
  <2>4. QED
    BY <2>1, <2>2, <2>3
<1>6. \A k \in Nodes : \A a, b :
        /\ HasIn(L[k], AckOk(a, b)) <=>
             HasIn(P[k], AckOk(a, b)) \/ (k = n /\ a = t /\ b = r)
        /\ HasIn(P[k], Fins(a, b)) <=> HasIn(L[k], Fins(a, b))
        /\ Follows(P[k], Syn(a, b), Fins(a, b)) <=> Follows(L[k], Syn(a, b), Fins(a, b))
        /\ Follows(L[k], AckOk(a, b), Fins(b, a)) <=>
             \/ Follows(P[k], AckOk(a, b), Fins(b, a))
             \/ k = n /\ a = t /\ b = r /\ HasIn(P[k], Fins(b, a))
  BY <1>2 DEF Takes
<1>7. \A y : y # t => (Shaking(P, y) <=> Shaking(L, y))
  BY <1>5 DEF Shaking
<1>8. /\ \A f : ~Bound(O, F, L, t, f)
      /\ \A f : Bound(O, G, P, t, f) <=> f = r
      /\ \A e \in Endpoints : e # t => \A f : Bound(O, G, P, e, f) <=> Bound(O, F, L, e, f)
  BY <1>4, <1>7 DEF Bound
<1>9. /\ \A e, f \in Endpoints : e # t /\ f # t =>
           (Linked(O, G, P, e, f) <=> Linked(O, F, L, e, f))
      /\ \A f \in Endpoints : ~Linked(O, F, L, t, f) /\ ~Linked(O, F, L, f, t)
      /\ \A f \in Endpoints : Linked(O, G, P, t, f) \/ Linked(O, G, P, f, t) => f = r
  BY <1>8 DEF Linked
<1>10. HasIn(L[Home[t]], AckOk(t, r))
  BY <1>1, <1>3, <1>6
<1>11. \/ /\ Bound(O, F, L, r, t) /\ ~HasIn(P[Home[r]], Fins(t, r))
          /\ ~HasIn(P[Home[t]], Fins(r, t))
       \/ ~Bound(O, F, L, r, t) /\ HasIn(P[Home[t]], Fins(r, t))
  <2>1. \/ /\ Bound(O, F, L, r, t) /\ ~HasIn(L[Home[r]], Fins(t, r))
           /\ ~Follows(L[Home[t]], AckOk(t, r), Fins(r, t))
        \/ /\ ~Bound(O, F, L, r, t)
           /\ Follows(L[Home[t]], AckOk(t, r), Fins(r, t))
    BY <1>10 DEF EndsOk, Confirmed
  <2>2. ~Follows(P[Home[t]], AckOk(t, r), Fins(r, t))
    BY <1>1, <1>5 DEF Follows, HasIn
  <2>3. Follows(L[Home[t]], AckOk(t, r), Fins(r, t)) <=> HasIn(P[Home[t]], Fins(r, t))
    BY <1>1, <1>3, <1>6, <2>2
  <2>4. HasIn(P[Home[r]], Fins(t, r)) <=> HasIn(L[Home[r]], Fins(t, r))
    BY <1>1, <1>6
  <2>5. QED
    BY <2>1, <2>3, <2>4
<1>12. Bound(O, F, L, r, t) => Linked(O, G, P, r, t) /\ Linked(O, G, P, t, r)
  BY <1>3, <1>8 DEF Linked
<1>13. Handshaken(O, P)
  <2>1. \A y \in Endpoints : Once(P, Shake(y))
    BY OnceTakes DEF EndsOk, Handshaken
  <2>2. QED
    BY <1>4, <1>7, <2>1 DEF EndsOk, Handshaken
<1>14. Answered(O, G, P)
  <2> SUFFICES ASSUME NEW e \in Endpoints, NEW f \in Peers, Bound(O, G, P, e, f)
               PROVE  /\ f \in Endpoints
                      /\ \/ Linked(O, G, P, e, f)
                         \/ HasIn(P[Home[e]], Fins(f, e))
                         \/ HasIn(P[Home[f]], AckOk(f, e))
    BY DEF Answered
  <2>1. CASE e = t
    BY <1>8, <1>11, <1>12, <2>1
  <2>2. CASE e # t
    <3>1. Bound(O, F, L, e, f)
      BY <1>8, <2>2
    <3>2. /\ f \in Endpoints
          /\ \/ Linked(O, F, L, e, f)
             \/ HasIn(L[Home[e]], Fins(f, e))
             \/ HasIn(L[Home[f]], AckOk(f, e))
      BY <3>1 DEF EndsOk, Answered
    <3>3. CASE f = t /\ e = r
      BY <1>12, <3>1, <3>3
    <3>4. CASE ~(f = t /\ e = r)
      BY <1>1, <1>6, <1>9, <2>2, <3>2, <3>4
    <3>5. QED
      BY <3>3, <3>4
  <2>3. QED
    BY <2>1, <2>2
<1>15. Confirmed(O, G, P)
  <2> SUFFICES ASSUME NEW a \in Endpoints, NEW b \in Endpoints, HasIn(P[Home[a]], AckOk(a, b))
               PROVE  \/ /\ Bound(O, G, P, b, a) /\ ~HasIn(P[Home[b]], Fins(a, b))
                         /\ ~Follows(P[Home[a]], AckOk(a, b), Fins(b, a))
                      \/ /\ ~Bound(O, G, P, b, a)
                         /\ Follows(P[Home[a]], AckOk(a, b), Fins(b, a))
    BY DEF Confirmed
  <2>1. a # t /\ HasIn(L[Home[a]], AckOk(a, b))
    BY <1>1, <1>5, <1>6
  <2>2. \/ /\ Bound(O, F, L, b, a) /\ ~HasIn(L[Home[b]], Fins(a, b))
           /\ ~Follows(L[Home[a]], AckOk(a, b), Fins(b, a))
        \/ /\ ~Bound(O, F, L, b, a)
           /\ Follows(L[Home[a]], AckOk(a, b), Fins(b, a))
    BY <2>1 DEF EndsOk, Confirmed
  <2>3. ~(b = t /\ a = r)
    BY <1>10, <2>1 DEF EndsOk, Undisturbed
  <2>4. Bound(O, G, P, b, a) <=> Bound(O, F, L, b, a)
    BY <1>8, <2>3
  <2>5. QED
    BY <1>1, <1>6, <2>1, <2>2, <2>4
<1>16. Undisturbed(O, G, P)
  <2>1. ASSUME NEW e \in Endpoints, NEW f \in Endpoints, Linked(O, G, P, e, f)
        PROVE  ~HasIn(P[Home[e]], Fins(f, e))
    <3>1. CASE e # t /\ f # t
      BY <1>1, <1>6, <1>9, <2>1, <3>1 DEF EndsOk, Undisturbed
    <3>2. CASE e = t \/ f = t
      <4>1. (e = t /\ f = r) \/ (e = r /\ f = t)
        BY <1>9, <2>1, <3>2
      <4>2. Bound(O, F, L, r, t)
        BY <1>3, <1>8, <2>1, <4>1 DEF Linked
      <4>3. QED
        BY <1>11, <4>1, <4>2
    <3>3. QED
      BY <3>1, <3>2
  <2>2. \A a, b \in Endpoints : ~Follows(P[Home[b]], Syn(a, b), Fins(a, b))
    BY <1>1, <1>6 DEF EndsOk, Undisturbed
  <2>3. \A a, b \in Endpoints :
          ~(HasIn(P[Home[a]], AckOk(a, b)) /\ HasIn(P[Home[b]], AckOk(b, a)))
    BY <1>1, <1>6 DEF EndsOk, Undisturbed
  <2>4. QED
    BY <2>1, <2>2, <2>3 DEF Undisturbed
<1>17. QED
  BY <1>5, <1>13, <1>14, <1>15, <1>16 DEF EndsOk

\* A refusal is taken: the sender is free again.
LEMMA EndsGivenUp ==
  ASSUME NEW O \in SUBSET Endpoints, NEW F, NEW L, NEW P, EndsOk(O, F, L),
         NEW t \in Endpoints, NEW n \in Nodes,
         NEW m \in Messages, m.kind = "CONNECT_ACK", ~m.ok, m.tx = t,
         Takes(L, P, n, m)
  PROVE  EndsOk(O \ {t}, F, P)
<1> DEFINE U == O \ {t}
<1>1. \A e \in Endpoints : Home[e] \in Nodes
  BY ConnectionAssumption
<1>2. /\ \A y : m \in Shake(y) <=> y = t
      /\ \A a, b : m \notin AckOk(a, b) /\ m \notin Fins(a, b) /\ m \notin Syn(a, b)
  BY Sorted
<1>3. \A k \in Nodes : ~HasIn(P[k], Shake(t))
  BY <1>2, OnceTakes DEF EndsOk, Handshaken
<1>4. Shaking(L, t) /\ ~Shaking(P, t)
  <2>1. HasIn(L[n], Shake(t))
    BY <1>2 DEF Takes
  <2>2. QED
    BY <1>3, <2>1 DEF Shaking
<1>5. \A k \in Nodes :
        /\ ~HasIn(P[k], Misplaced(k))
        /\ \A y : y # t => (HasIn(P[k], Shake(y)) <=> HasIn(L[k], Shake(y)))
  BY <1>2 DEF Takes, EndsOk
<1>6. \A k \in Nodes : \A a, b :
        /\ HasIn(P[k], AckOk(a, b)) <=> HasIn(L[k], AckOk(a, b))
        /\ HasIn(P[k], Fins(a, b)) <=> HasIn(L[k], Fins(a, b))
        /\ Follows(P[k], Syn(a, b), Fins(a, b)) <=> Follows(L[k], Syn(a, b), Fins(a, b))
        /\ Follows(P[k], AckOk(a, b), Fins(b, a)) <=>
             Follows(L[k], AckOk(a, b), Fins(b, a))
  BY <1>2 DEF Takes
<1>7. \A y : y # t => (Shaking(P, y) <=> Shaking(L, y))
  BY <1>5 DEF Shaking
<1>8. \A e, f : Bound(U, F, P, e, f) <=> Bound(O, F, L, e, f)
  BY <1>4, <1>7 DEF Bound
<1>9. \A e, f : Linked(U, F, P, e, f) <=> Linked(O, F, L, e, f)
  BY <1>8 DEF Linked
<1>10. Handshaken(U, P)
  <2>1. \A y \in Endpoints : Once(P, Shake(y))
    BY OnceTakes DEF EndsOk, Handshaken
  <2>2. \A y \in Endpoints : Shaking(P, y) => y \in U
    BY <1>4, <1>7 DEF EndsOk, Handshaken
  <2> HIDE DEF U
  <2>3. QED
    BY <2>1, <2>2 DEF Handshaken
<1> HIDE DEF U
<1>11. Answered(U, F, P)
  BY <1>1, <1>6, <1>8, <1>9 DEF EndsOk, Answered
<1>12. Confirmed(U, F, P)
  BY <1>1, <1>6, <1>8 DEF EndsOk, Confirmed
<1>13. Undisturbed(U, F, P)
  BY <1>1, <1>6, <1>9 DEF EndsOk, Undisturbed
<1>14. QED
  BY <1>5, <1>10, <1>11, <1>12, <1>13 DEF EndsOk, U

\* An endpoint goes away and tells its peer.
LEMMA EndsClosed ==
  ASSUME NEW O \in SUBSET Endpoints, NEW F, NEW L, NEW P, EndsOk(O, F, L),
         NEW e \in O, ~Shaking(L, e), NEW f \in Endpoints, F[e] = f,
         NEW x \in Messages, x.kind = "CONNECT_FIN", x.tx = e, x.rx = f,
         Posts(L, P, Home[f], x)
  PROVE  EndsOk(O \ {e}, F, P)
<1> DEFINE U == O \ {e}
<1>1. \A a \in Endpoints : Home[a] \in Nodes
  BY ConnectionAssumption
<1>2. /\ \A y : x \notin Shake(y)
      /\ \A a, b : /\ x \notin AckOk(a, b) /\ x \notin Syn(a, b)
                   /\ x \in Fins(a, b) <=> a = e /\ b = f
      /\ x \notin Misplaced(Home[f])
  BY Sorted DEF Hailing, Placed
<1>3. \A k \in Nodes :
        /\ ~HasIn(P[k], Misplaced(k))
        /\ \A y : HasIn(P[k], Shake(y)) <=> HasIn(L[k], Shake(y))
  BY <1>2 DEF Posts, EndsOk
<1>4. \A k \in Nodes : \A b : ~HasIn(L[k], Syn(e, b)) /\ ~HasIn(L[k], AckOk(e, b))
  BY OfShake DEF Shaking
<1>5. \A k \in Nodes : \A a, b :
        /\ HasIn(P[k], AckOk(a, b)) <=> HasIn(L[k], AckOk(a, b))
        /\ HasIn(P[k], Fins(a, b)) <=>
             HasIn(L[k], Fins(a, b)) \/ (k = Home[f] /\ a = e /\ b = f)
        /\ Follows(P[k], Syn(a, b), Fins(a, b)) <=> Follows(L[k], Syn(a, b), Fins(a, b))
        /\ Follows(P[k], AckOk(a, b), Fins(b, a)) <=>
             \/ Follows(L[k], AckOk(a, b), Fins(b, a))
             \/ k = Home[f] /\ a = f /\ b = e /\ HasIn(L[k], AckOk(a, b))
  <2> SUFFICES ASSUME NEW k \in Nodes, NEW a, NEW b
               PROVE
                 /\ HasIn(P[k], AckOk(a, b)) <=> HasIn(L[k], AckOk(a, b))
                 /\ HasIn(P[k], Fins(a, b)) <=>
                      HasIn(L[k], Fins(a, b)) \/ (k = Home[f] /\ a = e /\ b = f)
                 /\ Follows(P[k], Syn(a, b), Fins(a, b)) <=>
                      Follows(L[k], Syn(a, b), Fins(a, b))
                 /\ Follows(P[k], AckOk(a, b), Fins(b, a)) <=>
                      \/ Follows(L[k], AckOk(a, b), Fins(b, a))
                      \/ k = Home[f] /\ a = f /\ b = e /\ HasIn(L[k], AckOk(a, b))
    OBVIOUS
  <2>1. /\ HasIn(P[k], AckOk(a, b)) <=> HasIn(L[k], AckOk(a, b))
        /\ HasIn(P[k], Fins(a, b)) <=>
             HasIn(L[k], Fins(a, b)) \/ (k = Home[f] /\ a = e /\ b = f)
    BY <1>2 DEF Posts
  <2>2. Follows(P[k], Syn(a, b), Fins(a, b)) <=> Follows(L[k], Syn(a, b), Fins(a, b))
    BY <1>2, <1>4 DEF Posts
  <2>3. Follows(P[k], AckOk(a, b), Fins(b, a)) <=>
          \/ Follows(L[k], AckOk(a, b), Fins(b, a))
          \/ k = Home[f] /\ a = f /\ b = e /\ HasIn(L[k], AckOk(a, b))
    BY <1>2 DEF Posts
  <2>4. QED
    BY <2>1, <2>2, <2>3
<1>6. \A y : Shaking(P, y) <=> Shaking(L, y)
  BY <1>3 DEF Shaking
<1>7. /\ \A a, b : Bound(U, F, P, a, b) <=> Bound(O, F, L, a, b) /\ a # e
      /\ \A a : Bound(O, F, L, e, a) => a = f
  BY <1>6 DEF Bound
<1>8. \A a, b : Linked(U, F, P, a, b) <=> Linked(O, F, L, a, b) /\ a # e /\ b # e
  BY <1>7 DEF Linked
<1>9. Handshaken(U, P)
  <2>1. \A y \in Endpoints : Once(P, Shake(y))
    BY <1>1, <1>2, OncePosts DEF EndsOk, Handshaken
  <2>2. \A y \in Endpoints : Shaking(P, y) => y \in U
    BY <1>6 DEF EndsOk, Handshaken
  <2> HIDE DEF U
  <2>3. QED
    BY <2>1, <2>2 DEF Handshaken
<1> HIDE DEF U
<1>10. Answered(U, F, P)
  <2> SUFFICES ASSUME NEW a \in Endpoints, NEW b \in Peers, Bound(U, F, P, a, b)
               PROVE  /\ b \in Endpoints
                      /\ \/ Linked(U, F, P, a, b)
                         \/ HasIn(P[Home[a]], Fins(b, a))
                         \/ HasIn(P[Home[b]], AckOk(b, a))
    BY DEF Answered
  <2>1. Bound(O, F, L, a, b) /\ a # e
    BY <1>7
  <2>2. /\ b \in Endpoints
        /\ \/ Linked(O, F, L, a, b)
           \/ HasIn(L[Home[a]], Fins(b, a))
           \/ HasIn(L[Home[b]], AckOk(b, a))
    BY <2>1 DEF EndsOk, Answered
  <2>3. CASE Linked(O, F, L, a, b) /\ b = e
    <3>1. a = f
      BY <1>7, <2>3 DEF Linked
    <3>2. QED
      BY <1>1, <1>5, <2>2, <2>3, <3>1
  <2>4. CASE ~(Linked(O, F, L, a, b) /\ b = e)
    BY <1>1, <1>5, <1>8, <2>1, <2>2, <2>4
  <2>5. QED
    BY <2>3, <2>4
<1>11. Confirmed(U, F, P)
  <2> SUFFICES ASSUME NEW a \in Endpoints, NEW b \in Endpoints, HasIn(P[Home[a]], AckOk(a, b))
               PROVE  \/ /\ Bound(U, F, P, b, a) /\ ~HasIn(P[Home[b]], Fins(a, b))
                         /\ ~Follows(P[Home[a]], AckOk(a, b), Fins(b, a))
                      \/ /\ ~Bound(U, F, P, b, a)
                         /\ Follows(P[Home[a]], AckOk(a, b), Fins(b, a))
    BY DEF Confirmed
  <2>1. HasIn(L[Home[a]], AckOk(a, b)) /\ a # e
    BY <1>1, <1>4, <1>5
  <2>2. \/ /\ Bound(O, F, L, b, a) /\ ~HasIn(L[Home[b]], Fins(a, b))
           /\ ~Follows(L[Home[a]], AckOk(a, b), Fins(b, a))
        \/ /\ ~Bound(O, F, L, b, a)
           /\ Follows(L[Home[a]], AckOk(a, b), Fins(b, a))
    BY <2>1 DEF EndsOk, Confirmed
  <2>3. CASE b = e /\ Bound(O, F, L, b, a)
    <3>1. a = f /\ ~Bound(U, F, P, b, a)
      BY <1>7, <2>3
    <3>2. QED
      BY <1>1, <1>5, <2>1, <2>3, <3>1
  <2>4. CASE ~(b = e /\ Bound(O, F, L, b, a))
    <3>1. Bound(U, F, P, b, a) <=> Bound(O, F, L, b, a)
      BY <1>7, <2>4
    <3>2. HasIn(P[Home[b]], Fins(a, b)) <=> HasIn(L[Home[b]], Fins(a, b))
      BY <1>1, <1>5, <2>1
    <3>3. Follows(L[Home[a]], AckOk(a, b), Fins(b, a)) =>
            Follows(P[Home[a]], AckOk(a, b), Fins(b, a))
      BY <1>1, <1>5
    <3>4. Bound(O, F, L, b, a) => b # e
      BY <2>4
    <3>5. b # e => (Follows(P[Home[a]], AckOk(a, b), Fins(b, a)) =>
                      Follows(L[Home[a]], AckOk(a, b), Fins(b, a)))
      BY <1>1, <1>5
    <3>6. QED
      BY <2>2, <3>1, <3>2, <3>3, <3>4, <3>5
  <2>5. QED
    BY <2>3, <2>4
<1>12. Undisturbed(U, F, P)
  <2>1. \A a, b \in Endpoints : Linked(U, F, P, a, b) => ~HasIn(P[Home[a]], Fins(b, a))
    BY <1>1, <1>5, <1>8 DEF EndsOk, Undisturbed
  <2>2. \A a, b \in Endpoints : ~Follows(P[Home[b]], Syn(a, b), Fins(a, b))
    BY <1>1, <1>5 DEF EndsOk, Undisturbed
  <2>3. \A a, b \in Endpoints :
          ~(HasIn(P[Home[a]], AckOk(a, b)) /\ HasIn(P[Home[b]], AckOk(b, a)))
    BY <1>1, <1>5 DEF EndsOk, Undisturbed
  <2>4. QED
    BY <2>1, <2>2, <2>3 DEF Undisturbed
<1>13. QED
  BY <1>3, <1>9, <1>10, <1>11, <1>12 DEF EndsOk, U

\* A FIN is taken, and ends no channel but its own: it finds the endpoint free, or
\* connected to where the FIN comes from.
LEMMA EndsFinned ==
  ASSUME NEW O \in SUBSET Endpoints, NEW F, NEW L, NEW P, EndsOk(O, F, L),
         NEW e \in Endpoints, NEW f \in Endpoints, NEW n \in Nodes,
         NEW m \in Messages, m.kind = "CONNECT_FIN", m.tx = f, m.rx = e,
         Takes(L, P, n, m),
         e \in O => F[e] = f /\ ~Shaking(L, e)
  PROVE  EndsOk(O \ {e}, F, P)
<1> DEFINE U == O \ {e}
<1>1. \A a \in Endpoints : Home[a] \in Nodes
  BY ConnectionAssumption
<1>2. /\ \A y : m \notin Shake(y)
      /\ \A a, b : /\ m \notin AckOk(a, b) /\ m \notin Syn(a, b)
                   /\ m \in Fins(a, b) <=> a = f /\ b = e
      /\ \A k : m \in Misplaced(k) <=> ~Placed(m, k)
  BY Sorted
<1>3. n = Home[e]
  <2>1. HasIn(L[n], Misplaced(n)) <=> HasIn(P[n], Misplaced(n)) \/ m \in Misplaced(n)
    BY DEF Takes
  <2>2. QED
    BY <1>2, <2>1 DEF EndsOk, Placed
<1>4. \A k \in Nodes :
        /\ ~HasIn(P[k], Misplaced(k))
        /\ \A y : HasIn(P[k], Shake(y)) <=> HasIn(L[k], Shake(y))
  BY <1>2 DEF Takes, EndsOk
<1>5. \A k \in Nodes : \A a, b :
        /\ HasIn(P[k], AckOk(a, b)) <=> HasIn(L[k], AckOk(a, b))
        /\ HasIn(L[k], Fins(a, b)) <=>
             HasIn(P[k], Fins(a, b)) \/ (k = n /\ a = f /\ b = e)
        /\ Follows(P[k], Syn(a, b), Fins(a, b)) <=> Follows(L[k], Syn(a, b), Fins(a, b))
        /\ Follows(P[k], AckOk(a, b), Fins(b, a)) <=>
             Follows(L[k], AckOk(a, b), Fins(b, a))
  BY <1>2 DEF Takes
<1>6. \A y : Shaking(P, y) <=> Shaking(L, y)
  BY <1>4 DEF Shaking
<1>7. /\ \A a, b : Bound(U, F, P, a, b) <=> Bound(O, F, L, a, b) /\ a # e
      /\ \A a : Bound(O, F, L, e, a) => a = f
  BY <1>6 DEF Bound
<1>8. HasIn(L[Home[e]], Fins(f, e)) /\ ~Linked(O, F, L, e, f)
  <2>1. HasIn(L[Home[e]], Fins(f, e))
    BY <1>1, <1>3, <1>5
  <2>2. QED
    BY <2>1 DEF EndsOk, Undisturbed
<1>9. \A a, b : Linked(U, F, P, a, b) <=> Linked(O, F, L, a, b)
  <2>1. \A a : ~Linked(O, F, L, e, a) /\ ~Linked(O, F, L, a, e)
    BY <1>7, <1>8 DEF Linked
  <2>2. QED
    BY <1>7, <2>1 DEF Linked
<1>10. Handshaken(U, P)
  <2>1. \A y \in Endpoints : Once(P, Shake(y))
    BY OnceTakes DEF EndsOk, Handshaken
  <2>2. \A y \in Endpoints : Shaking(P, y) => y \in U
    BY <1>6 DEF EndsOk, Handshaken
  <2> HIDE DEF U
  <2>3. QED
    BY <2>1, <2>2 DEF Handshaken
<1> HIDE DEF U
<1>11. Answered(U, F, P)
  BY <1>1, <1>5, <1>7, <1>9 DEF EndsOk, Answered
<1>12. Confirmed(U, F, P)
  <2> SUFFICES ASSUME NEW a \in Endpoints, NEW b \in Endpoints, HasIn(P[Home[a]], AckOk(a, b))
               PROVE  \/ /\ Bound(U, F, P, b, a) /\ ~HasIn(P[Home[b]], Fins(a, b))
                         /\ ~Follows(P[Home[a]], AckOk(a, b), Fins(b, a))
                      \/ /\ ~Bound(U, F, P, b, a)
                         /\ Follows(P[Home[a]], AckOk(a, b), Fins(b, a))
    BY DEF Confirmed
  <2>1. \/ /\ Bound(O, F, L, b, a) /\ ~HasIn(L[Home[b]], Fins(a, b))
           /\ ~Follows(L[Home[a]], AckOk(a, b), Fins(b, a))
        \/ /\ ~Bound(O, F, L, b, a)
           /\ Follows(L[Home[a]], AckOk(a, b), Fins(b, a))
    BY <1>1, <1>5 DEF EndsOk, Confirmed
  <2>2. Bound(U, F, P, b, a) <=> Bound(O, F, L, b, a)
    BY <1>7, <1>8, <2>1
  <2>3. QED
    BY <1>1, <1>5, <2>1, <2>2
<1>13. Undisturbed(U, F, P)
  BY <1>1, <1>5, <1>9 DEF EndsOk, Undisturbed
<1>14. QED
  BY <1>4, <1>10, <1>11, <1>12, <1>13 DEF EndsOk, U

-----------------------------------------------------------------------------
(* The steps.                                                              *)

Busy == {e \in Endpoints : On(e)}
EndsHold == (\A e \in Endpoints : "OPEN" \in flags[e]) /\ EndsOk(Busy, foreign, control)
Smooth == mishaps = 0 /\ ~early /\ ~stray
EndsInv == Smooth => EndsHold

\* What taking the first message of a queue, and posting one, does.
LEMMA HeadTakes ==
  ASSUME NetInv, NEW n \in Nodes, control[n] # <<>>
  PROVE  /\ Taken(n) \in Control /\ Head(control[n]) \in Messages
         /\ Takes(control, Taken(n), n, Head(control[n]))
<1>1. control \in Control
  BY DEF NetInv, NetFine
<1>2. Taken(n) \in Control /\ Head(control[n]) \in Messages
  BY <1>1, QueueTaken
<1>3. ASSUME NEW k \in Nodes, NEW S, NEW T
      PROVE  /\ HasIn(control[k], S) <=>
                  HasIn(Taken(n)[k], S) \/ (k = n /\ Head(control[n]) \in S)
             /\ Follows(control[k], S, T) <=>
                  \/ Follows(Taken(n)[k], S, T)
                  \/ k = n /\ Head(control[n]) \in S /\ HasIn(Taken(n)[k], T)
  BY <1>1, QueueTaken
<1>4. QED
  BY <1>2, <1>3 DEF Takes

\* Sent or not, a message about other things changes nothing.
LEMMA AlikeSent ==
  ASSUME NEW L \in Control, NEW n \in Nodes, NEW m \in Messages, NEW sent \in BOOLEAN,
         m.kind \notin OfChannels, Placed(m, n)
  PROVE  Post(L, n, m, sent) \in Control /\ Alike(L, Post(L, n, m, sent))
<1>1. PICK P : P = Post(L, n, m, sent)
  OBVIOUS
<1>2. /\ P \in Control
      /\ sent => Posts(L, P, n, m)
      /\ ~sent => P = L
  BY <1>1, SentPosts
<1>3. sent => Alike(L, P)
  BY <1>2, AlikePosted
<1>4. Alike(L, L)
  BY DEF Alike
<1>5. QED
  BY <1>1, <1>2, <1>3, <1>4

\* What is taken was in its place.
LEMMA PlacedTaken ==
  ASSUME NEW O, NEW F, NEW L, NEW P, EndsOk(O, F, L), NEW n \in Nodes, NEW m \in Messages,
         Takes(L, P, n, m)
  PROVE  Placed(m, n)
<1>1. HasIn(L[n], Misplaced(n)) <=> HasIn(P[n], Misplaced(n)) \/ m \in Misplaced(n)
  BY DEF Takes
<1>2. QED
  BY <1>1, Sorted DEF EndsOk

\* A handshake is under way.
LEMMA ShakingNow ==
  ASSUME NetInv, NEW e
  PROVE  InHandshake(e) <=> Shaking(control, e)
<1>1. \A n \in Nodes : \A i \in 1 .. Len(control[n]) : control[n][i] \in Messages
  <2>1. ASSUME NEW n \in Nodes, NEW i \in 1 .. Len(control[n])
        PROVE  control[n][i] \in Messages
    <3>1. control[n] \in Seq(Messages)
      BY DEF NetInv, NetFine, Control
    <3>2. QED
      BY <3>1
  <2>2. QED
    BY <2>1
<1>2. QED
  BY <1>1 DEF InHandshake, Shaking, HasIn, Shake

\* A step that takes no endpoint, frees none, and leaves the peers of those that are
\* taken as they are.
LEMMA EndsKept ==
  ASSUME EndsHold, Alike(control, control'),
         \A e \in Endpoints : /\ On(e)' <=> On(e)
                              /\ "OPEN" \in flags[e] => "OPEN" \in flags'[e]
                              /\ On(e) => foreign'[e] = foreign[e]
  PROVE  EndsHold'
<1>1. Busy' = Busy /\ Busy \in SUBSET Endpoints
  BY DEF Busy
<1>2. EndsOk(Busy, foreign', control')
  BY <1>1, EndsAlike DEF EndsHold, Busy
<1>3. QED
  BY <1>1, <1>2 DEF EndsHold

\* mcapi_connect posts a request.
LEMMA EndsConnect ==
  ASSUME NetInv, EndsInv, NEW c \in Calls, Connect(c)
  PROVE  EndsInv'
<1> SUFFICES ASSUME Smooth' PROVE EndsHold'
  BY DEF EndsInv
<1> DEFINE k == CallOf[c]
<1>1. /\ k.node \in Nodes /\ k.tx \in Endpoints /\ k.rx \in Endpoints /\ k.type \in Types
      /\ Home[k.tx] \in Nodes
  BY ConnectionAssumption
<1>2. PICK m : m = Message("CONNECT_REQUEST", k.tx, k.rx, k.type, k.node, TRUE)
  OBVIOUS
<1>3. m \in Messages /\ m.kind \notin OfChannels /\ Placed(m, Home[k.tx])
  BY <1>1, <1>2 DEF Message, Messages, Kinds, Peers, OfChannels, Placed
<1>4. mishaps \in 0 .. MaxMishaps /\ control \in Control
  BY DEF NetInv, NetFine
<1>5. Smooth /\ Alike(control, control')
  <2>1. ASSUME NEW sent \in BOOLEAN, Spend(Lose(sent)),
               control' = Post(control, Home[k.tx], m, sent)
        PROVE  mishaps = 0 /\ Alike(control, control')
    <3>1. mishaps = 0
      BY <1>4, <2>1, Spent, LoseTyped DEF Smooth
    <3>2. QED
      BY <1>1, <1>3, <1>4, <2>1, <3>1, AlikeSent
  <2>2. ASSUME UNCHANGED <<control, mishaps>>
        PROVE  mishaps = 0 /\ Alike(control, control')
    BY <2>2 DEF Alike, Smooth
  <2>3. mishaps = 0 /\ Alike(control, control')
    BY <1>2, <2>1, <2>2 DEF Connect
  <2>4. QED
    BY <2>3 DEF Connect, Smooth
<1>6. QED
  BY <1>5, EndsKept DEF EndsInv, Connect, entries, On

\* mcapi_open tells the peer.
LEMMA EndsOpen ==
  ASSUME NetInv, EntryTypes, EndsInv, NEW e \in Endpoints, NEW side \in Sides,
         NEW type \in Types, Open(e, side, type)
  PROVE  EndsInv'
<1> SUFFICES ASSUME Smooth' PROVE EndsHold'
  BY DEF EndsInv
<1>1. foreign[e] \in Peers /\ NodeOf(foreign[e]) \in Nodes
  BY NodeTyped DEF EntryTypes
<1>2. PICK m : m = OpenMessage(e, side, foreign[e], type)
  OBVIOUS
<1>3. m \in Messages /\ m.kind \notin OfChannels /\ Placed(m, NodeOf(foreign[e]))
  <2>1. m \in Messages
    BY <1>1, <1>2, OwnMessages
  <2>2. m.kind \in {"OPEN_TX", "OPEN_RX"}
    BY <1>2 DEF OpenMessage, Message, OpenKind
  <2>3. QED
    BY <2>1, <2>2 DEF OfChannels, Placed, Hailing
<1>4. mishaps \in 0 .. MaxMishaps /\ control \in Control
  BY DEF NetInv, NetFine
<1>5. mishaps = 0 /\ Alike(control, control')
  <2>1. ASSUME NEW sent \in BOOLEAN, Spend(Lose(sent)),
               control' = Post(control, NodeOf(foreign[e]), m, sent)
        PROVE  mishaps = 0 /\ Alike(control, control')
    <3>1. mishaps = 0
      BY <1>4, <2>1, Spent, LoseTyped DEF Smooth
    <3>2. QED
      BY <1>1, <1>3, <1>4, <2>1, <3>1, AlikeSent
  <2>2. ASSUME UNCHANGED <<control, mishaps>>
        PROVE  mishaps = 0 /\ Alike(control, control')
    BY <2>2 DEF Alike, Smooth
  <2>3. QED
    BY <1>2, <2>1, <2>2 DEF Open
<1>6. Smooth
  BY <1>5 DEF Open, Smooth
<1>7. \A a \in Endpoints : /\ On(a)' <=> On(a)
                           /\ "OPEN" \in flags[a] => "OPEN" \in flags'[a]
                           /\ foreign'[a] = foreign[a]
  <2>1. PICK sent \in BOOLEAN : flags' = [flags EXCEPT ![e] = IF sent THEN @ \cup {side} ELSE @]
    BY DEF Open
  <2>2. QED
    BY <2>1 DEF Open, EntryTypes, On, Sides
<1>8. QED
  BY <1>5, <1>6, <1>7, EndsKept DEF EndsInv

\* mcapi_close frees the endpoint and tells its peer.
LEMMA EndsClose ==
  ASSUME NetInv, EntryTypes, EndsInv, NEW e \in Endpoints, NEW side, NEW type,
         Close(e, side, type)
  PROVE  EndsInv'
<1> SUFFICES ASSUME Smooth' PROVE EndsHold'
  BY DEF EndsInv
<1>1. mishaps \in 0 .. MaxMishaps /\ control \in Control
  BY DEF NetInv, NetFine
<1>2. SendFin(e, 0) /\ flags' = [flags EXCEPT ![e] = {"OPEN", "DISCONNECTED"}]
      /\ foreign' = foreign /\ ~early /\ ~stray
      /\ ~(On(e) /\ InHandshake(e))
  BY DEF Close, Smooth, On
<1>3. \A a \in Endpoints : /\ On(a)' <=> On(a) /\ a # e
                           /\ "OPEN" \in flags[a] => "OPEN" \in flags'[a]
  BY <1>2 DEF EntryTypes, On
<1>4. CASE On(e)
  <2>1. PICK sent \in BOOLEAN : /\ Spend(0 + Lose(sent))
                                /\ control' = Post(control, NodeOf(foreign[e]), Fin(e), sent)
    BY <1>2, <1>4 DEF SendFin, On
  <2>2. mishaps = 0 /\ sent
    <3>1. 0 + Lose(sent) \in Nat /\ (0 + Lose(sent) = 0 => sent)
      BY LoseTyped
    <3>2. QED
      BY <1>1, <2>1, <3>1, Spent DEF Smooth
  <2>3. EndsHold
    BY <1>2, <2>2 DEF EndsInv, Smooth
  <2>4. ~Shaking(control, e)
    BY <1>2, <1>4, ShakingNow
  <2>5. PICK f \in Endpoints : f = foreign[e]
    <3>1. Bound(Busy, foreign, control, e, foreign[e])
      BY <1>4, <2>4 DEF Bound, Busy
    <3>2. QED
      BY <2>3, <3>1 DEF EndsHold, EndsOk, Answered, EntryTypes
  <2>6. NodeOf(foreign[e]) = Home[f] /\ Home[f] \in Nodes
    BY <2>5, ConnectionAssumption DEF NodeOf
  <2>7. PICK x : x = Fin(e)
    OBVIOUS
  <2>8. x \in Messages /\ x.kind = "CONNECT_FIN" /\ x.tx = e /\ x.rx = f
    <3>1. NodeOf(e) \in Nodes /\ e \in Peers /\ f \in Peers
      BY <2>5, NodeTyped DEF Peers
    <3>2. QED
      BY <2>5, <2>7, <3>1 DEF Fin, Message, Messages, Kinds
  <2>9. Posts(control, control', Home[f], x)
    BY <1>1, <2>1, <2>2, <2>6, <2>7, <2>8, SentPosts
  <2>10. e \in Busy /\ Busy \in SUBSET Endpoints
    BY <1>4 DEF Busy
  <2>11. EndsOk(Busy \ {e}, foreign, control')
    BY <2>3, <2>4, <2>5, <2>8, <2>9, <2>10, EndsClosed DEF EndsHold
  <2>12. Busy' = Busy \ {e}
    BY <1>3 DEF Busy
  <2>13. QED
    BY <1>2, <1>3, <2>3, <2>11, <2>12 DEF EndsHold
<1>5. CASE ~On(e)
  <2>1. Spend(0) /\ control' = control
    BY <1>2, <1>5 DEF SendFin, On
  <2>2. mishaps = 0
    BY <1>1, <2>1, Spent DEF Smooth
  <2>3. EndsHold /\ Alike(control, control')
    BY <1>2, <2>1, <2>2 DEF EndsInv, Smooth, Alike
  <2>4. QED
    BY <1>2, <1>3, <1>5, <2>3, EndsKept
<1>6. QED
  BY <1>4, <1>5

\* Cancelling an open and deleting an endpoint count as mishaps, and there is nothing
\* to create without them.
LEMMA EndsGone ==
  ASSUME NetInv, EndsInv, NEW e \in Endpoints, Cancel(e) \/ Delete(e) \/ Create(e)
  PROVE  EndsInv'
<1> SUFFICES ASSUME Smooth' PROVE FALSE
  BY DEF EndsInv
<1>1. mishaps \in 0 .. MaxMishaps
  BY DEF NetInv, NetFine
<1>2. \A k \in Nat : ~Spend(1 + k)
  BY <1>1, Spent DEF Smooth
<1>3. CASE Cancel(e)
  BY <1>2, <1>3 DEF Cancel
<1>4. CASE Delete(e)
  <2>1. SendFin(e, 1)
    BY <1>4 DEF Delete
  <2>2. \A sent \in BOOLEAN : ~Spend(1 + Lose(sent))
    BY <1>2, LoseTyped
  <2>3. ~Spend(1)
    BY <1>2
  <2>4. QED
    BY <2>1, <2>2, <2>3 DEF SendFin
<1>5. CASE Create(e)
  <2>1. EndsHold
    BY <1>5 DEF Create, EndsInv, Smooth
  <2>2. QED
    BY <1>5, <2>1 DEF Create, Exists, EndsHold
<1>6. QED
  BY <1>3, <1>4, <1>5

\* A datagram changes the entry of an endpoint that is free; cancelling a connect, none.
LEMMA EndsAside ==
  ASSUME NetInv, EntryTypes, EndsInv,
         (\E d \in Datagrams : SendDatagram(d)) \/ (\E c \in Calls : CancelConnect(c))
         \/ UNCHANGED vars
  PROVE  EndsInv'
<1> SUFFICES ASSUME Smooth' PROVE EndsHold'
  BY DEF EndsInv
<1>1. /\ UNCHANGED <<flags, control, mishaps, early, stray>>
      /\ \A e \in Endpoints : On(e) => foreign'[e] = foreign[e]
  BY DEF SendDatagram, CancelConnect, vars, entries, requests, On, EntryTypes
<1>2. EndsHold /\ Alike(control, control')
  BY <1>1 DEF EndsInv, Smooth, Alike
<1>3. QED
  BY <1>1, <1>2, EndsKept DEF On

\* What a handler has at hand, and what is left.
LEMMA HandEnds ==
  ASSUME NetInv, EndsHold, NEW n \in Nodes, NEW kind, Arrived(n, kind)
  PROVE  \E m \in Messages, M \in Control :
           /\ m = Head(control[n]) /\ M = Taken(n) /\ m.kind = kind
           /\ Takes(control, M, n, m) /\ Placed(m, n)
<1>1. /\ Taken(n) \in Control /\ Head(control[n]) \in Messages
      /\ Takes(control, Taken(n), n, Head(control[n]))
      /\ Head(control[n]).kind = kind
  BY HeadTakes DEF Arrived
<1>2. Placed(Head(control[n]), n)
  BY <1>1, PlacedTaken DEF EndsHold
<1>3. QED
  BY <1>1, <1>2

\* Without a mishap there was none before, and what had to be sent was.
LEMMA SmoothBefore ==
  ASSUME NetInv, Smooth', NEW a \in BOOLEAN, NEW b \in BOOLEAN, Spend(Lose(a) + Lose(b))
  PROVE  mishaps = 0 /\ a /\ b
  BY SpentTwice DEF NetInv, NetFine, Smooth

\* A request takes the send endpoint, or is refused.
LEMMA EndsRequest ==
  ASSUME NetInv, EntryTypes, EndsInv, NEW n \in Nodes, HandleConnectRequest(n)
  PROVE  EndsInv'
<1> SUFFICES ASSUME Smooth' PROVE EndsHold'
  BY DEF EndsInv
<1>1. PICK syn \in BOOLEAN, answer \in BOOLEAN :
        LET m == Head(control[n]) IN
        /\ ~Free(m.tx) => ~syn
        /\ Spend((IF Free(m.tx) THEN Lose(syn) ELSE 0) + Lose(answer))
        /\ control' = IF ~Free(m.tx) \/ ~syn
                      THEN Answer(Taken(n), m, FALSE, answer)
                      ELSE Post(Taken(n), NodeOf(m.rx), Reply(m, "CONNECT_SYN", TRUE), TRUE)
        /\ flags' = IF Free(m.tx)
                    THEN [flags EXCEPT ![m.tx] = (@ \cup {"CONNECTING"}) \ {"DISCONNECTED"}]
                    ELSE flags
  BY DEF HandleConnectRequest
<1>2. UNCHANGED <<foreign, early, stray>>
  BY DEF HandleConnectRequest
<1>3. mishaps = 0 /\ (Free(Head(control[n]).tx) => syn)
  <2>1. PICK b \in BOOLEAN : b = (Free(Head(control[n]).tx) => syn)
    BY DEF Free, Exists
  <2>2. Lose(b) = IF Free(Head(control[n]).tx) THEN Lose(syn) ELSE 0
    BY <1>1, <2>1 DEF Lose
  <2>3. Spend(Lose(b) + Lose(answer))
    BY <1>1, <2>2
  <2>4. QED
    BY <2>1, <2>3, SmoothBefore
<1>4. EndsHold
  BY <1>2, <1>3 DEF EndsInv, Smooth
<1>5. PICK m \in Messages, M \in Control :
        /\ m = Head(control[n]) /\ M = Taken(n) /\ m.kind = "CONNECT_REQUEST"
        /\ Takes(control, M, n, m) /\ Placed(m, n)
  BY <1>4, HandEnds DEF HandleConnectRequest
<1>6. /\ m.tx \in Endpoints /\ m.rx \in Endpoints /\ m.req \in Nodes
      /\ NodeOf(m.rx) = Home[m.rx] /\ Home[m.rx] \in Nodes
  BY <1>5, ConnectionAssumption DEF Placed, Hailing, Messages, NodeOf
<1>7. Alike(control, M)
  BY <1>5, AlikeTaken DEF OfChannels
<1>8. CASE Free(m.tx)
  <2>1. PICK x : x = Reply(m, "CONNECT_SYN", TRUE)
    OBVIOUS
  <2>2. x \in Messages /\ x.kind = "CONNECT_SYN" /\ x.tx = m.tx /\ x.rx = m.rx
    <3>1. "CONNECT_SYN" \in Kinds /\ TRUE \in BOOLEAN
      BY DEF Kinds
    <3>2. QED
      BY <2>1, <3>1, ReplyKeeps
  <2>3. control' = Post(M, Home[m.rx], x, TRUE)
    BY <1>1, <1>3, <1>5, <1>6, <1>8, <2>1
  <2>4. Posts(M, control', Home[m.rx], x)
    <3>1. PICK sent \in BOOLEAN : sent
      OBVIOUS
    <3>2. control' = Post(M, Home[m.rx], x, sent)
      BY <2>3, <3>1
    <3>3. QED
      BY <1>6, <2>2, <3>1, <3>2, SentPosts
  <2>5. Busy \in SUBSET Endpoints /\ m.tx \notin Busy
    BY <1>8 DEF Busy, On, Free
  <2>6. EndsOk(Busy, foreign, M)
    BY <1>4, <1>7, <2>5, EndsAlike DEF EndsHold
  <2>7. EndsOk(Busy \cup {m.tx}, foreign, control')
    BY <1>6, <2>2, <2>4, <2>5, <2>6, EndsRequested
  <2>8. \A a \in Endpoints : /\ On(a)' <=> On(a) \/ a = m.tx
                             /\ "OPEN" \in flags[a] => "OPEN" \in flags'[a]
    BY <1>1, <1>5, <1>6, <1>8 DEF EntryTypes, On
  <2>9. Busy' = Busy \cup {m.tx}
    BY <1>6, <2>8 DEF Busy
  <2>10. QED
    BY <1>2, <1>4, <2>7, <2>8, <2>9 DEF EndsHold
<1>9. CASE ~Free(m.tx)
  <2>1. PICK x : x = Reply(m, "CONNECT_RESPONSE", FALSE)
    OBVIOUS
  <2>2. x \in Messages /\ x.kind = "CONNECT_RESPONSE"
    <3>1. "CONNECT_RESPONSE" \in Kinds /\ FALSE \in BOOLEAN
      BY DEF Kinds
    <3>2. QED
      BY <2>1, <3>1, ReplyKeeps
  <2>3. control' = Post(M, m.req, x, answer) /\ flags' = flags
    BY <1>1, <1>5, <1>9, <2>1 DEF Answer
  <2>4. Alike(M, control')
    BY <1>6, <2>2, <2>3, AlikeSent DEF OfChannels, Placed, Hailing
  <2>5. Alike(control, control')
    BY <1>7, <2>4, AlikeBoth
  <2>6. QED
    BY <1>2, <1>4, <2>3, <2>5, EndsKept DEF On
<1>10. QED
  BY <1>8, <1>9

\* A SYN takes the receive endpoint, or is refused; an endpoint that is open tells so.
LEMMA EndsSyn ==
  ASSUME NetInv, EntryTypes, EndsInv, NEW n \in Nodes, HandleConnectSyn(n)
  PROVE  EndsInv'
<1> SUFFICES ASSUME Smooth' PROVE EndsHold'
  BY DEF EndsInv
<1>1. PICK f : f = foreign'[Head(control[n]).rx]
  OBVIOUS
<1>2. PICK ack \in BOOLEAN, open \in BOOLEAN :
        LET m == Head(control[n])
            acked == Post(Taken(n), NodeOf(m.tx), Reply(m, "CONNECT_ACK", Free(m.rx)), ack)
        IN
        /\ Spend(Lose(ack) + Lose(open))
        /\ \/ Free(m.rx) /\ SetUp(m.rx, "RX", m.tx, m.type)
           \/ ~Free(m.rx) /\ UNCHANGED entries
        /\ control' = IF ack /\ HasOpened(m.rx, "RX")
                      THEN Post(acked, NodeOf(f), OpenMessage(m.rx, "RX", f, m.type), open)
                      ELSE acked
  BY <1>1 DEF HandleConnectSyn
<1>3. mishaps = 0 /\ ack
  BY <1>2, SmoothBefore
<1>4. EndsHold
  BY <1>3 DEF EndsInv, Smooth, HandleConnectSyn
<1>5. PICK m \in Messages, M \in Control :
        /\ m = Head(control[n]) /\ M = Taken(n) /\ m.kind = "CONNECT_SYN"
        /\ Takes(control, M, n, m) /\ Placed(m, n)
  BY <1>4, HandEnds DEF HandleConnectSyn
<1>6. PICK t \in Endpoints, r \in Endpoints : t = m.tx /\ r = m.rx
  BY <1>5 DEF Placed, Hailing
<1>7. Home[t] \in Nodes /\ NodeOf(t) = Home[t] /\ m.type \in Types \cup {NoType}
  BY ConnectionAssumption DEF NodeOf, Messages
<1>8. PICK ok \in BOOLEAN : ok = Free(r)
  BY DEF Free, Exists
<1>9. PICK x : x = Reply(m, "CONNECT_ACK", ok)
  OBVIOUS
<1>10. x \in Messages /\ x.kind = "CONNECT_ACK" /\ x.ok = ok /\ x.tx = t /\ x.rx = r
  <2>1. "CONNECT_ACK" \in Kinds
    BY DEF Kinds
  <2>2. QED
    BY <1>6, <1>9, <2>1, ReplyKeeps
<1>11. PICK P : P = Post(M, Home[t], x, ack)
  OBVIOUS
<1>12. P \in Control /\ Posts(M, P, Home[t], x)
  BY <1>3, <1>7, <1>10, <1>11, SentPosts
<1>13. f \in Peers
  BY <1>1, <1>2, <1>5, <1>6 DEF SetUp, entries, EntryTypes, Peers
<1>14. Alike(P, control')
  <2>1. PICK o : o = OpenMessage(r, "RX", f, m.type)
    OBVIOUS
  <2>2. o \in Messages /\ o.kind = "OPEN_RX"
    <3>1. NodeOf(r) \in Nodes /\ r \in Peers
      BY NodeTyped DEF Peers
    <3>2. QED
      BY <1>7, <1>13, <2>1, <3>1 DEF OpenMessage, OpenKind, Message, Messages, Kinds
  <2>3. control' = IF ack /\ HasOpened(r, "RX") THEN Post(P, NodeOf(f), o, open) ELSE P
    BY <1>2, <1>5, <1>6, <1>7, <1>8, <1>9, <1>11, <2>1
  <2>4. NodeOf(f) \in Nodes /\ Placed(o, NodeOf(f)) /\ o.kind \notin OfChannels
    BY <1>13, <2>2, NodeTyped DEF Placed, Hailing, OfChannels
  <2>5. Alike(P, Post(P, NodeOf(f), o, open))
    BY <1>12, <2>2, <2>4, AlikeSent
  <2>6. Alike(P, P)
    BY DEF Alike
  <2>7. QED
    BY <2>3, <2>5, <2>6
<1>15. Busy \in SUBSET Endpoints /\ EndsOk(Busy, foreign, control)
  BY <1>4 DEF Busy, EndsHold
<1>16. CASE Free(r)
  <2>1. /\ flags' = [flags EXCEPT ![r] = (@ \cup {"CONNECTING", "CONNECTING_RX"})
                                            \ {"DISCONNECTED"}]
        /\ foreign' = [foreign EXCEPT ![r] = t]
    BY <1>2, <1>5, <1>6, <1>16 DEF SetUp, ConnectingAs
  <2>2. foreign'[r] = t /\ \A e \in Endpoints : e # r => foreign'[e] = foreign[e]
    BY <2>1 DEF EntryTypes
  <2>3. \A a \in Endpoints : /\ On(a)' <=> On(a) \/ a = r
                             /\ "OPEN" \in flags[a] => "OPEN" \in flags'[a]
    BY <2>1 DEF EntryTypes, On
  <2>4. r \notin Busy /\ Busy' = Busy \cup {r} /\ Busy \cup {r} \in SUBSET Endpoints
    BY <1>16, <2>3 DEF Busy, On, Free
  <2>5. PICK G : G = foreign'
    OBVIOUS
  <2>6. EndsOk(Busy \cup {r}, G, P)
    BY <1>5, <1>6, <1>8, <1>10, <1>12, <1>15, <1>16, <2>2, <2>4, <2>5, EndsAccepted
  <2>7. EndsOk(Busy \cup {r}, G, control')
    BY <1>14, <2>4, <2>6, EndsAlike
  <2>8. QED
    BY <1>4, <2>3, <2>4, <2>5, <2>7 DEF EndsHold
<1>17. CASE ~Free(r)
  <2>1. UNCHANGED <<flags, foreign>>
    BY <1>2, <1>5, <1>6, <1>17 DEF entries
  <2>2. EndsOk(Busy, foreign, P)
    BY <1>5, <1>6, <1>8, <1>10, <1>12, <1>15, <1>17, EndsRefused
  <2>3. EndsOk(Busy, foreign, control')
    BY <1>14, <1>15, <2>2, EndsAlike
  <2>4. Busy' = Busy
    BY <2>1 DEF Busy, On
  <2>5. QED
    BY <1>4, <2>1, <2>3, <2>4 DEF EndsHold
<1>18. QED
  BY <1>16, <1>17

\* An ACK makes the channel or frees the sender; the caller is told.
LEMMA EndsAck ==
  ASSUME NetInv, EntryTypes, EndsInv, NEW n \in Nodes, HandleConnectAck(n)
  PROVE  EndsInv'
<1> SUFFICES ASSUME Smooth' PROVE EndsHold'
  BY DEF EndsInv
<1>1. PICK open \in BOOLEAN, answer \in BOOLEAN :
        LET m == Head(control[n])
            tell == Exists(m.tx) /\ m.ok /\ HasOpened(m.tx, "TX")
        IN
        /\ Spend(Lose(open) + Lose(answer))
        /\ control' =
             Post(IF tell
                  THEN Post(Taken(n), NodeOf(m.rx), OpenMessage(m.tx, "TX", m.rx, m.type), open)
                  ELSE Taken(n),
                  m.req, Reply(m, "CONNECT_RESPONSE", m.ok /\ open), answer)
  BY DEF HandleConnectAck, Answer
<1>2. mishaps = 0
  BY <1>1, SmoothBefore
<1>3. EndsHold
  BY <1>2 DEF EndsInv, Smooth, HandleConnectAck
<1>4. PICK m \in Messages, M \in Control :
        /\ m = Head(control[n]) /\ M = Taken(n) /\ m.kind = "CONNECT_ACK"
        /\ Takes(control, M, n, m) /\ Placed(m, n)
  BY <1>3, HandEnds DEF HandleConnectAck
<1>5. PICK t \in Endpoints, r \in Endpoints : t = m.tx /\ r = m.rx
  BY <1>4 DEF Placed, Hailing
<1>6. /\ m.type \in Types \cup {NoType} /\ m.req \in Nodes /\ m.ok \in BOOLEAN
      /\ NodeOf(r) \in Nodes /\ Exists(t)
  <2>1. r \in Peers
    BY DEF Peers
  <2>2. QED
    BY <1>3, <2>1, NodeTyped DEF Messages, EndsHold, Exists
<1>7. Alike(M, control')
  <2>1. PICK ok \in BOOLEAN : ok = (m.ok /\ open)
    BY <1>6
  <2>2. PICK x : x = Reply(m, "CONNECT_RESPONSE", ok)
    OBVIOUS
  <2>3. x \in Messages /\ x.kind = "CONNECT_RESPONSE"
    <3>1. "CONNECT_RESPONSE" \in Kinds
      BY DEF Kinds
    <3>2. QED
      BY <2>2, <3>1, ReplyKeeps
  <2>4. PICK o : o = OpenMessage(t, "TX", r, m.type)
    OBVIOUS
  <2>5. o \in Messages /\ o.kind = "OPEN_TX"
    <3>1. NodeOf(t) \in Nodes /\ t \in Peers /\ r \in Peers
      BY NodeTyped DEF Peers
    <3>2. QED
      BY <1>6, <2>4, <3>1 DEF OpenMessage, OpenKind, Message, Messages, Kinds
  <2>6. PICK tell \in BOOLEAN : tell = (Exists(t) /\ m.ok /\ HasOpened(t, "TX"))
    BY <1>6 DEF HasOpened, Exists
  <2>7. PICK P : P = IF tell THEN Post(M, NodeOf(r), o, open) ELSE M
    OBVIOUS
  <2>8. control' = Post(P, m.req, x, answer)
    BY <1>1, <1>4, <1>5, <2>1, <2>2, <2>4, <2>6, <2>7
  <2>9. P \in Control /\ Alike(M, P)
    <3>1. Alike(M, M)
      BY DEF Alike
    <3>2. Post(M, NodeOf(r), o, open) \in Control /\ Alike(M, Post(M, NodeOf(r), o, open))
      BY <1>6, <2>5, AlikeSent DEF OfChannels, Placed, Hailing
    <3>3. QED
      BY <2>7, <3>1, <3>2
  <2>10. Alike(P, control')
    BY <1>6, <2>3, <2>8, <2>9, AlikeSent DEF OfChannels, Placed, Hailing
  <2>11. QED
    BY <2>9, <2>10, AlikeBoth
<1>8. Busy \in SUBSET Endpoints /\ EndsOk(Busy, foreign, control)
  BY <1>3 DEF Busy, EndsHold
<1>9. CASE m.ok
  <2>1. /\ flags' = [flags EXCEPT ![t] = (@ \cup {"CONNECTING", "CONNECTING_TX"})
                                            \ {"DISCONNECTED"}]
        /\ foreign' = [foreign EXCEPT ![t] = r]
    BY <1>4, <1>5, <1>6, <1>9 DEF HandleConnectAck, SetUp, ConnectingAs
  <2>2. foreign'[t] = r /\ \A e \in Endpoints : e # t => foreign'[e] = foreign[e]
    BY <2>1 DEF EntryTypes
  <2>3. t \in Busy
    <3>1. HasIn(control[n], Shake(t))
      <4>1. m \in Shake(t)
        BY <1>4, <1>5 DEF Shake
      <4>2. QED
        BY <1>4, <4>1 DEF Takes
    <3>2. QED
      BY <1>8, <3>1 DEF EndsOk, Handshaken, Shaking
  <2>4. \A a \in Endpoints : /\ On(a)' <=> On(a) \/ a = t
                             /\ "OPEN" \in flags[a] => "OPEN" \in flags'[a]
    BY <2>1 DEF EntryTypes, On
  <2>5. Busy' = Busy
    BY <2>3, <2>4 DEF Busy
  <2>6. PICK G : G = foreign'
    OBVIOUS
  <2>7. EndsOk(Busy, G, M)
    BY <1>4, <1>5, <1>8, <1>9, <2>2, <2>6, EndsMade
  <2>8. EndsOk(Busy, G, control')
    BY <1>7, <1>8, <2>7, EndsAlike
  <2>9. QED
    BY <1>3, <2>4, <2>5, <2>6, <2>8 DEF EndsHold
<1>10. CASE ~m.ok
  <2>1. flags' = [flags EXCEPT ![t] = @ \ {"CONNECTING"}] /\ foreign' = foreign
    BY <1>4, <1>5, <1>6, <1>10 DEF HandleConnectAck
  <2>2. \A a \in Endpoints : /\ On(a)' <=> On(a) /\ a # t
                             /\ "OPEN" \in flags[a] => "OPEN" \in flags'[a]
    BY <2>1 DEF EntryTypes, On
  <2>3. Busy' = Busy \ {t} /\ Busy \ {t} \in SUBSET Endpoints
    BY <2>2 DEF Busy
  <2>4. EndsOk(Busy \ {t}, foreign, M)
    BY <1>4, <1>5, <1>8, <1>10, EndsGivenUp
  <2>5. EndsOk(Busy \ {t}, foreign, control')
    BY <1>7, <2>3, <2>4, EndsAlike
  <2>6. QED
    BY <1>3, <2>1, <2>2, <2>3, <2>5 DEF EndsHold
<1>11. QED
  BY <1>6, <1>9, <1>10

\* An open that is told, acknowledged or answered concerns nobody's peer.
LEMMA EndsOpened ==
  ASSUME NetInv, EntryTypes, EndsInv, NEW n \in Nodes, NEW side \in Sides, HandleOpen(n, side)
  PROVE  EndsInv'
<1> SUFFICES ASSUME Smooth' PROVE EndsHold'
  BY DEF EndsInv
<1>1. PICK ok \in BOOLEAN : ok = Exists(EndOf(Head(control[n]), Peer(side)))
  BY DEF Exists
<1>2. PICK sent \in BOOLEAN :
        /\ Spend(Lose(sent))
        /\ control' = Post(Taken(n), NodeOf(EndOf(Head(control[n]), side)),
                           Reply(Head(control[n]), AckKind(side), ok), sent)
  BY <1>1 DEF HandleOpen
<1>3. mishaps = 0
  BY <1>2, LoseTyped, Spent DEF NetInv, NetFine, Smooth
<1>4. EndsHold
  BY <1>3 DEF EndsInv, Smooth, HandleOpen
<1>5. PICK m \in Messages, M \in Control :
        /\ m = Head(control[n]) /\ M = Taken(n) /\ m.kind = OpenKind(side)
        /\ Takes(control, M, n, m) /\ Placed(m, n)
  BY <1>4, HandEnds DEF HandleOpen
<1>6. Alike(control, M)
  BY <1>5, AlikeTaken DEF OfChannels, OpenKind
<1>7. PICK x : x = Reply(m, AckKind(side), ok)
  OBVIOUS
<1>8. x \in Messages /\ x.kind = AckKind(side)
  <2>1. AckKind(side) \in Kinds
    BY DEF AckKind, Kinds
  <2>2. QED
    BY <1>7, <2>1, ReplyKeeps
<1>9. PICK to \in Nodes : to = NodeOf(EndOf(m, side))
  BY NodeTyped DEF EndOf, Messages
<1>10. control' = Post(M, to, x, sent)
  BY <1>2, <1>5, <1>7, <1>9
<1>11. Alike(M, control')
  BY <1>8, <1>10, AlikeSent DEF OfChannels, AckKind, Placed, Hailing
<1>12. Alike(control, control')
  BY <1>6, <1>11, AlikeBoth
<1>13. \A a \in Endpoints : /\ On(a)' <=> On(a)
                            /\ "OPEN" \in flags[a] => "OPEN" \in flags'[a]
                            /\ foreign'[a] = foreign[a]
  BY DEF HandleOpen, Acknowledge, EntryTypes, On, Acked
<1>14. QED
  BY <1>4, <1>12, <1>13, EndsKept

\* The same of their acknowledgements, and of the answers to connects.
LEMMA EndsHandled ==
  ASSUME NetInv, EntryTypes, EndsInv, NEW n \in Nodes,
         (\E side \in Sides : HandleOpenAck(n, side)) \/ HandleConnectResponse(n)
  PROVE  EndsInv'
<1> SUFFICES ASSUME Smooth' PROVE EndsHold'
  BY DEF EndsInv
<1>1. PICK kind \in {"OPEN_TX_ACK", "OPEN_RX_ACK", "CONNECT_RESPONSE"} : Arrived(n, kind)
  BY DEF HandleOpenAck, HandleConnectResponse, AckKind
<1>2. control' = Taken(n) /\ UNCHANGED <<foreign, mishaps, early, stray>>
  BY DEF HandleOpenAck, HandleConnectResponse, entries
<1>3. EndsHold
  BY <1>2 DEF EndsInv, Smooth
<1>4. PICK m \in Messages, M \in Control :
        /\ m = Head(control[n]) /\ M = Taken(n) /\ m.kind = kind
        /\ Takes(control, M, n, m) /\ Placed(m, n)
  BY <1>1, <1>3, HandEnds
<1>5. Alike(control, control')
  BY <1>1, <1>2, <1>4, AlikeTaken DEF OfChannels
<1>6. \A a \in Endpoints : /\ On(a)' <=> On(a)
                           /\ "OPEN" \in flags[a] => "OPEN" \in flags'[a]
  BY DEF HandleOpenAck, HandleConnectResponse, Acknowledge, EntryTypes, On, Acked, Sides, entries
<1>7. QED
  BY <1>2, <1>3, <1>5, <1>6, EndsKept

\* A FIN frees the endpoint it is for.
LEMMA EndsFin ==
  ASSUME NetInv, EntryTypes, EndsInv, NEW n \in Nodes, HandleFin(n)
  PROVE  EndsInv'
<1> SUFFICES ASSUME Smooth' PROVE EndsHold'
  BY DEF EndsInv
<1>1. control' = Taken(n) /\ UNCHANGED <<foreign, mishaps, early>>
  BY DEF HandleFin
<1>2. ~stray /\ (Exists(Head(control[n]).rx) => ~Stray(Head(control[n])))
  <2>1. ~stray'
    BY DEF Smooth
  <2>2. CASE Exists(Head(control[n]).rx)
    <3>1. stray' = (stray \/ Stray(Head(control[n])))
      BY <2>2 DEF HandleFin
    <3>2. QED
      BY <2>1, <3>1
  <2>3. CASE ~Exists(Head(control[n]).rx)
    BY <2>1, <2>3 DEF HandleFin
  <2>4. QED
    BY <2>2, <2>3
<1>3. EndsHold
  BY <1>1, <1>2 DEF EndsInv, Smooth
<1>4. PICK m \in Messages, M \in Control :
        /\ m = Head(control[n]) /\ M = Taken(n) /\ m.kind = "CONNECT_FIN"
        /\ Takes(control, M, n, m) /\ Placed(m, n)
  BY <1>3, HandEnds DEF HandleFin
<1>5. PICK e \in Endpoints, f \in Endpoints : e = m.rx /\ f = m.tx
  BY <1>4 DEF Placed
<1>6. Exists(e)
  BY <1>3 DEF EndsHold, Exists
<1>7. flags' = [flags EXCEPT ![e] = @ \ {"CONNECTED", "CONNECTING"}]
  BY <1>4, <1>5, <1>6 DEF HandleFin
<1>8. \A a \in Endpoints : /\ On(a)' <=> On(a) /\ a # e
                           /\ "OPEN" \in flags[a] => "OPEN" \in flags'[a]
  BY <1>7 DEF EntryTypes, On
<1>9. Busy' = Busy \ {e} /\ Busy \in SUBSET Endpoints
  BY <1>8 DEF Busy
<1>10. e \in Busy => foreign[e] = f /\ ~Shaking(control, e)
  BY <1>2, <1>4, <1>5, <1>6, ShakingNow DEF Stray, Busy, On
<1>11. EndsOk(Busy \ {e}, foreign, M)
  BY <1>3, <1>4, <1>5, <1>9, <1>10, EndsFinned DEF EndsHold
<1>12. QED
  BY <1>1, <1>3, <1>4, <1>8, <1>9, <1>11 DEF EndsHold

\* Every step keeps the agreement that is left.
LEMMA EndsStep ==
  ASSUME Inv, EndsInv, [Next]_vars
  PROVE  EndsInv'
<1>1. NetInv /\ EntryTypes
  BY DEF Inv, TypeInv
<1>2. ASSUME NEW c \in Calls, Connect(c)
      PROVE  EndsInv'
  BY <1>1, <1>2, EndsConnect
<1>3. ASSUME NEW o \in OpenAs, Open(o.ep, o.side, o.type)
      PROVE  EndsInv'
  <2>1. o.ep \in Endpoints /\ o.side \in Sides /\ o.type \in Types
    BY ConnectionAssumption
  <2>2. QED
    BY <1>1, <1>3, <2>1, EndsOpen
<1>4. ASSUME NEW e \in Closers, NEW side \in Sides, NEW type \in Types, Close(e, side, type)
      PROVE  EndsInv'
  BY <1>1, <1>4, EndsClose, ConnectionAssumption
<1>5. ASSUME NEW e \in Closers, Cancel(e) \/ Delete(e) \/ Create(e)
      PROVE  EndsInv'
  BY <1>1, <1>5, EndsGone, ConnectionAssumption
<1>6. ASSUME (\E d \in Datagrams : SendDatagram(d)) \/ (\E c \in Calls : CancelConnect(c))
             \/ UNCHANGED vars
      PROVE  EndsInv'
  BY <1>1, <1>6, EndsAside
<1>7. ASSUME NEW n \in Nodes, ControlTask(n)
      PROVE  EndsInv'
  BY <1>1, <1>7, EndsRequest, EndsSyn, EndsAck, EndsOpened, EndsHandled, EndsFin
  DEF ControlTask
<1>8. QED
  BY <1>2, <1>3, <1>4, <1>5, <1>6, <1>7 DEF Next

\* When no control message is under way the ends of a connection agree on it, however
\* connecting, opening and closing interleaved: for every set of calls, opens, closes and
\* datagrams, whoever competes for whom.
THEOREM EndsAgreed == Spec => []EndsAgree
<1>1. ASSUME Init PROVE EndsInv
  <2>1. \A n \in Nodes : \A S, T : ~HasIn(control[n], S) /\ ~Follows(control[n], S, T)
    BY <1>1 DEF Init, HasIn, Follows
  <2>2. /\ \A e \in Endpoints : "OPEN" \in flags[e] /\ ~On(e)
        /\ \A e \in Endpoints : Home[e] \in Nodes
    BY <1>1, ConnectionAssumption DEF Init, On
  <2>3. Busy = {}
    BY <2>2 DEF Busy
  <2>4. \A e, f : ~Bound(Busy, foreign, control, e, f) /\ ~Linked(Busy, foreign, control, e, f)
    BY <2>3 DEF Bound, Linked
  <2>5. Handshaken(Busy, control)
    BY <2>1 DEF Handshaken, Once, Shaking
  <2>6. Answered(Busy, foreign, control)
    BY <2>4 DEF Answered
  <2>7. Confirmed(Busy, foreign, control) /\ Undisturbed(Busy, foreign, control)
    BY <2>1, <2>2, <2>4 DEF Confirmed, Undisturbed
  <2>8. QED
    BY <2>1, <2>2, <2>5, <2>6, <2>7 DEF EndsInv, EndsHold, EndsOk
<1>2. ASSUME Inv, EndsInv, [Next]_vars PROVE EndsInv'
  BY <1>2, EndsStep
<1>3. ASSUME Inv, EndsInv PROVE EndsAgree
  <2> SUFFICES ASSUME Quiet, mishaps = 0, ~early, ~stray,
                      NEW e \in Endpoints, On(e)
               PROVE  /\ foreign[e] \in Endpoints /\ foreign[foreign[e]] = e
                      /\ On(foreign[e])
    BY DEF EndsAgree, On
  <2>1. EndsOk(Busy, foreign, control)
    BY <1>3 DEF EndsInv, EndsHold, Smooth
  <2>2. \A n \in Nodes : \A S : ~HasIn(control[n], S)
    BY DEF Quiet, HasIn
  <2>3. foreign[e] \in Peers
    BY <1>3 DEF Inv, TypeInv, EntryTypes
  <2>4. Bound(Busy, foreign, control, e, foreign[e])
    BY <2>2 DEF Bound, Busy, Shaking
  <2>5. foreign[e] \in Endpoints /\ Linked(Busy, foreign, control, e, foreign[e])
    BY <2>1, <2>2, <2>3, <2>4, ConnectionAssumption DEF EndsOk, Answered
  <2>6. QED
    BY <2>5 DEF Linked, Bound, Busy
<1>4. QED
  BY <1>1, <1>2, <1>3, ConnectionInvariant, PTL DEF Spec
=============================================================================
