------------------------- MODULE Connection_agreement -------------------------
(***************************************************************************)
(* Proofs about channels that nobody closes, for every set of nodes,       *)
(* endpoints and calls: who is connected to whom while channels are made   *)
(* and opened, and that the answers to mcapi_connect are true.             *)
(***************************************************************************)
EXTENDS Connection_proofs

-----------------------------------------------------------------------------
(* Channels while nobody closes.                                           *)

Senders   == {CallOf[c].tx : c \in Calls}
Receivers == {CallOf[c].rx : c \in Calls}

\* The application keeps to one direction for each endpoint it connects.
RolesApart == Senders \cap Receivers = {}

Marked(e, side) == ConnectingAs(side) \in flags[e]

\* One end of the channel from t to r is part of it and has been opened.
Told(t, r, side) ==
  LET e == IF side = "TX" THEN t ELSE r
      p == IF side = "TX" THEN r ELSE t
  IN Marked(e, side) /\ foreign[e] = p /\ side \in flags[e]

\* A sender is marked before it has a peer, a receiver with it.
EntryRoles ==
  \A e \in Endpoints :
    /\ "OPEN" \in flags[e]
    /\ Marked(e, "TX") => e \in Senders /\ On(e)
    /\ Marked(e, "RX") => e \in Receivers /\ On(e)
    /\ On(e) /\ e \notin Senders => Marked(e, "RX")
    /\ chanType[e] # NoType =>
         flags[e] \cap Sides # {} \/ Marked(e, "TX") \/ Marked(e, "RX")

\* A receiver belongs to a sender, which is taken, and to itself alone; a sender that
\* is set up and its receiver name each other.
Tied ==
  /\ \A r \in Endpoints : Marked(r, "RX") =>
       foreign[r] \in Senders /\ On(foreign[r])
  /\ \A r, q \in Endpoints :
       Marked(r, "RX") /\ Marked(q, "RX") /\ foreign[r] = foreign[q] => r = q
  /\ \A t \in Endpoints : Marked(t, "TX") =>
       LET r == foreign[t] IN
       /\ r \in Endpoints /\ Marked(r, "RX") /\ foreign[r] = t
       /\ chanType[r] = chanType[t]

\* An end is acknowledged only where the other one, or itself, has been opened.
AcksInv ==
  \A e \in Endpoints :
    /\ IsConnected(e) => "TX_ACKED" \in flags[e] /\ "RX_ACKED" \in flags[e]
    /\ \A side \in Sides : Acked(side) \in flags[e] =>
         \E t, r \in Endpoints : e \in {t, r} /\ Told(t, r, side)

\* What a control message promises of the endpoints it names.
MessageFine(m) ==
  /\ m.kind # "CONNECT_FIN"
  /\ m.kind \in Hailing => m.tx \in Senders /\ m.rx \in Receivers
  /\ m.kind \in {"CONNECT_SYN", "CONNECT_ACK"} => On(m.tx) /\ ~Marked(m.tx, "TX")
  /\ m.kind = "CONNECT_SYN" \/ (m.kind = "CONNECT_ACK" /\ ~m.ok) =>
       \A r \in Endpoints : Marked(r, "RX") => foreign[r] # m.tx
  /\ m.kind = "CONNECT_ACK" /\ m.ok =>
       Marked(m.rx, "RX") /\ foreign[m.rx] = m.tx /\ chanType[m.rx] = m.type
  /\ \A side \in Sides : m.kind \in {OpenKind(side), AckKind(side)} =>
       m.tx \in Endpoints /\ m.rx \in Endpoints /\ m.ok /\ Told(m.tx, m.rx, side)

AllFine == \A m \in Way(control) : MessageFine(m)
Single  == \A t \in Endpoints : Once(control, Shake(t))
PairsInv == EntryRoles /\ Tied /\ AcksInv /\ AllFine /\ Single

\* The calls name endpoints.
LEMMA RolesTyped == Senders \subseteq Endpoints /\ Receivers \subseteq Endpoints
  BY ConnectionAssumption DEF Senders, Receivers

\* A step that changes no endpoint adds only messages that are fine.
LEMMA PairsSame ==
  ASSUME PairsInv, UNCHANGED <<flags, chanType, foreign>>, Single',
         \A m \in Way(control') : m \in Way(control) \/ MessageFine(m)
  PROVE  PairsInv'
<1>1. EntryRoles' /\ Tied'
  BY DEF PairsInv, EntryRoles, Tied, On, Marked
<1>2. AcksInv'
  BY DEF PairsInv, AcksInv, Told, Marked, IsConnected
<1>3. \A m : MessageFine(m) => MessageFine(m)'
  BY DEF MessageFine, On, Marked, Told
<1>4. AllFine'
  BY <1>3 DEF PairsInv, AllFine
<1>5. QED
  BY <1>1, <1>2, <1>4 DEF PairsInv

\* Who is part of a channel stays so, and a sender may be taken.
Calm ==
  \A e \in Endpoints :
    /\ \A side \in Sides : Marked(e, side)' <=> Marked(e, side)
    /\ On(e) => On(e)' /\ foreign'[e] = foreign[e] /\ chanType'[e] = chanType[e]
    /\ On(e)' => On(e) \/ e \in Senders
    /\ flags[e] \cap {"OPEN", "TX", "RX"} \subseteq flags'[e]
    /\ chanType'[e] # NoType =>
         chanType'[e] = chanType[e] \/ flags'[e] \cap Sides # {}

\* Nothing that was known of the channels is lost in such a step.
LEMMA CalmStep ==
  ASSUME EntryRoles, Tied, Calm
  PROVE  /\ EntryRoles' /\ Tied'
         /\ \A t, r \in Endpoints, side \in Sides : Told(t, r, side) => Told(t, r, side)'
         /\ \A m : MessageFine(m) => MessageFine(m)'
<1>1. \A e \in Endpoints :
        /\ Marked(e, "TX")' <=> Marked(e, "TX")
        /\ Marked(e, "RX")' <=> Marked(e, "RX")
        /\ On(e) => On(e)' /\ foreign'[e] = foreign[e] /\ chanType'[e] = chanType[e]
        /\ On(e)' => On(e) \/ e \in Senders
        /\ Marked(e, "TX") \/ Marked(e, "RX") => On(e)
  BY DEF Calm, EntryRoles, Sides
<1>2. EntryRoles'
  <2> SUFFICES ASSUME NEW e \in Endpoints
               PROVE  /\ "OPEN" \in flags'[e]
                      /\ Marked(e, "TX")' => e \in Senders /\ On(e)'
                      /\ Marked(e, "RX")' => e \in Receivers /\ On(e)'
                      /\ On(e)' /\ e \notin Senders => Marked(e, "RX")'
                      /\ chanType'[e] # NoType =>
                           \/ flags'[e] \cap Sides # {}
                           \/ Marked(e, "TX")' \/ Marked(e, "RX")'
    BY DEF EntryRoles
  <2>1. /\ "OPEN" \in flags[e]
        /\ Marked(e, "TX") => e \in Senders
        /\ Marked(e, "RX") => e \in Receivers
        /\ On(e) /\ e \notin Senders => Marked(e, "RX")
        /\ chanType[e] # NoType =>
             flags[e] \cap Sides # {} \/ Marked(e, "TX") \/ Marked(e, "RX")
    BY DEF EntryRoles
  <2>2. /\ "OPEN" \in flags'[e]
        /\ flags[e] \cap Sides # {} => flags'[e] \cap Sides # {}
    BY <2>1 DEF Calm, Sides
  <2>3. chanType'[e] # NoType => chanType'[e] = chanType[e] \/ flags'[e] \cap Sides # {}
    BY DEF Calm
  <2>4. QED
    BY <1>1, <2>1, <2>2, <2>3
<1>3. Tied'
  <2>1. \A r \in Endpoints : Marked(r, "RX")' =>
          foreign'[r] \in Senders /\ On(foreign[r])'
    <3>1. ASSUME NEW r \in Endpoints, Marked(r, "RX")'
          PROVE  foreign'[r] \in Senders /\ On(foreign[r])'
      <4>1. foreign[r] \in Senders /\ On(foreign[r]) /\ foreign'[r] = foreign[r]
        BY <1>1, <3>1 DEF Tied
      <4>2. PICK t \in Endpoints : t = foreign[r]
        BY <4>1, RolesTyped
      <4>3. On(t)' /\ t = foreign'[r]
        BY <1>1, <4>1, <4>2
      <4>4. QED
        BY <4>1, <4>2, <4>3 DEF On
    <3>2. QED
      BY <3>1
  <2>2. \A r, q \in Endpoints :
          Marked(r, "RX")' /\ Marked(q, "RX")' /\ foreign'[r] = foreign'[q] => r = q
    BY <1>1 DEF Tied
  <2>3. ASSUME NEW t \in Endpoints, Marked(t, "TX")'
        PROVE  /\ foreign'[t] \in Endpoints /\ Marked(foreign[t], "RX")'
               /\ foreign'[foreign'[t]] = t /\ chanType'[foreign'[t]] = chanType'[t]
    <3>1. PICK r : r = foreign[t]
      OBVIOUS
    <3>2. r \in Endpoints /\ Marked(r, "RX") /\ foreign[r] = t /\ chanType[r] = chanType[t]
      BY <1>1, <2>3, <3>1 DEF Tied
    <3>3. foreign'[t] = r /\ chanType'[t] = chanType[t]
      BY <1>1, <2>3, <3>1
    <3>4. Marked(r, "RX")' /\ foreign'[r] = t /\ chanType'[r] = chanType[r]
      BY <1>1, <3>2
    <3>5. QED
      BY <3>2, <3>3, <3>4 DEF Marked
  <2>4. QED
    BY <2>1, <2>2, <2>3 DEF Tied
<1>4. ASSUME NEW t \in Endpoints, NEW r \in Endpoints, NEW side \in Sides, Told(t, r, side)
      PROVE  Told(t, r, side)'
  <2>1. PICK e \in Endpoints : e = IF side = "TX" THEN t ELSE r
    OBVIOUS
  <2>2. Marked(e, side) /\ side \in flags[e] /\ foreign[e] = IF side = "TX" THEN r ELSE t
    BY <1>4, <2>1 DEF Told
  <2>3. Marked(e, side)' /\ foreign'[e] = foreign[e]
    BY <1>1, <2>2 DEF Sides
  <2>4. side \in flags'[e]
    BY <2>2 DEF Calm, Sides
  <2>5. QED
    BY <2>1, <2>2, <2>3, <2>4 DEF Told
<1>5. ASSUME NEW m, MessageFine(m)
      PROVE  MessageFine(m)'
  <2>1. /\ m.kind # "CONNECT_FIN"
        /\ m.kind \in Hailing => m.tx \in Senders /\ m.rx \in Receivers
    BY <1>5 DEF MessageFine
  <2>2. m.kind \in {"CONNECT_SYN", "CONNECT_ACK"} =>
          m.tx \in Endpoints /\ m.rx \in Endpoints /\ On(m.tx)' /\ ~Marked(m.tx, "TX")'
    BY <1>1, <1>5, <2>1, RolesTyped DEF MessageFine, Hailing
  <2>3. m.kind = "CONNECT_SYN" \/ (m.kind = "CONNECT_ACK" /\ ~m.ok) =>
          \A r \in Endpoints : Marked(r, "RX")' => foreign'[r] # m.tx
    BY <1>1, <1>5 DEF MessageFine
  <2>4. m.kind = "CONNECT_ACK" /\ m.ok =>
          Marked(m.rx, "RX")' /\ foreign'[m.rx] = m.tx /\ chanType'[m.rx] = m.type
    BY <1>1, <1>5, <2>2 DEF MessageFine
  <2>5. \A side \in Sides : m.kind \in {OpenKind(side), AckKind(side)} =>
          m.tx \in Endpoints /\ m.rx \in Endpoints /\ m.ok /\ Told(m.tx, m.rx, side)'
    BY <1>4, <1>5 DEF MessageFine
  <2>6. QED
    BY <2>1, <2>2, <2>3, <2>4, <2>5 DEF MessageFine
<1>6. QED
  BY <1>2, <1>3, <1>4, <1>5

\* Acknowledgements survive where nothing is forgotten and none is added.
LEMMA AcksKept ==
  ASSUME AcksInv,
         \A t, r \in Endpoints, side \in Sides : Told(t, r, side) => Told(t, r, side)',
         \A e \in Endpoints, bit \in {"CONNECTED", "TX_ACKED", "RX_ACKED"} :
           bit \in flags'[e] <=> bit \in flags[e]
  PROVE  AcksInv'
<1> SUFFICES ASSUME NEW e \in Endpoints
             PROVE  /\ IsConnected(e)' => "TX_ACKED" \in flags'[e] /\ "RX_ACKED" \in flags'[e]
                    /\ \A side \in Sides : Acked(side) \in flags'[e] =>
                         \E t, r \in Endpoints : e \in {t, r} /\ Told(t, r, side)'
  BY DEF AcksInv
<1>1. IsConnected(e)' => "TX_ACKED" \in flags'[e] /\ "RX_ACKED" \in flags'[e]
  BY DEF AcksInv, IsConnected
<1>2. ASSUME NEW side \in Sides, Acked(side) \in flags'[e]
      PROVE  \E t, r \in Endpoints : e \in {t, r} /\ Told(t, r, side)'
  <2>1. Acked(side) \in {"CONNECTED", "TX_ACKED", "RX_ACKED"}
    BY DEF Acked
  <2>2. Acked(side) \in flags[e]
    BY <1>2, <2>1
  <2>3. PICK t \in Endpoints, r \in Endpoints : e \in {t, r} /\ Told(t, r, side)
    BY <2>2 DEF AcksInv
  <2>4. QED
    BY <2>3
<1>3. QED
  BY <1>1, <1>2

\* What a handler has at hand while the channels are in order.
LEMMA HandAtPairs ==
  ASSUME PairsInv, NetInv, NEW n \in Nodes, NEW kind, Arrived(n, kind)
  PROVE  \E m \in Messages :
           /\ m = Head(control[n]) /\ m.kind = kind /\ MessageFine(m)
           /\ Taken(n) \in Control
           /\ Way(Taken(n)) \subseteq Way(control)
           /\ \A t \in Endpoints : /\ Once(Taken(n), Shake(t))
                                   /\ m \in Shake(t) => Way(Taken(n)) \cap Shake(t) = {}
<1>1. control \in Control /\ control[n] # <<>> /\ Head(control[n]).kind = kind
  BY DEF NetInv, NetFine, Arrived
<1>2. /\ Taken(n) \in Control /\ Head(control[n]) \in Way(control)
      /\ Way(control) = Way(Taken(n)) \cup {Head(control[n])}
  BY <1>1, WayTaken
<1>3. Head(control[n]) \in Messages /\ MessageFine(Head(control[n]))
  BY <1>2 DEF Way, PairsInv, AllFine
<1>4. \A t \in Endpoints : /\ Once(Taken(n), Shake(t))
                           /\ Head(control[n]) \in Shake(t) => Way(Taken(n)) \cap Shake(t) = {}
  BY <1>1, OnceTaken DEF PairsInv, Single
<1>5. QED
  BY <1>1, <1>2, <1>3, <1>4

\* A call of mcapi_connect sends a request.
LEMMA PairsConnect ==
  ASSUME PairsInv, NetInv, NEW c \in Calls, Connect(c)
  PROVE  PairsInv'
<1>1. UNCHANGED <<flags, chanType, foreign>>
  BY DEF Connect, entries
<1>2. CASE control' = control
  <2>1. Single' /\ \A m \in Way(control') : m \in Way(control)
    BY <1>2 DEF PairsInv, Single
  <2>2. QED
    BY <1>1, <2>1, PairsSame
<1>3. ASSUME NEW sent \in BOOLEAN,
             control' = Post(control, Home[CallOf[c].tx],
                             Message("CONNECT_REQUEST", CallOf[c].tx, CallOf[c].rx,
                                     CallOf[c].type, CallOf[c].node, TRUE), sent)
      PROVE  PairsInv'
  <2>1. PICK m : m = Message("CONNECT_REQUEST", CallOf[c].tx, CallOf[c].rx,
                             CallOf[c].type, CallOf[c].node, TRUE)
    OBVIOUS
  <2>2. PICK n \in Nodes : n = Home[CallOf[c].tx]
    BY ConnectionAssumption
  <2>3. /\ m \in Messages /\ m.kind = "CONNECT_REQUEST"
        /\ m.tx \in Senders /\ m.rx \in Receivers
    BY <2>1, ConnectionAssumption
    DEF Message, Messages, Kinds, Peers, Senders, Receivers
  <2>4. MessageFine(m) /\ \A t : m \notin Shake(t)
    BY <2>3 DEF MessageFine, OpenKind, AckKind, Shake
  <2>5. control' = Post(control, n, m, sent) /\ control \in Control
    BY <1>3, <2>1, <2>2 DEF NetInv, NetFine
  <2>6. Single'
    BY <2>3, <2>4, <2>5, OncePosted DEF PairsInv, Single
  <2>7. \A x \in Way(control') : x \in Way(control) \/ x = m
    BY <2>3, <2>5, WayPosted
  <2>8. QED
    BY <1>1, <2>4, <2>6, <2>7, PairsSame
<1>4. QED
  BY <1>2, <1>3 DEF Connect

\* A step that is calm, and whose messages and acknowledgements are in order, keeps all
\* of it.
LEMMA PairsCalm ==
  ASSUME PairsInv, Calm, AcksInv', Single',
         \A m \in Way(control') : m \in Way(control) \/ MessageFine(m)'
  PROVE  PairsInv'
<1>1. EntryRoles' /\ Tied' /\ \A m : MessageFine(m) => MessageFine(m)'
  BY CalmStep DEF PairsInv
<1>2. \A m \in Way(control') : MessageFine(m)'
  BY <1>1 DEF PairsInv, AllFine
<1>3. QED
  BY <1>1, <1>2 DEF PairsInv, AllFine

\* An end that is part of a channel is opened, and its peer told; or an end that is not.
LEMMA PairsOpen ==
  ASSUME PairsInv, NetInv, EntryTypes, NEW e \in Endpoints, NEW side \in Sides,
         NEW type \in Types, Open(e, side, type)
  PROVE  PairsInv'
<1>1. PICK sent \in BOOLEAN :
        /\ \/ /\ On(e) /\ chanType[e] = type
              /\ ConnectingAs(Peer(side)) \notin flags[e]
              /\ control' = Post(control, NodeOf(foreign[e]),
                                 OpenMessage(e, side, foreign[e], type), sent)
              /\ chanType' = chanType
           \/ /\ ~On(e) /\ sent /\ control' = control
              /\ chanType' = [chanType EXCEPT ![e] = type]
        /\ flags' = [flags EXCEPT ![e] = IF sent THEN @ \cup {side} ELSE @]
        /\ foreign' = foreign
        /\ flags[e] \cap {"CONNECTED", "TX", "RX"} = {}
  BY DEF Open, On
<1>2. PICK new : new = IF sent THEN flags[e] \cup {side} ELSE flags[e]
  OBVIOUS
<1>3. /\ flags' = [flags EXCEPT ![e] = new] /\ flags \in [Endpoints -> SUBSET Bits]
      /\ chanType \in [Endpoints -> Types \cup {NoType}]
      /\ flags[e] \subseteq new /\ (sent => side \in new)
      /\ \A bit : bit \in new => bit \in flags[e] \/ bit = side
  BY <1>1, <1>2 DEF EntryTypes
<1>4. /\ \A f \in Endpoints : flags[f] \subseteq flags'[f]
      /\ \A f \in Endpoints : \A bit : bit \notin Sides => (bit \in flags'[f] <=> bit \in flags[f])
  BY <1>3
<1>5. \A f \in Endpoints :
        On(f) => chanType'[f] = chanType[f]
  BY <1>1, <1>3
<1>6. \A f \in Endpoints :
        chanType'[f] # NoType => chanType'[f] = chanType[f] \/ flags'[f] \cap Sides # {}
  BY <1>1, <1>3
<1>7. Calm
  <2>1. \A f \in Endpoints, s \in Sides : Marked(f, s)' <=> Marked(f, s)
    BY <1>4 DEF Marked, ConnectingAs, Sides
  <2>2. \A f \in Endpoints : On(f)' <=> On(f)
    BY <1>4 DEF On, Sides
  <2>3. \A f \in Endpoints : flags[f] \cap {"OPEN", "TX", "RX"} \subseteq flags'[f]
    BY <1>4
  <2>4. QED
    BY <1>1, <1>5, <1>6, <2>1, <2>2, <2>3 DEF Calm
<1>8. AcksInv'
  <2>1. \A f \in Endpoints, bit \in {"CONNECTED", "TX_ACKED", "RX_ACKED"} :
          bit \in flags'[f] <=> bit \in flags[f]
    BY <1>4 DEF Sides
  <2>2. QED
    BY <1>7, <2>1, CalmStep, AcksKept DEF PairsInv
<1>9. CASE ~On(e)
  <2>1. control' = control
    BY <1>1, <1>9
  <2>2. Single' /\ \A m \in Way(control') : m \in Way(control)
    BY <2>1 DEF PairsInv, Single
  <2>3. QED
    BY <1>7, <1>8, <2>2, PairsCalm
<1>10. CASE On(e)
  <2>1. PICK f \in Peers : f = foreign[e]
    BY DEF EntryTypes
  <2>2. PICK m : m = OpenMessage(e, side, f, type)
    OBVIOUS
  <2>3. Marked(e, side) /\ f \in Endpoints
    <3>1. chanType[e] # NoType /\ flags[e] \cap Sides = {}
      BY <1>1, <1>10, ConnectionAssumption DEF Sides
    <3>2. Marked(e, "TX") \/ Marked(e, "RX")
      BY <3>1 DEF PairsInv, EntryRoles
    <3>3. Marked(e, side)
      BY <1>1, <1>10, <3>2 DEF Peer, Marked, ConnectingAs, Sides
    <3>4. foreign[e] \in Endpoints
      BY <3>2, RolesTyped DEF PairsInv, Tied
    <3>5. QED
      BY <2>1, <3>3, <3>4
  <2>4. /\ m \in Messages /\ m.kind = OpenKind(side) /\ m.ok
        /\ m.tx = (IF side = "TX" THEN e ELSE f) /\ m.rx = (IF side = "TX" THEN f ELSE e)
    <3>1. NodeOf(e) \in Nodes /\ e \in Peers
      BY NodeTyped DEF Peers
    <3>2. OpenKind(side) \in Kinds
      BY DEF OpenKind, Kinds
    <3>3. QED
      BY <2>2, <3>1, <3>2 DEF OpenMessage, Message, Messages
  <2>5. /\ NodeOf(f) \in Nodes /\ control \in Control
        /\ control' = Post(control, NodeOf(f), m, sent)
    BY <1>1, <1>10, <2>1, <2>2, NodeTyped DEF NetInv, NetFine
  <2>6. Single'
    <3>1. \A t : m \notin Shake(t)
      BY <2>4 DEF Shake, OpenKind
    <3>2. QED
      BY <2>4, <2>5, <3>1, OncePosted DEF PairsInv, Single
  <2>7. sent => MessageFine(m)'
    <3>1. SUFFICES ASSUME sent PROVE MessageFine(m)'
      OBVIOUS
    <3>2. Marked(e, side)' /\ foreign'[e] = f /\ side \in flags'[e]
      BY <1>1, <1>3, <1>7, <2>1, <2>3, <3>1 DEF Calm
    <3>3. Told(m.tx, m.rx, side)'
      BY <2>4, <3>2 DEF Told
    <3>4. \A s \in Sides : m.kind \in {OpenKind(s), AckKind(s)} => s = side
      BY <2>4 DEF OpenKind, AckKind, Sides
    <3>5. m.kind \notin Hailing \cup {"CONNECT_FIN"} /\ m.tx \in Endpoints /\ m.rx \in Endpoints
      BY <2>3, <2>4 DEF OpenKind, Hailing
    <3>6. QED
      BY <2>4, <3>3, <3>4, <3>5 DEF MessageFine, Hailing
  <2>8. \A x \in Way(control') : x \in Way(control) \/ (sent /\ x = m)
    BY <2>4, <2>5, WayPosted
  <2>9. QED
    BY <1>7, <1>8, <2>6, <2>7, <2>8, PairsCalm
<1>11. QED
  BY <1>9, <1>10

\* A datagram leaves its destination where there is no channel.
LEMMA PairsDatagram ==
  ASSUME PairsInv, EntryTypes, NEW d \in Datagrams, SendDatagram(d)
  PROVE  PairsInv'
<1>1. /\ UNCHANGED <<flags, chanType, control>> /\ d.from \in Endpoints /\ ~On(d.from)
      /\ foreign' = [foreign EXCEPT ![d.from] = d.to]
  BY ConnectionAssumption DEF SendDatagram, On
<1>2. \A e \in Endpoints : On(e) => foreign'[e] = foreign[e]
  BY <1>1
<1>3. Calm
  BY <1>1, <1>2 DEF Calm, On, Marked
<1>4. AcksInv'
  BY <1>1, <1>3, CalmStep, AcksKept DEF PairsInv
<1>5. Single' /\ \A m \in Way(control') : m \in Way(control)
  BY <1>1 DEF PairsInv, Single
<1>6. QED
  BY <1>3, <1>4, <1>5, PairsCalm

\* A request takes the send endpoint, or is refused.
LEMMA PairsRequest ==
  ASSUME PairsInv, NetInv, EntryTypes, NEW n \in Nodes, HandleConnectRequest(n)
  PROVE  PairsInv'
<1>1. PICK m \in Messages :
        /\ m = Head(control[n]) /\ m.kind = "CONNECT_REQUEST" /\ MessageFine(m)
        /\ Taken(n) \in Control
        /\ Way(Taken(n)) \subseteq Way(control)
        /\ \A t \in Endpoints : Once(Taken(n), Shake(t))
  BY HandAtPairs DEF HandleConnectRequest
<1>2. PICK e : e = m.tx
  OBVIOUS
<1>3. e \in Senders /\ e \in Endpoints /\ m.rx \in Receivers /\ m.rx \in Endpoints
      /\ m.req \in Nodes /\ NodeOf(m.rx) \in Nodes
  BY <1>1, <1>2, RolesTyped, NodeTyped DEF MessageFine, Hailing, Peers, Messages
<1>4. PICK refused \in BOOLEAN, answer \in BOOLEAN :
        /\ ~Free(e) => refused
        /\ control' =
             IF refused
             THEN Post(Taken(n), m.req, Reply(m, "CONNECT_RESPONSE", FALSE), answer)
             ELSE Post(Taken(n), NodeOf(m.rx), Reply(m, "CONNECT_SYN", TRUE), TRUE)
        /\ flags' = IF Free(e)
                    THEN [flags EXCEPT ![e] = (@ \cup {"CONNECTING"}) \ {"DISCONNECTED"}]
                    ELSE flags
        /\ UNCHANGED <<chanType, foreign>>
  <2>1. PICK syn \in BOOLEAN, answer \in BOOLEAN :
          /\ control' =
               IF ~Free(e) \/ ~syn
               THEN Post(Taken(n), m.req, Reply(m, "CONNECT_RESPONSE", FALSE), answer)
               ELSE Post(Taken(n), NodeOf(m.rx), Reply(m, "CONNECT_SYN", TRUE), TRUE)
          /\ flags' = IF Free(e)
                      THEN [flags EXCEPT ![e] = (@ \cup {"CONNECTING"}) \ {"DISCONNECTED"}]
                      ELSE flags
          /\ UNCHANGED <<chanType, foreign>>
    BY <1>1, <1>2 DEF HandleConnectRequest, Answer
  <2>2. PICK refused \in BOOLEAN : refused = (~Free(e) \/ ~syn)
    BY DEF Free, Exists
  <2>3. QED
    BY <2>1, <2>2
<1>5. /\ \A f \in Endpoints : \A bit : bit \notin {"CONNECTING", "DISCONNECTED"} =>
           (bit \in flags'[f] <=> bit \in flags[f])
      /\ \A f \in Endpoints : On(f) => On(f)'
      /\ \A f \in Endpoints : On(f)' => On(f) \/ f = e
  BY <1>3, <1>4 DEF On, EntryTypes
<1>6. Calm
  <2>1. \A f \in Endpoints, side \in Sides : Marked(f, side)' <=> Marked(f, side)
    BY <1>5 DEF Marked, ConnectingAs
  <2>2. \A f \in Endpoints : flags[f] \cap {"OPEN", "TX", "RX"} \subseteq flags'[f]
    BY <1>5
  <2>3. QED
    BY <1>3, <1>4, <1>5, <2>1, <2>2 DEF Calm
<1>7. AcksInv'
  <2>1. \A f \in Endpoints, bit \in {"CONNECTED", "TX_ACKED", "RX_ACKED"} :
          bit \in flags'[f] <=> bit \in flags[f]
    BY <1>5
  <2>2. QED
    BY <1>6, <2>1, CalmStep, AcksKept DEF PairsInv
<1>8. CASE refused
  <2>1. PICK x : x = Reply(m, "CONNECT_RESPONSE", FALSE)
    OBVIOUS
  <2>2. x \in Messages /\ x.kind = "CONNECT_RESPONSE"
    <3>1. "CONNECT_RESPONSE" \in Kinds /\ FALSE \in BOOLEAN
      BY DEF Kinds
    <3>2. QED
      BY <2>1, <3>1, ReplyKeeps
  <2>3. control' = Post(Taken(n), m.req, x, answer)
    BY <1>4, <1>8, <2>1
  <2>4. Single'
    <3>1. \A t : x \notin Shake(t)
      BY <2>2 DEF Shake
    <3>2. QED
      BY <1>1, <1>3, <2>2, <2>3, <3>1, OncePosted DEF Single
  <2>5. MessageFine(x)'
    BY <2>2 DEF MessageFine, Hailing, OpenKind, AckKind
  <2>6. \A y \in Way(control') : y \in Way(control) \/ y = x
    BY <1>1, <1>3, <2>2, <2>3, WayPosted
  <2>7. QED
    BY <1>6, <1>7, <2>4, <2>5, <2>6, PairsCalm
<1>9. CASE ~refused
  <2>1. PICK x : x = Reply(m, "CONNECT_SYN", TRUE)
    OBVIOUS
  <2>2. x \in Messages /\ x.kind = "CONNECT_SYN" /\ x.tx = e /\ x.rx = m.rx
    <3>1. "CONNECT_SYN" \in Kinds /\ TRUE \in BOOLEAN
      BY DEF Kinds
    <3>2. QED
      BY <1>2, <2>1, <3>1, ReplyKeeps
  <2>3. control' = Post(Taken(n), NodeOf(m.rx), x, TRUE)
    BY <1>4, <1>9, <2>1
  <2>4. ~On(e) /\ On(e)'
    BY <1>3, <1>4, <1>9 DEF Free, On, EntryTypes
  <2>5. Way(control) \cap Shake(e) = {}
    <3>1. \A y \in Way(control) : y.kind \in {"CONNECT_SYN", "CONNECT_ACK"} => On(y.tx)
      BY DEF PairsInv, AllFine, MessageFine
    <3>2. QED
      BY <2>4, <3>1 DEF Shake
  <2>6. Single'
    <3>1. \A t : x \in Shake(t) => t = e
      BY <2>2 DEF Shake
    <3>2. \A t \in Endpoints : x \in Shake(t) => Way(Taken(n)) \cap Shake(t) = {}
      BY <1>1, <2>5, <3>1
    <3>3. QED
      BY <1>1, <1>3, <2>2, <2>3, <3>2, OncePosted DEF Single
  <2>7. MessageFine(x)'
    <3>1. ~Marked(e, "TX")'
      BY <1>3, <1>6, <2>4 DEF Calm, PairsInv, EntryRoles, Sides
    <3>2. \A r \in Endpoints : Marked(r, "RX")' => foreign'[r] # e
      BY <1>4, <1>6, <2>4 DEF Calm, PairsInv, Tied, Sides
    <3>3. QED
      BY <1>3, <2>2, <2>4, <3>1, <3>2 DEF MessageFine, OpenKind, AckKind
  <2>8. \A y \in Way(control') : y \in Way(control) \/ y = x
    <3>1. PICK sent \in BOOLEAN : sent
      OBVIOUS
    <3>2. control' = Post(Taken(n), NodeOf(m.rx), x, sent)
      BY <2>3, <3>1 DEF Post
    <3>3. QED
      BY <1>1, <1>3, <2>2, <3>2, WayPosted
  <2>9. QED
    BY <1>6, <1>7, <2>6, <2>7, <2>8, PairsCalm
<1>10. QED
  BY <1>8, <1>9

\* An end is set up: its bits, and those of everyone else.
LEMMA SetUpBits ==
  ASSUME EntryTypes, NEW e \in Endpoints, NEW side \in Sides, NEW peer \in Peers,
         NEW type \in Types \cup {NoType}, SetUp(e, side, peer, type)
  PROVE  /\ Marked(e, side)' /\ On(e)' /\ foreign'[e] = peer /\ chanType'[e] = type
         /\ Marked(e, Peer(side))' <=> Marked(e, Peer(side))
         /\ \A bit \in {"OPEN", "TX", "RX", "CONNECTED", "TX_ACKED", "RX_ACKED"} :
              bit \in flags'[e] <=> bit \in flags[e]
         /\ \A f \in Endpoints : f # e =>
              /\ flags'[f] = flags[f] /\ foreign'[f] = foreign[f] /\ chanType'[f] = chanType[f]
              /\ On(f)' <=> On(f)
              /\ \A s \in Sides : Marked(f, s)' <=> Marked(f, s)
<1>1. PICK new : new = (flags[e] \cup {"CONNECTING", ConnectingAs(side)}) \ {"DISCONNECTED"}
  OBVIOUS
<1>2. /\ flags' = [flags EXCEPT ![e] = new]
      /\ foreign' = [foreign EXCEPT ![e] = peer]
      /\ chanType' = [chanType EXCEPT ![e] = type]
  BY <1>1 DEF SetUp
<1>3. /\ flags'[e] = new /\ foreign'[e] = peer /\ chanType'[e] = type
      /\ \A f \in Endpoints : f # e =>
           flags'[f] = flags[f] /\ foreign'[f] = foreign[f] /\ chanType'[f] = chanType[f]
  BY <1>2 DEF EntryTypes
<1>4. /\ ConnectingAs(side) \in new /\ "CONNECTING" \in new
      /\ ConnectingAs(Peer(side)) \in new <=> ConnectingAs(Peer(side)) \in flags[e]
      /\ \A bit \in {"OPEN", "TX", "RX", "CONNECTED", "TX_ACKED", "RX_ACKED"} :
           bit \in new <=> bit \in flags[e]
  BY <1>1 DEF ConnectingAs, Peer, Sides
<1>5. QED
  BY <1>3, <1>4 DEF Marked, On

\* The receiver of a SYN becomes one end of a channel, the sender of which waits.
LEMMA PairsReceiver ==
  ASSUME PairsInv, EntryTypes, RolesApart, NEW m \in Messages, MessageFine(m),
         m.kind = "CONNECT_SYN", Free(m.rx), SetUp(m.rx, "RX", m.tx, m.type)
  PROVE  /\ EntryRoles' /\ Tied' /\ AcksInv'
         /\ Marked(m.rx, "RX")' /\ foreign'[m.rx] = m.tx /\ chanType'[m.rx] = m.type
         /\ On(m.tx)' /\ ~Marked(m.tx, "TX")' /\ ("RX" \in flags[m.rx] <=> "RX" \in flags'[m.rx])
         /\ \A x : MessageFine(x) /\ (x.kind \in {"CONNECT_SYN", "CONNECT_ACK"} => x.tx # m.tx)
              => MessageFine(x)'
<1>1. PICK e \in Endpoints, t \in Endpoints, type \in Types \cup {NoType} :
        e = m.rx /\ t = m.tx /\ type = m.type
  BY RolesTyped DEF MessageFine, Hailing, Messages
<1>2. /\ t \in Senders /\ t \notin Receivers /\ e \in Receivers /\ e \notin Senders
      /\ e # t /\ t \in Peers
      /\ On(t) /\ ~Marked(t, "TX")
      /\ \A r \in Endpoints : Marked(r, "RX") => foreign[r] # t
  BY <1>1 DEF MessageFine, Hailing, RolesApart, Peers
<1>3. /\ "OPEN" \in flags[e] /\ ~On(e) /\ ~Marked(e, "TX") /\ ~Marked(e, "RX")
      /\ SetUp(e, "RX", t, type)
  BY <1>1 DEF Free, On, PairsInv, EntryRoles, Exists
<1>4. /\ Marked(e, "RX")' /\ On(e)' /\ foreign'[e] = t /\ chanType'[e] = type
      /\ ~Marked(e, "TX")'
      /\ \A bit \in {"OPEN", "TX", "RX", "CONNECTED", "TX_ACKED", "RX_ACKED"} :
           bit \in flags'[e] <=> bit \in flags[e]
      /\ \A f \in Endpoints : f # e =>
           /\ flags'[f] = flags[f] /\ foreign'[f] = foreign[f] /\ chanType'[f] = chanType[f]
           /\ On(f)' <=> On(f)
           /\ Marked(f, "TX")' <=> Marked(f, "TX")
           /\ Marked(f, "RX")' <=> Marked(f, "RX")
  <2>1. "RX" \in Sides /\ "TX" \in Sides /\ Peer("RX") = "TX"
    BY DEF Sides, Peer
  <2>2. QED
    BY <1>2, <1>3, <2>1, SetUpBits
<1>5. EntryRoles'
  <2> SUFFICES ASSUME NEW f \in Endpoints
               PROVE  /\ "OPEN" \in flags'[f]
                      /\ Marked(f, "TX")' => f \in Senders /\ On(f)'
                      /\ Marked(f, "RX")' => f \in Receivers /\ On(f)'
                      /\ On(f)' /\ f \notin Senders => Marked(f, "RX")'
                      /\ chanType'[f] # NoType =>
                           \/ flags'[f] \cap Sides # {}
                           \/ Marked(f, "TX")' \/ Marked(f, "RX")'
    BY DEF EntryRoles
  <2>1. CASE f = e
    BY <1>2, <1>3, <1>4, <2>1
  <2>2. CASE f # e
    BY <1>4, <2>2 DEF PairsInv, EntryRoles
  <2>3. QED
    BY <2>1, <2>2
<1>6. Tied'
  <2>1. ASSUME NEW r \in Endpoints, Marked(r, "RX")'
        PROVE  foreign'[r] \in Senders /\ On(foreign[r])'
    <3>1. PICK s : s = foreign'[r]
      OBVIOUS
    <3>2. s \in Senders /\ s \in Endpoints /\ On(s)
      <4>1. CASE r = e
        BY <1>2, <1>4, <3>1, <4>1
      <4>2. CASE r # e
        BY <1>4, <2>1, <3>1, <4>2, RolesTyped DEF PairsInv, Tied
      <4>3. QED
        BY <4>1, <4>2
    <3>3. On(s)'
      BY <1>4, <3>2
    <3>4. QED
      BY <3>1, <3>2, <3>3 DEF On
  <2>2. ASSUME NEW r \in Endpoints, NEW q \in Endpoints, Marked(r, "RX")', Marked(q, "RX")',
               foreign'[r] = foreign'[q]
        PROVE  r = q
    BY <1>2, <1>4, <2>2 DEF PairsInv, Tied
  <2>3. ASSUME NEW s \in Endpoints, Marked(s, "TX")'
        PROVE  /\ foreign'[s] \in Endpoints /\ Marked(foreign[s], "RX")'
               /\ foreign'[foreign'[s]] = s /\ chanType'[foreign'[s]] = chanType'[s]
    <3>1. PICK r : r = foreign[s]
      OBVIOUS
    <3>2. s # e /\ Marked(s, "TX")
      BY <1>4, <2>3
    <3>3. r \in Endpoints /\ Marked(r, "RX") /\ foreign[r] = s /\ chanType[r] = chanType[s]
      BY <3>1, <3>2 DEF PairsInv, Tied
    <3>4. r # e
      BY <1>3, <3>3
    <3>5. QED
      BY <1>4, <3>1, <3>2, <3>3, <3>4 DEF Marked
  <2>4. QED
    BY <2>1, <2>2, <2>3 DEF Tied
<1>7. ASSUME NEW a \in Endpoints, NEW b \in Endpoints, NEW side \in Sides, Told(a, b, side)
      PROVE  Told(a, b, side)'
  <2>1. PICK f \in Endpoints : f = IF side = "TX" THEN a ELSE b
    OBVIOUS
  <2>2. Marked(f, side) /\ side \in flags[f] /\ foreign[f] = IF side = "TX" THEN b ELSE a
    BY <1>7, <2>1 DEF Told
  <2>3. f # e
    BY <1>3, <2>2 DEF Sides
  <2>4. Marked(f, side)' /\ foreign'[f] = foreign[f] /\ side \in flags'[f]
    BY <1>4, <2>2, <2>3 DEF Sides
  <2>5. QED
    BY <2>1, <2>2, <2>4 DEF Told
<1>8. AcksInv'
  <2>1. \A f \in Endpoints, bit \in {"CONNECTED", "TX_ACKED", "RX_ACKED"} :
          bit \in flags'[f] <=> bit \in flags[f]
    BY <1>4
  <2>2. QED
    BY <1>7, <2>1, AcksKept DEF PairsInv
<1>9. ASSUME NEW x, MessageFine(x), x.kind \in {"CONNECT_SYN", "CONNECT_ACK"} => x.tx # t
      PROVE  MessageFine(x)'
  <2>1. /\ x.kind # "CONNECT_FIN"
        /\ x.kind \in Hailing => x.tx \in Senders /\ x.rx \in Receivers
    BY <1>9 DEF MessageFine
  <2>2. x.kind \in {"CONNECT_SYN", "CONNECT_ACK"} =>
          /\ x.tx \in Endpoints /\ x.rx \in Endpoints /\ On(x.tx) /\ ~Marked(x.tx, "TX")
    BY <1>9, <2>1, RolesTyped DEF MessageFine, Hailing
  <2>3. x.kind \in {"CONNECT_SYN", "CONNECT_ACK"} => On(x.tx)' /\ ~Marked(x.tx, "TX")'
    BY <1>4, <2>2
  <2>4. x.kind = "CONNECT_SYN" \/ (x.kind = "CONNECT_ACK" /\ ~x.ok) =>
          \A r \in Endpoints : Marked(r, "RX")' => foreign'[r] # x.tx
    BY <1>4, <1>9 DEF MessageFine
  <2>5. x.kind = "CONNECT_ACK" /\ x.ok =>
          Marked(x.rx, "RX")' /\ foreign'[x.rx] = x.tx /\ chanType'[x.rx] = x.type
    <3>1. x.kind = "CONNECT_ACK" /\ x.ok =>
            Marked(x.rx, "RX") /\ foreign[x.rx] = x.tx /\ chanType[x.rx] = x.type
      BY <1>9 DEF MessageFine
    <3>2. QED
      BY <1>3, <1>4, <2>2, <3>1
  <2>6. \A side \in Sides : x.kind \in {OpenKind(side), AckKind(side)} =>
          x.tx \in Endpoints /\ x.rx \in Endpoints /\ x.ok /\ Told(x.tx, x.rx, side)'
    BY <1>7, <1>9 DEF MessageFine
  <2>7. QED
    BY <2>1, <2>3, <2>4, <2>5, <2>6 DEF MessageFine
<1>10. On(t)' /\ ~Marked(t, "TX")'
  BY <1>2, <1>4
<1>11. "RX" \in flags[e] <=> "RX" \in flags'[e]
  BY <1>4
<1>12. QED
  BY <1>1, <1>4, <1>5, <1>6, <1>8, <1>9, <1>10, <1>11

\* A SYN is answered with an ACK, behind which an open may follow.
LEMMA PairsSyn ==
  ASSUME PairsInv, NetInv, EntryTypes, RolesApart, NEW n \in Nodes, HandleConnectSyn(n)
  PROVE  PairsInv'
<1>1. PICK m \in Messages :
        /\ m = Head(control[n]) /\ m.kind = "CONNECT_SYN" /\ MessageFine(m)
        /\ Taken(n) \in Control
        /\ Way(Taken(n)) \subseteq Way(control)
        /\ \A t \in Endpoints : /\ Once(Taken(n), Shake(t))
                                /\ m \in Shake(t) => Way(Taken(n)) \cap Shake(t) = {}
  BY HandAtPairs DEF HandleConnectSyn
<1>2. /\ m.rx \in Endpoints /\ m.rx \in Receivers /\ m.rx \notin Senders
      /\ m.tx \in Endpoints /\ m.tx \in Senders
      /\ m.type \in Types \cup {NoType} /\ NodeOf(m.tx) \in Nodes
  BY <1>1, RolesTyped, NodeTyped DEF MessageFine, Hailing, RolesApart, Peers, Messages
<1>3. m \in Shake(m.tx) /\ Way(Taken(n)) \cap Shake(m.tx) = {}
  BY <1>1, <1>2 DEF Shake
<1>4. PICK f : f = foreign'[m.rx]
  OBVIOUS
<1>5. PICK ack \in BOOLEAN, open \in BOOLEAN :
        /\ \/ Free(m.rx) /\ SetUp(m.rx, "RX", m.tx, m.type)
           \/ ~Free(m.rx) /\ UNCHANGED entries
        /\ control' =
             IF ack /\ HasOpened(m.rx, "RX")
             THEN Post(Post(Taken(n), NodeOf(m.tx), Reply(m, "CONNECT_ACK", Free(m.rx)), ack),
                       NodeOf(f), OpenMessage(m.rx, "RX", f, m.type), open)
             ELSE Post(Taken(n), NodeOf(m.tx), Reply(m, "CONNECT_ACK", Free(m.rx)), ack)
  BY <1>1, <1>4 DEF HandleConnectSyn
<1>6. PICK ok \in BOOLEAN : ok = Free(m.rx)
  BY DEF Free, Exists
<1>7. PICK x : x = Reply(m, "CONNECT_ACK", ok)
  OBVIOUS
<1>8. /\ x \in Messages /\ x.kind = "CONNECT_ACK" /\ x.ok = ok
      /\ x.tx = m.tx /\ x.rx = m.rx /\ x.type = m.type
  <2>1. "CONNECT_ACK" \in Kinds
    BY DEF Kinds
  <2>2. QED
    BY <1>7, <2>1, ReplyKeeps
<1>9. PICK P : P = Post(Taken(n), NodeOf(m.tx), x, ack)
  OBVIOUS
<1>10. /\ P \in Control
       /\ \A y \in Way(P) : (y \in Way(control) /\ y \notin Shake(m.tx)) \/ y = x
  <2>1. /\ P \in Control
        /\ Way(P) = Way(Taken(n)) \cup (IF ack THEN {x} ELSE {})
    BY <1>1, <1>2, <1>8, <1>9, WayPosted
  <2>2. QED
    BY <1>1, <1>3, <2>1
<1>11. \A t \in Endpoints : Once(P, Shake(t))
  <2>1. ASSUME NEW t \in Endpoints
        PROVE  x \in Shake(t) => Way(Taken(n)) \cap Shake(t) = {}
    BY <1>3, <1>8 DEF Shake
  <2>2. QED
    BY <1>1, <1>2, <1>8, <1>9, <2>1, OncePosted
<1>12. /\ EntryRoles' /\ Tied' /\ AcksInv'
       /\ \A y \in Way(control) : y \notin Shake(m.tx) => MessageFine(y)'
       /\ MessageFine(x)'
       /\ HasOpened(m.rx, "RX") => f \in Endpoints /\ Told(f, m.rx, "RX")'
  <2>1. CASE Free(m.rx) /\ SetUp(m.rx, "RX", m.tx, m.type)
    <3>1. /\ EntryRoles' /\ Tied' /\ AcksInv'
          /\ Marked(m.rx, "RX")' /\ foreign'[m.rx] = m.tx /\ chanType'[m.rx] = m.type
          /\ On(m.tx)' /\ ~Marked(m.tx, "TX")' /\ ("RX" \in flags[m.rx] <=> "RX" \in flags'[m.rx])
          /\ \A y : MessageFine(y) /\ (y.kind \in {"CONNECT_SYN", "CONNECT_ACK"} => y.tx # m.tx)
               => MessageFine(y)'
      BY <1>1, <2>1, PairsReceiver
    <3>2. \A y \in Way(control) : y \notin Shake(m.tx) => MessageFine(y)'
      <4>1. ASSUME NEW y \in Way(control), y \notin Shake(m.tx)
            PROVE  MessageFine(y) /\ (y.kind \in {"CONNECT_SYN", "CONNECT_ACK"} => y.tx # m.tx)
        BY <4>1 DEF PairsInv, AllFine, Way, Shake
      <4>2. QED
        BY <3>1, <4>1
    <3>3. MessageFine(x)'
      BY <1>2, <1>6, <1>8, <2>1, <3>1 DEF MessageFine, OpenKind, AckKind
    <3>4. HasOpened(m.rx, "RX") => f \in Endpoints /\ Told(f, m.rx, "RX")'
      BY <1>2, <1>4, <3>1 DEF HasOpened, Told
    <3>5. QED
      BY <3>1, <3>2, <3>3, <3>4
  <2>2. CASE ~Free(m.rx) /\ UNCHANGED entries
    <3>1. UNCHANGED <<flags, chanType, foreign>>
      BY <2>2 DEF entries
    <3>2. EntryRoles' /\ Tied'
      BY <3>1 DEF PairsInv, EntryRoles, Tied, On, Marked
    <3>3. AcksInv'
      BY <3>1 DEF PairsInv, AcksInv, Told, Marked, IsConnected
    <3>4. \A y : MessageFine(y) => MessageFine(y)'
      BY <3>1 DEF MessageFine, On, Marked, Told
    <3>5. \A y \in Way(control) : MessageFine(y)'
      BY <3>4 DEF PairsInv, AllFine
    <3>6. MessageFine(x)
      <4>1. /\ On(m.tx) /\ ~Marked(m.tx, "TX")
            /\ \A r \in Endpoints : Marked(r, "RX") => foreign[r] # m.tx
        BY <1>1 DEF MessageFine
      <4>2. QED
        BY <1>2, <1>6, <1>8, <2>2, <4>1 DEF MessageFine, OpenKind, AckKind
    <3>7. Marked(m.rx, "RX") /\ foreign[m.rx] \in Endpoints
      BY <1>2, <2>2, RolesTyped DEF PairsInv, EntryRoles, Tied, Free, Exists, On
    <3>8. HasOpened(m.rx, "RX") => Told(foreign[m.rx], m.rx, "RX")
      BY <3>7 DEF HasOpened, Told
    <3>9. HasOpened(m.rx, "RX") => Told(f, m.rx, "RX")' /\ f \in Endpoints
      BY <1>4, <3>1, <3>7, <3>8 DEF Told, Marked
    <3>10. QED
      BY <3>2, <3>3, <3>4, <3>5, <3>6, <3>9
  <2>3. QED
    BY <1>5, <2>1, <2>2
<1>13. CASE ~(ack /\ HasOpened(m.rx, "RX"))
  <2>1. control' = P
    BY <1>5, <1>6, <1>7, <1>9, <1>13
  <2>2. Single'
    BY <1>11, <2>1 DEF Single
  <2>3. AllFine'
    BY <1>10, <1>12, <2>1 DEF AllFine
  <2>4. QED
    BY <1>12, <2>2, <2>3 DEF PairsInv
<1>14. CASE ack /\ HasOpened(m.rx, "RX")
  <2>1. PICK o : o = OpenMessage(m.rx, "RX", f, m.type)
    OBVIOUS
  <2>2. f \in Endpoints /\ f \in Peers /\ NodeOf(f) \in Nodes
    BY <1>12, <1>14, NodeTyped DEF Peers
  <2>3. o \in Messages /\ o.kind = "OPEN_RX" /\ o.ok /\ o.tx = f /\ o.rx = m.rx
    <3>1. NodeOf(m.rx) \in Nodes /\ m.rx \in Peers
      BY <1>2, NodeTyped DEF Peers
    <3>2. QED
      BY <1>2, <2>1, <2>2, <3>1 DEF OpenMessage, OpenKind, Message, Messages, Kinds
  <2>4. control' = Post(P, NodeOf(f), o, open)
    BY <1>5, <1>6, <1>7, <1>9, <1>14, <2>1
  <2>5. \A t \in Endpoints : o \notin Shake(t)
    BY <2>3 DEF Shake
  <2>6. Single'
    BY <1>10, <1>11, <2>2, <2>3, <2>4, <2>5, OncePosted DEF Single
  <2>7. MessageFine(o)'
    BY <1>2, <1>12, <1>14, <2>2, <2>3
    DEF MessageFine, Hailing, OpenKind, AckKind, Sides
  <2>8. \A y \in Way(control') : y \in Way(P) \/ y = o
    BY <1>10, <2>2, <2>3, <2>4, WayPosted
  <2>9. AllFine'
    BY <1>10, <1>12, <2>7, <2>8 DEF AllFine
  <2>10. QED
    BY <1>12, <2>6, <2>9 DEF PairsInv
<1>15. QED
  BY <1>13, <1>14

\* The sender whose SYN was accepted becomes the other end of the channel.
LEMMA PairsSender ==
  ASSUME PairsInv, EntryTypes, RolesApart, NEW m \in Messages, MessageFine(m),
         m.kind = "CONNECT_ACK", m.ok, SetUp(m.tx, "TX", m.rx, m.type)
  PROVE  /\ EntryRoles' /\ Tied' /\ AcksInv'
         /\ Marked(m.tx, "TX")' /\ foreign'[m.tx] = m.rx
         /\ "TX" \in flags[m.tx] <=> "TX" \in flags'[m.tx]
         /\ \A x : MessageFine(x) /\ (x.kind \in {"CONNECT_SYN", "CONNECT_ACK"} => x.tx # m.tx)
              => MessageFine(x)'
<1>1. PICK e \in Endpoints, r \in Endpoints, type \in Types \cup {NoType} :
        e = m.tx /\ r = m.rx /\ type = m.type
  BY RolesTyped DEF MessageFine, Hailing, Messages
<1>2. /\ e \in Senders /\ e \notin Receivers /\ r \in Peers
      /\ On(e) /\ ~Marked(e, "TX") /\ ~Marked(e, "RX")
      /\ Marked(r, "RX") /\ foreign[r] = e /\ chanType[r] = type /\ r # e
      /\ "OPEN" \in flags[e] /\ SetUp(e, "TX", r, type)
  <2>1. /\ e \in Senders /\ e \notin Receivers /\ On(e) /\ ~Marked(e, "TX")
        /\ Marked(r, "RX") /\ foreign[r] = e /\ chanType[r] = type
    BY <1>1 DEF MessageFine, Hailing, RolesApart
  <2>2. ~Marked(e, "RX") /\ "OPEN" \in flags[e]
    BY <2>1 DEF PairsInv, EntryRoles
  <2>3. QED
    BY <1>1, <2>1, <2>2 DEF Peers
<1>3. /\ Marked(e, "TX")' /\ On(e)' /\ foreign'[e] = r /\ chanType'[e] = type
      /\ ~Marked(e, "RX")'
      /\ \A bit \in {"OPEN", "TX", "RX", "CONNECTED", "TX_ACKED", "RX_ACKED"} :
           bit \in flags'[e] <=> bit \in flags[e]
      /\ \A f \in Endpoints : f # e =>
           /\ flags'[f] = flags[f] /\ foreign'[f] = foreign[f] /\ chanType'[f] = chanType[f]
           /\ On(f)' <=> On(f)
           /\ Marked(f, "TX")' <=> Marked(f, "TX")
           /\ Marked(f, "RX")' <=> Marked(f, "RX")
  <2>1. "RX" \in Sides /\ "TX" \in Sides /\ Peer("TX") = "RX"
    BY DEF Sides, Peer
  <2>2. QED
    BY <1>2, <2>1, SetUpBits
<1>4. EntryRoles'
  <2> SUFFICES ASSUME NEW f \in Endpoints
               PROVE  /\ "OPEN" \in flags'[f]
                      /\ Marked(f, "TX")' => f \in Senders /\ On(f)'
                      /\ Marked(f, "RX")' => f \in Receivers /\ On(f)'
                      /\ On(f)' /\ f \notin Senders => Marked(f, "RX")'
                      /\ chanType'[f] # NoType =>
                           \/ flags'[f] \cap Sides # {}
                           \/ Marked(f, "TX")' \/ Marked(f, "RX")'
    BY DEF EntryRoles
  <2>1. CASE f = e
    BY <1>2, <1>3, <2>1
  <2>2. CASE f # e
    BY <1>3, <2>2 DEF PairsInv, EntryRoles
  <2>3. QED
    BY <2>1, <2>2
<1>5. Tied'
  <2>1. ASSUME NEW b \in Endpoints, Marked(b, "RX")'
        PROVE  foreign'[b] \in Senders /\ On(foreign[b])'
    <3>1. PICK s : s = foreign'[b]
      OBVIOUS
    <3>2. s \in Senders /\ s \in Endpoints /\ On(s)
      BY <1>3, <2>1, <3>1, RolesTyped DEF PairsInv, Tied
    <3>3. On(s)'
      BY <1>3, <3>2
    <3>4. QED
      BY <3>1, <3>2, <3>3 DEF On
  <2>2. ASSUME NEW b \in Endpoints, NEW q \in Endpoints, Marked(b, "RX")', Marked(q, "RX")',
               foreign'[b] = foreign'[q]
        PROVE  b = q
    BY <1>3, <2>2 DEF PairsInv, Tied
  <2>3. ASSUME NEW s \in Endpoints, Marked(s, "TX")'
        PROVE  /\ foreign'[s] \in Endpoints /\ Marked(foreign[s], "RX")'
               /\ foreign'[foreign'[s]] = s /\ chanType'[foreign'[s]] = chanType'[s]
    <3>1. CASE s = e
      BY <1>1, <1>2, <1>3, <3>1 DEF Marked
    <3>2. CASE s # e
      <4>1. PICK b : b = foreign[s]
        OBVIOUS
      <4>2. Marked(s, "TX")
        BY <1>3, <2>3, <3>2
      <4>3. b \in Endpoints /\ Marked(b, "RX") /\ foreign[b] = s /\ chanType[b] = chanType[s]
        BY <4>1, <4>2 DEF PairsInv, Tied
      <4>4. b # e
        BY <1>2, <4>3
      <4>5. QED
        BY <1>3, <3>2, <4>1, <4>3, <4>4 DEF Marked
    <3>3. QED
      BY <3>1, <3>2
  <2>4. QED
    BY <2>1, <2>2, <2>3 DEF Tied
<1>6. ASSUME NEW a \in Endpoints, NEW b \in Endpoints, NEW side \in Sides, Told(a, b, side)
      PROVE  Told(a, b, side)'
  <2>1. PICK f \in Endpoints : f = IF side = "TX" THEN a ELSE b
    OBVIOUS
  <2>2. Marked(f, side) /\ side \in flags[f] /\ foreign[f] = IF side = "TX" THEN b ELSE a
    BY <1>6, <2>1 DEF Told
  <2>3. f # e
    BY <1>2, <2>2 DEF Sides
  <2>4. Marked(f, side)' /\ foreign'[f] = foreign[f] /\ side \in flags'[f]
    BY <1>3, <2>2, <2>3 DEF Sides
  <2>5. QED
    BY <2>1, <2>2, <2>4 DEF Told
<1>7. AcksInv'
  <2>1. \A f \in Endpoints, bit \in {"CONNECTED", "TX_ACKED", "RX_ACKED"} :
          bit \in flags'[f] <=> bit \in flags[f]
    BY <1>3
  <2>2. QED
    BY <1>6, <2>1, AcksKept DEF PairsInv
<1>8. ASSUME NEW x, MessageFine(x), x.kind \in {"CONNECT_SYN", "CONNECT_ACK"} => x.tx # e
      PROVE  MessageFine(x)'
  <2>1. /\ x.kind # "CONNECT_FIN"
        /\ x.kind \in Hailing => x.tx \in Senders /\ x.rx \in Receivers
    BY <1>8 DEF MessageFine
  <2>2. x.kind \in {"CONNECT_SYN", "CONNECT_ACK"} =>
          /\ x.tx \in Endpoints /\ x.rx \in Endpoints /\ On(x.tx) /\ ~Marked(x.tx, "TX")
    BY <1>8, <2>1, RolesTyped DEF MessageFine, Hailing
  <2>3. x.kind \in {"CONNECT_SYN", "CONNECT_ACK"} => On(x.tx)' /\ ~Marked(x.tx, "TX")'
    BY <1>3, <1>8, <2>2
  <2>4. x.kind = "CONNECT_SYN" \/ (x.kind = "CONNECT_ACK" /\ ~x.ok) =>
          \A b \in Endpoints : Marked(b, "RX")' => foreign'[b] # x.tx
    BY <1>3, <1>8 DEF MessageFine
  <2>5. x.kind = "CONNECT_ACK" /\ x.ok =>
          Marked(x.rx, "RX")' /\ foreign'[x.rx] = x.tx /\ chanType'[x.rx] = x.type
    <3>1. x.kind = "CONNECT_ACK" /\ x.ok =>
            Marked(x.rx, "RX") /\ foreign[x.rx] = x.tx /\ chanType[x.rx] = x.type
      BY <1>8 DEF MessageFine
    <3>2. QED
      BY <1>2, <1>3, <2>2, <3>1
  <2>6. \A side \in Sides : x.kind \in {OpenKind(side), AckKind(side)} =>
          x.tx \in Endpoints /\ x.rx \in Endpoints /\ x.ok /\ Told(x.tx, x.rx, side)'
    BY <1>6, <1>8 DEF MessageFine
  <2>7. QED
    BY <2>1, <2>3, <2>4, <2>5, <2>6 DEF MessageFine
<1>9. "TX" \in flags[e] <=> "TX" \in flags'[e]
  BY <1>3
<1>10. QED
  BY <1>1, <1>3, <1>4, <1>5, <1>7, <1>8, <1>9

\* A sender whose SYN was refused is free again: nobody counts on it.
LEMMA PairsRefused ==
  ASSUME PairsInv, EntryTypes, RolesApart, NEW m \in Messages, MessageFine(m),
         m.kind = "CONNECT_ACK", ~m.ok,
         flags' = [flags EXCEPT ![m.tx] = @ \ {"CONNECTING"}], UNCHANGED <<chanType, foreign>>
  PROVE  /\ EntryRoles' /\ Tied' /\ AcksInv'
         /\ \A x : MessageFine(x) /\ (x.kind \in {"CONNECT_SYN", "CONNECT_ACK"} => x.tx # m.tx)
              => MessageFine(x)'
<1>1. PICK e \in Endpoints : e = m.tx
  BY RolesTyped DEF MessageFine, Hailing
<1>2. /\ e \in Senders /\ On(e) /\ ~Marked(e, "TX")
      /\ \A r \in Endpoints : Marked(r, "RX") => foreign[r] # e
  BY <1>1 DEF MessageFine, Hailing
<1>3. /\ \A f \in Endpoints : \A bit : bit # "CONNECTING" => (bit \in flags'[f] <=> bit \in flags[f])
      /\ \A f \in Endpoints : f # e => (On(f)' <=> On(f))
  BY <1>1 DEF EntryTypes, On
<1>4. \A f \in Endpoints, side \in Sides : Marked(f, side)' <=> Marked(f, side)
  BY <1>3 DEF Marked, ConnectingAs
<1>5. \A f \in Endpoints : /\ Marked(f, "TX")' <=> Marked(f, "TX")
                           /\ Marked(f, "RX")' <=> Marked(f, "RX")
  BY <1>4 DEF Sides
<1>6. Tied'
  <2>1. ASSUME NEW b \in Endpoints, Marked(b, "RX")'
        PROVE  foreign'[b] \in Senders /\ On(foreign[b])'
    <3>1. PICK s : s = foreign'[b]
      OBVIOUS
    <3>2. s \in Senders /\ s \in Endpoints /\ On(s) /\ s # e
      BY <1>2, <1>5, <2>1, <3>1, RolesTyped DEF PairsInv, Tied
    <3>3. On(s)'
      BY <1>3, <3>2
    <3>4. QED
      BY <3>1, <3>2, <3>3 DEF On
  <2>2. \A b, q \in Endpoints :
          Marked(b, "RX")' /\ Marked(q, "RX")' /\ foreign'[b] = foreign'[q] => b = q
    BY <1>5 DEF PairsInv, Tied
  <2>3. ASSUME NEW s \in Endpoints, Marked(s, "TX")'
        PROVE  /\ foreign'[s] \in Endpoints /\ Marked(foreign[s], "RX")'
               /\ foreign'[foreign'[s]] = s /\ chanType'[foreign'[s]] = chanType'[s]
    <3>1. PICK b : b = foreign[s]
      OBVIOUS
    <3>2. b \in Endpoints /\ Marked(b, "RX") /\ foreign[b] = s /\ chanType[b] = chanType[s]
      BY <1>5, <2>3, <3>1 DEF PairsInv, Tied
    <3>3. QED
      BY <1>5, <3>1, <3>2 DEF Marked
  <2>4. QED
    BY <2>1, <2>2, <2>3 DEF Tied
<1>7. \A a, b \in Endpoints, side \in Sides : Told(a, b, side) => Told(a, b, side)'
  BY <1>3, <1>4 DEF Told, Sides
<1>8. AcksInv'
  BY <1>3, <1>7, AcksKept DEF PairsInv
<1>9. ASSUME NEW x, MessageFine(x), x.kind \in {"CONNECT_SYN", "CONNECT_ACK"} => x.tx # e
      PROVE  MessageFine(x)'
  <2>1. /\ x.kind # "CONNECT_FIN"
        /\ x.kind \in Hailing => x.tx \in Senders /\ x.rx \in Receivers
    BY <1>9 DEF MessageFine
  <2>2. x.kind \in {"CONNECT_SYN", "CONNECT_ACK"} =>
          /\ x.tx \in Endpoints /\ x.rx \in Endpoints /\ On(x.tx)' /\ ~Marked(x.tx, "TX")'
    BY <1>3, <1>5, <1>9, <2>1, RolesTyped DEF MessageFine, Hailing
  <2>3. x.kind = "CONNECT_SYN" \/ (x.kind = "CONNECT_ACK" /\ ~x.ok) =>
          \A b \in Endpoints : Marked(b, "RX")' => foreign'[b] # x.tx
    BY <1>5, <1>9 DEF MessageFine
  <2>4. x.kind = "CONNECT_ACK" /\ x.ok =>
          Marked(x.rx, "RX")' /\ foreign'[x.rx] = x.tx /\ chanType'[x.rx] = x.type
    BY <1>5, <1>9, <2>2 DEF MessageFine
  <2>5. \A side \in Sides : x.kind \in {OpenKind(side), AckKind(side)} =>
          x.tx \in Endpoints /\ x.rx \in Endpoints /\ x.ok /\ Told(x.tx, x.rx, side)'
    BY <1>7, <1>9 DEF MessageFine
  <2>6. QED
    BY <2>1, <2>2, <2>3, <2>4, <2>5 DEF MessageFine
<1>10. EntryRoles'
  <2> SUFFICES ASSUME NEW f \in Endpoints
               PROVE  /\ "OPEN" \in flags'[f]
                      /\ Marked(f, "TX")' => f \in Senders /\ On(f)'
                      /\ Marked(f, "RX")' => f \in Receivers /\ On(f)'
                      /\ On(f)' /\ f \notin Senders => Marked(f, "RX")'
                      /\ chanType'[f] # NoType =>
                           \/ flags'[f] \cap Sides # {}
                           \/ Marked(f, "TX")' \/ Marked(f, "RX")'
    BY DEF EntryRoles
  <2>1. /\ "OPEN" \in flags[f]
        /\ Marked(f, "TX") => f \in Senders /\ On(f)
        /\ Marked(f, "RX") => f \in Receivers /\ On(f)
        /\ On(f) /\ f \notin Senders => Marked(f, "RX")
        /\ chanType[f] # NoType =>
             flags[f] \cap Sides # {} \/ Marked(f, "TX") \/ Marked(f, "RX")
    BY DEF PairsInv, EntryRoles
  <2>2. /\ "OPEN" \in flags'[f] <=> "OPEN" \in flags[f]
        /\ flags[f] \cap Sides # {} => flags'[f] \cap Sides # {}
    BY <1>3 DEF Sides
  <2>3. f = e => ~Marked(f, "RX")
    BY <1>2, <2>1 DEF RolesApart
  <2>4. QED
    BY <1>2, <1>3, <1>5, <2>1, <2>2, <2>3
<1>11. QED
  BY <1>1, <1>6, <1>8, <1>9, <1>10

\* An ACK makes the channel, or gives it up, and the caller is told.
LEMMA PairsAck ==
  ASSUME PairsInv, NetInv, EntryTypes, RolesApart, NEW n \in Nodes, HandleConnectAck(n)
  PROVE  PairsInv'
<1>1. PICK m \in Messages :
        /\ m = Head(control[n]) /\ m.kind = "CONNECT_ACK" /\ MessageFine(m)
        /\ Taken(n) \in Control
        /\ Way(Taken(n)) \subseteq Way(control)
        /\ \A t \in Endpoints : /\ Once(Taken(n), Shake(t))
                                /\ m \in Shake(t) => Way(Taken(n)) \cap Shake(t) = {}
  BY HandAtPairs DEF HandleConnectAck
<1>2. /\ m.rx \in Endpoints /\ m.tx \in Endpoints /\ m.req \in Nodes /\ m.ok \in BOOLEAN
      /\ m.type \in Types \cup {NoType} /\ NodeOf(m.rx) \in Nodes /\ Exists(m.tx)
  <2>1. m.rx \in Endpoints /\ m.tx \in Endpoints /\ m.rx \in Peers
    BY <1>1, RolesTyped DEF MessageFine, Hailing, Peers
  <2>2. Exists(m.tx)
    BY <2>1 DEF PairsInv, EntryRoles, Exists
  <2>3. QED
    BY <1>1, <2>1, <2>2, NodeTyped DEF Messages
<1>3. m \in Shake(m.tx) /\ Way(Taken(n)) \cap Shake(m.tx) = {}
  BY <1>1, <1>2 DEF Shake
<1>4. PICK open \in BOOLEAN, answer \in BOOLEAN :
        /\ control' =
             Post(IF m.ok /\ HasOpened(m.tx, "TX")
                  THEN Post(Taken(n), NodeOf(m.rx), OpenMessage(m.tx, "TX", m.rx, m.type), open)
                  ELSE Taken(n),
                  m.req, Reply(m, "CONNECT_RESPONSE", m.ok /\ open), answer)
        /\ \/ m.ok /\ SetUp(m.tx, "TX", m.rx, m.type)
           \/ /\ ~m.ok /\ flags' = [flags EXCEPT ![m.tx] = @ \ {"CONNECTING"}]
              /\ UNCHANGED <<chanType, foreign>>
  BY <1>1, <1>2 DEF HandleConnectAck, Answer
<1>5. PICK ok \in BOOLEAN : ok = (m.ok /\ open)
  BY <1>2
<1>6. PICK x : x = Reply(m, "CONNECT_RESPONSE", ok)
  OBVIOUS
<1>7. x \in Messages /\ x.kind = "CONNECT_RESPONSE"
  <2>1. "CONNECT_RESPONSE" \in Kinds
    BY DEF Kinds
  <2>2. QED
    BY <1>6, <2>1, ReplyKeeps
<1>8. PICK o : o = OpenMessage(m.tx, "TX", m.rx, m.type)
  OBVIOUS
<1>9. o \in Messages /\ o.kind = "OPEN_TX" /\ o.ok /\ o.tx = m.tx /\ o.rx = m.rx
  <2>1. NodeOf(m.tx) \in Nodes /\ m.tx \in Peers /\ m.rx \in Peers
    BY <1>2, NodeTyped DEF Peers
  <2>2. QED
    BY <1>2, <1>8, <2>1 DEF OpenMessage, OpenKind, Message, Messages, Kinds
<1>10. PICK tell \in BOOLEAN : tell = (m.ok /\ HasOpened(m.tx, "TX"))
  BY <1>2 DEF HasOpened, Exists
<1>11. PICK P : P = IF tell THEN Post(Taken(n), NodeOf(m.rx), o, open) ELSE Taken(n)
  OBVIOUS
<1>12. control' = Post(P, m.req, x, answer)
  BY <1>4, <1>5, <1>6, <1>8, <1>10, <1>11
<1>13. /\ P \in Control
       /\ \A y \in Way(P) : (y \in Way(control) /\ y \notin Shake(m.tx)) \/ (tell /\ y = o)
  <2>1. CASE tell
    <3>1. /\ P \in Control
          /\ Way(P) = Way(Taken(n)) \cup (IF open THEN {o} ELSE {})
      BY <1>1, <1>2, <1>9, <1>11, <2>1, WayPosted
    <3>2. QED
      BY <1>1, <1>3, <2>1, <3>1
  <2>2. CASE ~tell
    BY <1>1, <1>3, <1>11, <2>2
  <2>3. QED
    BY <2>1, <2>2
<1>14. \A t : o \notin Shake(t) /\ x \notin Shake(t)
  BY <1>7, <1>9 DEF Shake
<1>15. \A t \in Endpoints : Once(P, Shake(t))
  <2>1. CASE tell
    BY <1>1, <1>2, <1>9, <1>11, <1>14, <2>1, OncePosted
  <2>2. CASE ~tell
    BY <1>1, <1>11, <2>2
  <2>3. QED
    BY <2>1, <2>2
<1>16. Single'
  BY <1>2, <1>7, <1>12, <1>13, <1>14, <1>15, OncePosted DEF Single
<1>17. \A y \in Way(control') : y \in Way(P) \/ y = x
  BY <1>2, <1>7, <1>12, <1>13, WayPosted
<1>18. MessageFine(x)'
  BY <1>7 DEF MessageFine, Hailing, OpenKind, AckKind
<1>19. \A y \in Way(control) : y \notin Shake(m.tx) =>
         MessageFine(y) /\ (y.kind \in {"CONNECT_SYN", "CONNECT_ACK"} => y.tx # m.tx)
  BY DEF PairsInv, AllFine, Way, Shake
<1>20. CASE m.ok /\ SetUp(m.tx, "TX", m.rx, m.type)
  <2>1. /\ EntryRoles' /\ Tied' /\ AcksInv'
        /\ Marked(m.tx, "TX")' /\ foreign'[m.tx] = m.rx
        /\ "TX" \in flags[m.tx] <=> "TX" \in flags'[m.tx]
        /\ \A y : MessageFine(y) /\ (y.kind \in {"CONNECT_SYN", "CONNECT_ACK"} => y.tx # m.tx)
             => MessageFine(y)'
    BY <1>1, <1>20, PairsSender
  <2>2. tell => Told(m.tx, m.rx, "TX")'
    BY <1>10, <2>1 DEF HasOpened, Told
  <2>3. tell => MessageFine(o)'
    BY <1>2, <1>9, <2>2 DEF MessageFine, Hailing, OpenKind, AckKind, Sides
  <2>4. AllFine'
    BY <1>13, <1>17, <1>18, <1>19, <2>1, <2>3 DEF AllFine
  <2>5. QED
    BY <1>16, <2>1, <2>4 DEF PairsInv
<1>21. CASE /\ ~m.ok /\ flags' = [flags EXCEPT ![m.tx] = @ \ {"CONNECTING"}]
            /\ UNCHANGED <<chanType, foreign>>
  <2>1. /\ EntryRoles' /\ Tied' /\ AcksInv'
        /\ \A y : MessageFine(y) /\ (y.kind \in {"CONNECT_SYN", "CONNECT_ACK"} => y.tx # m.tx)
             => MessageFine(y)'
    BY <1>1, <1>21, PairsRefused
  <2>2. ~tell
    BY <1>10, <1>21
  <2>3. AllFine'
    BY <1>13, <1>17, <1>18, <1>19, <2>1, <2>2 DEF AllFine
  <2>4. QED
    BY <1>16, <2>1, <2>3 DEF PairsInv
<1>22. QED
  BY <1>4, <1>20, <1>21

\* An end learns that one side of its channel is open.
LEMMA PairsAcknowledge ==
  ASSUME PairsInv, EntryTypes, NEW t \in Endpoints, NEW r \in Endpoints, NEW side \in Sides,
         Told(t, r, side), NEW e \in {t, r}, Acknowledge(e, side),
         UNCHANGED <<chanType, foreign>>
  PROVE  Calm /\ AcksInv'
<1>1. PICK new : new = flags[e] \cup {Acked(side)}
                       \cup (IF OtherAcked(e, side) THEN {"CONNECTED"} ELSE {})
  OBVIOUS
<1>2. flags' = [flags EXCEPT ![e] = new] /\ e \in Endpoints
  BY <1>1 DEF Acknowledge
<1>3. /\ flags'[e] = new /\ \A f \in Endpoints : f # e => flags'[f] = flags[f]
  BY <1>2 DEF EntryTypes
<1>4. /\ flags[e] \subseteq new
      /\ \A bit \in new : bit \in flags[e] \/ bit = Acked(side)
                          \/ (bit = "CONNECTED" /\ OtherAcked(e, side))
      /\ Acked(side) \in new
  BY <1>1
<1>5. /\ \A f \in Endpoints : flags[f] \subseteq flags'[f]
      /\ \A f \in Endpoints : \A bit : bit \notin {"CONNECTED", "TX_ACKED", "RX_ACKED"} =>
           (bit \in flags'[f] <=> bit \in flags[f])
  BY <1>3, <1>4 DEF Acked
<1>6. Calm
  <2>1. \A f \in Endpoints, s \in Sides : Marked(f, s)' <=> Marked(f, s)
    BY <1>5 DEF Marked, ConnectingAs
  <2>2. \A f \in Endpoints : On(f)' <=> On(f)
    BY <1>5 DEF On
  <2>3. \A f \in Endpoints : flags[f] \cap {"OPEN", "TX", "RX"} \subseteq flags'[f]
    BY <1>5
  <2>4. QED
    BY <2>1, <2>2, <2>3 DEF Calm
<1>7. \A a, b \in Endpoints, s \in Sides : Told(a, b, s) => Told(a, b, s)'
  BY <1>6, CalmStep DEF PairsInv
<1>8. AcksInv'
  <2> SUFFICES ASSUME NEW f \in Endpoints
               PROVE  /\ IsConnected(f)' => "TX_ACKED" \in flags'[f] /\ "RX_ACKED" \in flags'[f]
                      /\ \A s \in Sides : Acked(s) \in flags'[f] =>
                           \E a, b \in Endpoints : f \in {a, b} /\ Told(a, b, s)'
    BY DEF AcksInv
  <2>1. IsConnected(f)' => "TX_ACKED" \in flags'[f] /\ "RX_ACKED" \in flags'[f]
    <3>1. CASE "CONNECTED" \in flags[f]
      BY <1>5, <3>1 DEF PairsInv, AcksInv, IsConnected
    <3>2. CASE f = e /\ OtherAcked(e, side)
      BY <1>3, <1>4, <3>2 DEF OtherAcked, Acked, Peer, Sides
    <3>3. "CONNECTED" # Acked(side)
      BY DEF Acked
    <3>4. QED
      BY <1>3, <1>4, <3>1, <3>2, <3>3 DEF IsConnected
  <2>2. ASSUME NEW s \in Sides, Acked(s) \in flags'[f]
        PROVE  \E a, b \in Endpoints : f \in {a, b} /\ Told(a, b, s)'
    <3>1. CASE Acked(s) \in flags[f]
      <4>1. PICK a \in Endpoints, b \in Endpoints : f \in {a, b} /\ Told(a, b, s)
        BY <3>1 DEF PairsInv, AcksInv
      <4>2. QED
        BY <1>7, <4>1
    <3>2. CASE f = e /\ s = side
      BY <1>7, <3>2
    <3>3. Acked(s) # "CONNECTED" /\ (Acked(s) = Acked(side) => s = side)
      BY DEF Acked, Sides
    <3>4. QED
      BY <1>3, <1>4, <2>2, <3>1, <3>2, <3>3
  <2>3. QED
    BY <2>1, <2>2
<1>9. QED
  BY <1>6, <1>8

\* MCAPI_OPEN_TX and MCAPI_OPEN_RX: the peer has opened, which is confirmed.
LEMMA PairsOpened ==
  ASSUME PairsInv, NetInv, EntryTypes, NEW n \in Nodes, NEW side \in Sides, HandleOpen(n, side)
  PROVE  PairsInv'
<1>1. PICK m \in Messages :
        /\ m = Head(control[n]) /\ m.kind = OpenKind(side) /\ MessageFine(m)
        /\ Taken(n) \in Control
        /\ Way(Taken(n)) \subseteq Way(control)
        /\ \A t \in Endpoints : Once(Taken(n), Shake(t))
  BY HandAtPairs DEF HandleOpen
<1>2. m.tx \in Endpoints /\ m.rx \in Endpoints /\ m.ok /\ Told(m.tx, m.rx, side)
  BY <1>1 DEF MessageFine
<1>3. PICK e \in {m.tx, m.rx} : e = EndOf(m, Peer(side))
  BY DEF EndOf
<1>4. PICK to \in Nodes : to = NodeOf(EndOf(m, side))
  BY <1>2, NodeTyped DEF EndOf, Peers
<1>5. Exists(e) /\ e \in Endpoints
  BY <1>2, <1>3 DEF PairsInv, EntryRoles, Exists
<1>6. PICK x : x = Reply(m, AckKind(side), TRUE)
  OBVIOUS
<1>7. PICK sent \in BOOLEAN : control' = Post(Taken(n), to, x, sent)
  <2>1. \E sent \in BOOLEAN : control' = Post(Taken(n), to, Reply(m, AckKind(side), Exists(e)), sent)
    BY <1>1, <1>3, <1>4 DEF HandleOpen
  <2>2. Exists(e) = TRUE
    BY <1>5 DEF Exists
  <2>3. QED
    BY <1>6, <2>1, <2>2
<1>8. Acknowledge(e, side) /\ UNCHANGED <<chanType, foreign>>
  BY <1>1, <1>3, <1>5 DEF HandleOpen
<1>9. Calm /\ AcksInv'
  BY <1>2, <1>3, <1>8, PairsAcknowledge
<1>10. /\ x \in Messages /\ x.kind = AckKind(side) /\ x.ok
       /\ x.tx = m.tx /\ x.rx = m.rx
  <2>1. AckKind(side) \in Kinds /\ TRUE \in BOOLEAN
    BY DEF AckKind, Kinds
  <2>2. QED
    BY <1>6, <2>1, ReplyKeeps
<1>11. Single'
  <2>1. \A t : x \notin Shake(t)
    BY <1>10 DEF Shake, AckKind
  <2>2. QED
    BY <1>1, <1>7, <1>10, <2>1, OncePosted DEF Single
<1>12. MessageFine(x)'
  <2>1. Told(m.tx, m.rx, side)'
    BY <1>2, <1>9, CalmStep DEF PairsInv
  <2>2. \A s \in Sides : x.kind \in {OpenKind(s), AckKind(s)} => s = side
    BY <1>10 DEF OpenKind, AckKind, Sides
  <2>3. x.kind \notin Hailing \cup {"CONNECT_FIN"}
    BY <1>10 DEF AckKind, Hailing
  <2>4. QED
    BY <1>2, <1>10, <2>1, <2>2, <2>3 DEF MessageFine, Hailing
<1>13. \A y \in Way(control') : y \in Way(control) \/ y = x
  BY <1>1, <1>7, <1>10, WayPosted
<1>14. QED
  BY <1>9, <1>11, <1>12, <1>13, PairsCalm

\* Their acknowledgements, and the answer to a connect.
LEMMA PairsHandled ==
  ASSUME PairsInv, NetInv, EntryTypes, NEW n \in Nodes,
         (\E side \in Sides : HandleOpenAck(n, side)) \/ HandleConnectResponse(n)
  PROVE  PairsInv'
<1>1. ASSUME NEW side \in Sides, HandleOpenAck(n, side)
      PROVE  PairsInv'
  <2>1. PICK m \in Messages :
          /\ m = Head(control[n]) /\ m.kind = AckKind(side) /\ MessageFine(m)
          /\ Way(Taken(n)) \subseteq Way(control)
          /\ \A t \in Endpoints : Once(Taken(n), Shake(t))
    BY <1>1, HandAtPairs DEF HandleOpenAck
  <2>2. m.tx \in Endpoints /\ m.rx \in Endpoints /\ m.ok /\ Told(m.tx, m.rx, side)
    BY <2>1 DEF MessageFine
  <2>3. PICK e \in {m.tx, m.rx} : e = EndOf(m, side)
    BY DEF EndOf
  <2>4. Exists(e) /\ e \in Endpoints
    BY <2>2, <2>3 DEF PairsInv, EntryRoles, Exists
  <2>5. Acknowledge(e, side) /\ UNCHANGED <<chanType, foreign>> /\ control' = Taken(n)
    BY <1>1, <2>1, <2>2, <2>3, <2>4 DEF HandleOpenAck
  <2>6. Calm /\ AcksInv'
    BY <2>2, <2>3, <2>5, PairsAcknowledge
  <2>7. Single' /\ \A y \in Way(control') : y \in Way(control)
    BY <2>1, <2>5 DEF Single
  <2>8. QED
    BY <2>6, <2>7, PairsCalm
<1>2. ASSUME HandleConnectResponse(n)
      PROVE  PairsInv'
  <2>1. /\ Way(Taken(n)) \subseteq Way(control)
        /\ \A t \in Endpoints : Once(Taken(n), Shake(t))
    BY <1>2, HandAtPairs DEF HandleConnectResponse
  <2>2. UNCHANGED <<flags, chanType, foreign>> /\ control' = Taken(n)
    BY <1>2 DEF HandleConnectResponse, entries
  <2>3. Single' /\ \A y \in Way(control') : y \in Way(control)
    BY <2>1, <2>2 DEF Single
  <2>4. QED
    BY <2>2, <2>3, PairsSame
<1>3. QED
  BY <1>1, <1>2

\* Where nobody closes, cancels or deletes, every step keeps the channels in order.
LEMMA PairsStep ==
  ASSUME Closers = {}, RolesApart, Inv, PairsInv, [Next]_vars
  PROVE  PairsInv'
<1>1. NetInv /\ EntryTypes
  BY DEF Inv, TypeInv
<1>2. ASSUME NEW c \in Calls, Connect(c)
      PROVE  PairsInv'
  BY <1>1, <1>2, PairsConnect
<1>3. ASSUME NEW o \in OpenAs, Open(o.ep, o.side, o.type)
      PROVE  PairsInv'
  <2>1. o.ep \in Endpoints /\ o.side \in Sides /\ o.type \in Types
    BY ConnectionAssumption
  <2>2. QED
    BY <1>1, <1>3, <2>1, PairsOpen
<1>4. ASSUME NEW d \in Datagrams, SendDatagram(d)
      PROVE  PairsInv'
  BY <1>1, <1>4, PairsDatagram
<1>5. ASSUME NEW n \in Nodes, ControlTask(n)
      PROVE  PairsInv'
  <2>1. ~HandleFin(n)
    <3>1. SUFFICES ASSUME Arrived(n, "CONNECT_FIN") PROVE FALSE
      BY DEF HandleFin
    <3>2. QED
      BY <1>1, <3>1, HandAtPairs DEF MessageFine
  <2>2. QED
    BY <1>1, <1>5, <2>1, PairsRequest, PairsSyn, PairsAck, PairsOpened, PairsHandled
    DEF ControlTask
<1>6. CASE UNCHANGED vars
  <2>1. UNCHANGED <<flags, chanType, foreign, control>>
    BY <1>6 DEF vars, entries
  <2>2. Single' /\ \A y \in Way(control') : y \in Way(control)
    BY <2>1 DEF PairsInv, Single
  <2>3. QED
    BY <2>1, <2>2, PairsSame
<1>7. QED
  BY <1>2, <1>3, <1>4, <1>5, <1>6 DEF Next

\* Where nobody closes, and each endpoint is used in one direction, the entries and the
\* messages fit together, however many messages are lost and whoever competes for whom.
THEOREM PairsInvariant == ASSUME Closers = {}, RolesApart PROVE Spec => []PairsInv
<1>1. ASSUME Init PROVE PairsInv
  <2>1. \A e \in Endpoints : /\ flags[e] = {"OPEN"} /\ chanType[e] = NoType
                             /\ ~Marked(e, "TX") /\ ~Marked(e, "RX") /\ ~On(e)
    BY <1>1 DEF Init, Marked, ConnectingAs, On
  <2>2. EntryRoles /\ Tied
    BY <2>1 DEF EntryRoles, Tied
  <2>3. AcksInv
    BY <2>1 DEF AcksInv, IsConnected, Acked
  <2>4. \A n \in Nodes : \A S, T : ~HasIn(control[n], S) /\ ~Follows(control[n], S, T)
    BY <1>1 DEF Init, HasIn, Follows
  <2>5. AllFine /\ Single
    BY <2>4 DEF AllFine, Way, Single, Once
  <2>6. QED
    BY <2>2, <2>3, <2>5 DEF PairsInv
<1>2. ASSUME Inv, PairsInv, [Next]_vars PROVE PairsInv'
  BY <1>2, PairsStep
<1>3. QED
  BY <1>1, <1>2, ConnectionInvariant, PTL DEF Spec

\* The channel a connected endpoint is part of.
LEMMA ConnectedTo ==
  ASSUME RolesApart, PairsInv, NEW e \in Endpoints, IsConnected(e)
  PROVE  \E t, r \in Endpoints :
           /\ e \in {t, r} /\ Marked(t, "TX") /\ Marked(r, "RX")
           /\ foreign[t] = r /\ foreign[r] = t /\ chanType[t] = chanType[r]
           /\ "TX" \in flags[t] /\ "RX" \in flags[r]
<1>1. "TX_ACKED" \in flags[e] /\ "RX_ACKED" \in flags[e]
  BY DEF PairsInv, AcksInv
<1>2. PICK t \in Endpoints, r \in Endpoints : e \in {t, r} /\ Told(t, r, "TX")
  <2>1. "TX" \in Sides /\ Acked("TX") = "TX_ACKED"
    BY DEF Sides, Acked
  <2>2. QED
    BY <1>1, <2>1 DEF PairsInv, AcksInv
<1>3. PICK s \in Endpoints, q \in Endpoints : e \in {s, q} /\ Told(s, q, "RX")
  <2>1. "RX" \in Sides /\ Acked("RX") = "RX_ACKED"
    BY DEF Sides, Acked
  <2>2. QED
    BY <1>1, <2>1 DEF PairsInv, AcksInv
<1>4. Marked(t, "TX") /\ foreign[t] = r /\ "TX" \in flags[t]
  BY <1>2 DEF Told
<1>5. Marked(r, "RX") /\ foreign[r] = t /\ chanType[t] = chanType[r]
  BY <1>4 DEF PairsInv, Tied
<1>6. Marked(q, "RX") /\ foreign[q] = s /\ "RX" \in flags[q]
  BY <1>3 DEF Told
<1>7. t \in Senders /\ s \in Senders /\ r \in Receivers /\ q \in Receivers
  BY <1>4, <1>5, <1>6 DEF PairsInv, EntryRoles, Tied
<1>8. q = r
  <2>1. CASE e = t
    <3>1. e = s
      BY <1>3, <1>7, <2>1 DEF RolesApart
    <3>2. QED
      BY <1>5, <1>6, <2>1, <3>1 DEF PairsInv, Tied
  <2>2. CASE e = r
    BY <1>3, <1>7, <2>2 DEF RolesApart
  <2>3. QED
    BY <1>2, <2>1, <2>2
<1>9. QED
  BY <1>2, <1>4, <1>5, <1>6, <1>8

\* A connected endpoint and its peer name each other, one as the sender and the other as
\* the receiver of a channel of the same type.
THEOREM ConnectedPaired == ASSUME Closers = {}, RolesApart PROVE Spec => []Paired
<1>1. ASSUME PairsInv PROVE Paired
  <2>1. SUFFICES ASSUME NEW e \in Endpoints, IsConnected(e)
                 PROVE  /\ foreign[e] \in Endpoints /\ foreign[foreign[e]] = e
                        /\ chanType[foreign[e]] = chanType[e]
                        /\ \E side \in Sides :
                             /\ ConnectingAs(side) \in flags[e]
                             /\ ConnectingAs(Peer(side)) \in flags[foreign[e]]
    BY DEF Paired
  <2>2. PICK t \in Endpoints, r \in Endpoints :
          /\ e \in {t, r} /\ Marked(t, "TX") /\ Marked(r, "RX")
          /\ foreign[t] = r /\ foreign[r] = t /\ chanType[t] = chanType[r]
    BY <1>1, <2>1, ConnectedTo
  <2>3. "TX" \in Sides /\ "RX" \in Sides /\ Peer("TX") = "RX" /\ Peer("RX") = "TX"
    BY DEF Sides, Peer
  <2>4. QED
    BY <2>2, <2>3 DEF Marked
<1>2. QED
  BY <1>1, PairsInvariant, PTL

\* An endpoint is connected only once both ends of its channel have been opened: neither
\* acknowledgement reaches an endpoint that its own channel did not cause.
THEOREM ConnectedOpen == ASSUME Closers = {}, RolesApart PROVE Spec => []BothOpen
<1>1. ASSUME PairsInv PROVE BothOpen
  <2>1. SUFFICES ASSUME NEW e \in Endpoints, IsConnected(e)
                 PROVE  \E side \in Sides : side \in flags[e] /\ Peer(side) \in flags[foreign[e]]
    BY DEF BothOpen
  <2>2. PICK t \in Endpoints, r \in Endpoints :
          /\ e \in {t, r} /\ foreign[t] = r /\ foreign[r] = t
          /\ "TX" \in flags[t] /\ "RX" \in flags[r]
    BY <1>1, <2>1, ConnectedTo
  <2>3. "TX" \in Sides /\ "RX" \in Sides /\ Peer("TX") = "RX" /\ Peer("RX") = "TX"
    BY DEF Sides, Peer
  <2>4. QED
    BY <2>2, <2>3
<1>2. QED
  BY <1>1, PairsInvariant, PTL

-----------------------------------------------------------------------------
(* The answers to mcapi_connect while nobody closes.                       *)

\* The calls of one node that name the same send endpoint name the same receiver: the
\* response tells the node which sender it is about, and wakes all of them.
OneTarget ==
  \A c, d \in Calls : CallOf[c].node = CallOf[d].node /\ CallOf[c].tx = CallOf[d].tx =>
    CallOf[c].rx = CallOf[d].rx

\* What the sender's own node asks and is told, and what tells the sender that its
\* receiver knows it is open.
Asked(t)    == {m \in Messages : m.kind = "CONNECT_REQUEST" /\ m.tx = t /\ m.req = Home[t]}
Answers(t)  == {m \in Messages : m.kind = "CONNECT_RESPONSE" /\ m.tx = t /\ m.req = Home[t]}
Confirms(t) == {m \in Messages : m.kind = "OPEN_TX_ACK" /\ m.tx = t}

\* What the sender's node handles is in its queue.
InPlace(m, n) == m.kind \in {"CONNECT_REQUEST", "CONNECT_ACK", "OPEN_TX_ACK"} => n = Home[m.tx]
OutOfPlace(n) == {m \in Messages : ~InPlace(m, n)}

\* The requests of the sender's node are all handled before its handshake is over, and
\* all their answers before the sender knows that its open was noted.
Ordered(T, L) ==
  /\ \A n \in Nodes : ~HasIn(L[n], OutOfPlace(n))
  /\ \A t \in Endpoints : /\ ~Follows(L[Home[t]], Shake(t), Asked(t))
                          /\ t \in T => ~HasIn(L[Home[t]], Asked(t))
                          /\ ~Follows(L[Home[t]], Confirms(t), Answers(t))

\* A message names the receiver that its caller named.
Names(m) ==
  m.kind \in Handshake =>
    \A c \in Calls : CallOf[c].node = m.req /\ CallOf[c].tx = m.tx => CallOf[c].rx = m.rx

\* A success is told of a channel that is made.
Granted(m) ==
  m.kind = "CONNECT_RESPONSE" /\ m.ok =>
    m.tx \in Endpoints /\ Marked(m.tx, "TX") /\ foreign[m.tx] = m.rx

\* A call of the sender's own node waits: whatever connects the sender would wake it.
Waits(t) ==
  \E c \in Calls : connect[c] = "pending" /\ CallOf[c].tx = t /\ CallOf[c].node = Home[t]
Correct ==
  \A c \in Calls : connect[c] = "ok" =>
    Marked(CallOf[c].tx, "TX") /\ foreign[CallOf[c].tx] = CallOf[c].rx
Served ==
  \A t \in Endpoints : Marked(t, "TX") /\ "TX_ACKED" \in flags[t] => ~Waits(t)

Made == {t \in Endpoints : Marked(t, "TX")}
AnswersInv ==
  /\ Ordered(Made, control)
  /\ \A m \in Way(control) : Names(m) /\ Granted(m)
  /\ mishaps = 0 => Correct /\ Served

\* Taking a message keeps the order of the others.
LEMMA OrderedTaken ==
  ASSUME NEW T, NEW L, NEW P, Ordered(T, L), NEW n \in Nodes, NEW m, Takes(L, P, n, m)
  PROVE  Ordered(T, P)
<1>1. \A t \in Endpoints : Home[t] \in Nodes
  BY ConnectionAssumption
<1>2. \A k \in Nodes : \A S, U : /\ HasIn(P[k], S) => HasIn(L[k], S)
                                 /\ Follows(P[k], S, U) => Follows(L[k], S, U)
  BY DEF Takes
<1>3. QED
  BY <1>1, <1>2 DEF Ordered

\* Posting one does, where no request comes too late and no answer.
LEMMA OrderedSent ==
  ASSUME NEW T, NEW L \in Control, Ordered(T, L), NEW n \in Nodes, NEW m \in Messages,
         NEW sent \in BOOLEAN, InPlace(m, n),
         \A t \in Endpoints : m \in Asked(t) => t \notin T /\ ~HasIn(L[Home[t]], Shake(t)),
         \A t \in Endpoints : m \in Answers(t) => ~HasIn(L[Home[t]], Confirms(t))
  PROVE  Ordered(T, Post(L, n, m, sent))
<1>1. PICK P : P = Post(L, n, m, sent)
  OBVIOUS
<1>2. sent => Posts(L, P, n, m)
  BY <1>1, SentPosts
<1>3. ~sent => P = L
  BY <1>1, SentPosts
<1>4. ASSUME sent PROVE Ordered(T, P)
  <2>1. Posts(L, P, n, m)
    BY <1>2, <1>4
  <2>2. \A t \in Endpoints : Home[t] \in Nodes
    BY ConnectionAssumption
  <2>3. \A k \in Nodes : ~HasIn(P[k], OutOfPlace(k))
    BY <2>1 DEF Posts, Ordered, OutOfPlace
  <2>4. ASSUME NEW t \in Endpoints
        PROVE  /\ ~Follows(P[Home[t]], Shake(t), Asked(t))
               /\ t \in T => ~HasIn(P[Home[t]], Asked(t))
               /\ ~Follows(P[Home[t]], Confirms(t), Answers(t))
    <3>1. PICK h \in Nodes : h = Home[t]
      BY <2>2
    <3>2. /\ ~Follows(L[h], Shake(t), Asked(t))
          /\ t \in T => ~HasIn(L[h], Asked(t))
          /\ ~Follows(L[h], Confirms(t), Answers(t))
      BY <3>1 DEF Ordered
    <3>3. /\ m \in Asked(t) => t \notin T /\ ~HasIn(L[h], Shake(t))
          /\ m \in Answers(t) => ~HasIn(L[h], Confirms(t))
      BY <3>1
    <3>4. QED
      BY <2>1, <3>1, <3>2, <3>3 DEF Posts
  <2>5. QED
    BY <2>3, <2>4 DEF Ordered
<1>5. QED
  BY <1>1, <1>3, <1>4

\* A message that neither asks nor answers.
LEMMA OrderedAside ==
  ASSUME NEW T, NEW L \in Control, Ordered(T, L), NEW n \in Nodes, NEW m \in Messages,
         NEW sent \in BOOLEAN, InPlace(m, n),
         m.kind \notin {"CONNECT_REQUEST", "CONNECT_RESPONSE"}
  PROVE  Ordered(T, Post(L, n, m, sent))
<1>1. \A t : m \notin Asked(t) /\ m \notin Answers(t)
  BY DEF Asked, Answers
<1>2. QED
  BY <1>1, OrderedSent

\* Only a sender that waits for its handshake has messages of it under way, and only one
\* that is made is told that its open was noted.
LEMMA OnlyThen ==
  ASSUME PairsInv, NetInv, NEW t \in Endpoints
  PROVE  /\ ~On(t) \/ Marked(t, "TX") => \A n \in Nodes : ~HasIn(control[n], Shake(t))
         /\ ~Marked(t, "TX") => \A n \in Nodes : ~HasIn(control[n], Confirms(t))
<1>1. control \in Control
  BY DEF NetInv, NetFine
<1>2. ASSUME ~On(t) \/ Marked(t, "TX")
      PROVE  \A n \in Nodes : ~HasIn(control[n], Shake(t))
  <2>1. Way(control) \cap Shake(t) = {}
    BY <1>2 DEF PairsInv, AllFine, MessageFine, Shake
  <2>2. QED
    BY <1>1, <2>1, OnWay
<1>3. ASSUME ~Marked(t, "TX")
      PROVE  \A n \in Nodes : ~HasIn(control[n], Confirms(t))
  <2>1. ASSUME NEW m \in Way(control), m \in Confirms(t) PROVE FALSE
    <3>1. MessageFine(m) /\ m.kind = "OPEN_TX_ACK" /\ m.tx = t
      BY <2>1 DEF PairsInv, AllFine, Confirms
    <3>2. "TX" \in Sides /\ AckKind("TX") = "OPEN_TX_ACK"
      BY DEF Sides, AckKind
    <3>3. Told(m.tx, m.rx, "TX")
      BY <3>1, <3>2 DEF MessageFine
    <3>4. QED
      BY <1>3, <3>1, <3>3 DEF Told
  <2>2. Way(control) \cap Confirms(t) = {}
    BY <2>1
  <2>3. QED
    BY <1>1, <2>2, OnWay
<1>4. QED
  BY <1>2, <1>3

\* A sender that is made keeps its receiver.
Steady ==
  \A t \in Endpoints : Marked(t, "TX") => Marked(t, "TX")' /\ foreign'[t] = foreign[t]

\* A step that answers nobody but of channels that are made.
LEMMA AnswersKept ==
  ASSUME AnswersInv, Steady, mishaps' = 0 => mishaps = 0,
         Ordered(Made', control'),
         \A m \in Way(control') : m \in Way(control) \/ (Names(m) /\ Granted(m)'),
         mishaps' = 0 => \A c \in Calls : connect'[c] = "ok" =>
           \/ connect[c] = "ok"
           \/ Marked(CallOf[c].tx, "TX")' /\ foreign'[CallOf[c].tx] = CallOf[c].rx,
         mishaps' = 0 => Served'
  PROVE  AnswersInv'
<1>1. \A m \in Way(control') : Names(m) /\ Granted(m)'
  <2>1. \A m : Granted(m) => Granted(m)'
    BY DEF Granted, Steady
  <2>2. QED
    BY <2>1 DEF AnswersInv
<1>2. \A m : Names(m) <=> Names(m)'
  BY DEF Names
<1>3. ASSUME mishaps' = 0 PROVE Correct'
  <2>1. /\ Correct
        /\ \A c \in Calls : connect'[c] = "ok" =>
             \/ connect[c] = "ok"
             \/ Marked(CallOf[c].tx, "TX")' /\ foreign'[CallOf[c].tx] = CallOf[c].rx
    BY <1>3 DEF AnswersInv
  <2>2. \A c \in Calls : CallOf[c].tx \in Endpoints
    BY ConnectionAssumption
  <2>3. QED
    BY <2>1, <2>2 DEF Correct, Steady, Marked
<1>4. QED
  BY <1>1, <1>2, <1>3 DEF AnswersInv

\* A step that answers nobody.
LEMMA AnswersStill ==
  ASSUME AnswersInv, Steady, mishaps' = 0 => mishaps = 0,
         mishaps' = 0 => \A c \in Calls : connect'[c] = connect[c],
         \A t \in Endpoints : Marked(t, "TX")' /\ "TX_ACKED" \in flags'[t] =>
           Marked(t, "TX") /\ "TX_ACKED" \in flags[t],
         Ordered(Made', control'),
         \A m \in Way(control') : m \in Way(control) \/ (Names(m) /\ Granted(m)')
  PROVE  AnswersInv'
<1>1. mishaps' = 0 => Served'
  BY DEF AnswersInv, Served, Waits
<1>2. QED
  BY <1>1, AnswersKept

\* What a handler has at hand while the answers are in order.
LEMMA HandAnswers ==
  ASSUME PairsInv, NetInv, AnswersInv, NEW n \in Nodes, NEW kind, Arrived(n, kind)
  PROVE  \E m \in Messages, M \in Control :
           /\ m = Head(control[n]) /\ M = Taken(n) /\ m.kind = kind
           /\ Takes(control, M, n, m) /\ Ordered(Made, M)
           /\ Way(M) \subseteq Way(control)
           /\ MessageFine(m) /\ InPlace(m, n) /\ Names(m) /\ Granted(m) /\ Addressed(m, n)
<1>1. PICK m, M : m = Head(control[n]) /\ M = Taken(n)
  OBVIOUS
<1>2. control[n] # <<>> /\ m.kind = kind
  BY <1>1 DEF Arrived
<1>3. m \in Messages /\ M \in Control /\ Takes(control, M, n, m)
  BY <1>1, <1>2, HeadTakes
<1>4. m \in Way(control) /\ Way(M) \subseteq Way(control) /\ Addressed(m, n)
  BY <1>1, <1>2, WayTaken, TakenAway DEF NetInv, NetFine
<1>5. Ordered(Made, M)
  BY <1>3, OrderedTaken DEF AnswersInv
<1>6. InPlace(m, n)
  <2>1. ~HasIn(control[n], OutOfPlace(n))
    BY DEF AnswersInv, Ordered
  <2>2. m \notin OutOfPlace(n)
    BY <1>3, <2>1 DEF Takes
  <2>3. QED
    BY <1>3, <2>2 DEF OutOfPlace
<1>7. QED
  BY <1>1, <1>2, <1>3, <1>4, <1>5, <1>6 DEF PairsInv, AllFine, AnswersInv

\* A sender that was acknowledged is made.
LEMMA AckedMade ==
  ASSUME PairsInv, RolesApart, NEW t \in Senders, "TX_ACKED" \in flags[t]
  PROVE  Marked(t, "TX")
<1>1. t \in Endpoints /\ t \notin Receivers /\ "TX" \in Sides /\ Acked("TX") = "TX_ACKED"
  BY RolesTyped DEF RolesApart, Sides, Acked
<1>2. PICK a \in Endpoints, b \in Endpoints : t \in {a, b} /\ Told(a, b, "TX")
  BY <1>1 DEF PairsInv, AcksInv
<1>3. Marked(a, "TX") /\ foreign[a] = b
  BY <1>2 DEF Told
<1>4. b \in Receivers
  BY <1>3 DEF PairsInv, Tied, EntryRoles
<1>5. QED
  BY <1>1, <1>2, <1>3, <1>4

\* mcapi_connect posts a request, before the sender is taken if it asks on its own node.
LEMMA AnswersConnect ==
  ASSUME PairsInv, NetInv, CallTypes, AnswersInv, OneTarget, NEW c \in Calls, Connect(c)
  PROVE  AnswersInv'
<1>1. PICK t \in Endpoints : t = CallOf[c].tx
  BY ConnectionAssumption
<1>2. /\ UNCHANGED <<flags, foreign>>
      /\ \A d \in Calls : d # c => connect'[d] = connect[d]
      /\ connect'[c] # "ok"
  BY DEF Connect, entries, CallTypes
<1>3. Steady /\ Made' = Made
  BY <1>2 DEF Steady, Made, Marked
<1>4. CASE control' = control /\ mishaps' = mishaps /\ connect'[c] # "pending"
  <2>1. mishaps' = 0 => Served'
    BY <1>2, <1>4 DEF AnswersInv, Served, Waits, Marked
  <2>2. Ordered(Made', control')
    BY <1>3, <1>4 DEF AnswersInv
  <2>3. QED
    BY <1>2, <1>3, <1>4, <2>1, <2>2, AnswersKept
<1>5. ASSUME NEW sent \in BOOLEAN, MayConnect(CallOf[c].node, t, CallOf[c].type),
             Spend(Lose(sent)),
             control' = Post(control, Home[t],
                             Message("CONNECT_REQUEST", CallOf[c].tx, CallOf[c].rx,
                                     CallOf[c].type, CallOf[c].node, TRUE), sent)
      PROVE  AnswersInv'
  <2>1. PICK m : m = Message("CONNECT_REQUEST", CallOf[c].tx, CallOf[c].rx,
                             CallOf[c].type, CallOf[c].node, TRUE)
    OBVIOUS
  <2>2. /\ m \in Messages /\ m.kind = "CONNECT_REQUEST" /\ m.tx = t
        /\ m.req = CallOf[c].node /\ m.rx = CallOf[c].rx
    BY <1>1, <2>1, ConnectionAssumption DEF Message, Messages, Kinds, Peers
  <2>3. CallOf[c].node = Home[t] => /\ ~Marked(t, "TX")
                                    /\ \A n \in Nodes : ~HasIn(control[n], Shake(t))
    <3>1. CallOf[c].node = Home[t] => ~On(t)
      BY <1>5 DEF MayConnect, On
    <3>2. Marked(t, "TX") => On(t)
      BY DEF PairsInv, EntryRoles
    <3>3. QED
      BY <3>1, <3>2, OnlyThen
  <2>4. mishaps' = 0 => mishaps = 0
    BY <1>5, LoseTyped, Spent DEF NetInv, NetFine
  <2>5. PICK h \in Nodes : h = Home[t]
    BY ConnectionAssumption
  <2>6. control \in Control /\ control' = Post(control, h, m, sent)
    BY <1>5, <2>1, <2>5 DEF NetInv, NetFine
  <2>7. Ordered(Made, control')
    <3>1. Ordered(Made, control) /\ InPlace(m, h)
      BY <2>2, <2>5 DEF AnswersInv, InPlace
    <3>2. ASSUME NEW u \in Endpoints, m \in Asked(u)
          PROVE  u \notin Made /\ ~HasIn(control[Home[u]], Shake(u))
      <4>1. u = t /\ CallOf[c].node = Home[t]
        BY <2>2, <3>2 DEF Asked
      <4>2. QED
        BY <2>3, <2>5, <4>1 DEF Made
    <3>3. \A u \in Endpoints : m \notin Answers(u)
      BY <2>2 DEF Answers
    <3>4. QED
      BY <2>2, <2>6, <3>1, <3>2, <3>3, OrderedSent
  <2>8. \A x \in Way(control') : x \in Way(control) \/ x = m
    BY <2>2, <2>6, WayPosted
  <2>9. Names(m) /\ Granted(m)'
    BY <1>1, <2>2 DEF Names, Granted, OneTarget
  <2>10. ASSUME mishaps' = 0 PROVE Served'
    <3>1. Served
      BY <2>4, <2>10 DEF AnswersInv
    <3>2. ASSUME NEW u \in Endpoints, Marked(u, "TX"), Waits(u)'
          PROVE  Waits(u)
      <4>1. PICK d \in Calls :
              connect'[d] = "pending" /\ CallOf[d].tx = u /\ CallOf[d].node = Home[u]
        BY <3>2 DEF Waits
      <4>2. d # c
        BY <1>1, <2>3, <3>2, <4>1
      <4>3. QED
        BY <1>2, <4>1, <4>2 DEF Waits
    <3>3. QED
      BY <1>2, <3>1, <3>2 DEF Served, Marked
  <2>11. QED
    BY <1>2, <1>3, <2>4, <2>7, <2>8, <2>9, <2>10, AnswersKept
<1>6. QED
  <2>1. \/ \E sent \in BOOLEAN :
             /\ MayConnect(CallOf[c].node, t, CallOf[c].type)
             /\ Spend(Lose(sent))
             /\ control' = Post(control, Home[t],
                                Message("CONNECT_REQUEST", CallOf[c].tx, CallOf[c].rx,
                                        CallOf[c].type, CallOf[c].node, TRUE), sent)
        \/ control' = control /\ mishaps' = mishaps /\ connect'[c] = "failed"
    BY <1>1 DEF Connect, CallTypes
  <2>2. QED
    BY <1>4, <1>5, <2>1

\* An end that opens, and a datagram.
LEMMA AnswersAside ==
  ASSUME PairsInv, NetInv, EntryTypes, AnswersInv,
         \/ \E e \in Endpoints, side \in Sides, type \in Types : Open(e, side, type)
         \/ \E d \in Datagrams : SendDatagram(d)
         \/ UNCHANGED vars
  PROVE  AnswersInv'
<1>1. ASSUME NEW e \in Endpoints, NEW side \in Sides, NEW type \in Types, Open(e, side, type)
      PROVE  AnswersInv'
  <2>1. PICK sent \in BOOLEAN :
          /\ \/ /\ Spend(Lose(sent))
                /\ control' = Post(control, NodeOf(foreign[e]),
                                   OpenMessage(e, side, foreign[e], type), sent)
             \/ control' = control /\ mishaps' = mishaps
          /\ flags' = [flags EXCEPT ![e] = IF sent THEN @ \cup {side} ELSE @]
          /\ UNCHANGED <<foreign, connect>>
    BY <1>1 DEF Open
  <2>2. \A f \in Endpoints : \A bit : bit \notin Sides => (bit \in flags'[f] <=> bit \in flags[f])
    BY <2>1 DEF EntryTypes
  <2>3. \A f \in Endpoints : /\ Marked(f, "TX")' <=> Marked(f, "TX")
                             /\ "TX_ACKED" \in flags'[f] <=> "TX_ACKED" \in flags[f]
    BY <2>2 DEF Marked, ConnectingAs, Sides
  <2>4. Made' = Made /\ Steady
    BY <2>1, <2>3 DEF Made, Steady
  <2>5. mishaps' = 0 => mishaps = 0
    BY <2>1, LoseTyped, Spent DEF NetInv, NetFine
  <2>6. PICK f \in Peers : f = foreign[e]
    BY DEF EntryTypes
  <2>7. PICK m : m = OpenMessage(e, side, f, type)
    OBVIOUS
  <2>8. m \in Messages /\ m.kind = OpenKind(side) /\ NodeOf(f) \in Nodes
    <3>1. NodeOf(e) \in Nodes /\ e \in Peers /\ NodeOf(f) \in Nodes
      BY NodeTyped DEF Peers
    <3>2. OpenKind(side) \in Kinds
      BY DEF OpenKind, Kinds
    <3>3. QED
      BY <2>7, <3>1, <3>2 DEF OpenMessage, Message, Messages
  <2>9. /\ Ordered(Made, control')
        /\ \A x \in Way(control') : x \in Way(control) \/ x = m
    <3>1. Ordered(Made, control) /\ control \in Control
      BY DEF AnswersInv, NetInv, NetFine
    <3>2. CASE control' = control
      BY <3>1, <3>2
    <3>3. CASE control' = Post(control, NodeOf(f), m, sent)
      <4>1. InPlace(m, NodeOf(f)) /\ m.kind \notin {"CONNECT_REQUEST", "CONNECT_RESPONSE"}
        BY <2>8 DEF InPlace, OpenKind
      <4>2. QED
        BY <2>8, <3>1, <3>3, <4>1, OrderedAside, WayPosted
    <3>4. QED
      BY <2>1, <2>6, <2>7, <3>2, <3>3
  <2>10. Names(m) /\ Granted(m)'
    BY <2>8 DEF Names, Granted, Handshake, OpenKind
  <2>11. QED
    BY <2>1, <2>3, <2>4, <2>5, <2>9, <2>10, AnswersStill
<1>2. ASSUME (\E d \in Datagrams : SendDatagram(d)) \/ UNCHANGED vars
      PROVE  AnswersInv'
  <2>1. /\ UNCHANGED <<flags, control, connect, mishaps>>
        /\ \A e \in Endpoints : On(e) => foreign'[e] = foreign[e]
    BY <1>2 DEF SendDatagram, vars, entries, requests, On, EntryTypes
  <2>2. Made' = Made /\ Steady
    BY <2>1 DEF Made, Steady, Marked, PairsInv, EntryRoles
  <2>3. Ordered(Made', control')
    BY <2>1, <2>2 DEF AnswersInv
  <2>4. QED
    BY <2>1, <2>2, <2>3, AnswersStill DEF Marked
<1>3. QED
  BY <1>1, <1>2

\* A reply is about the receiver that the message was about.
LEMMA ReplyNames ==
  ASSUME NEW m \in Messages, NEW kind \in Kinds, NEW ok \in BOOLEAN, NEW x,
         x = Reply(m, kind, ok)
  PROVE  /\ x \in Messages /\ x.kind = kind /\ x.ok = ok
         /\ x.tx = m.tx /\ x.rx = m.rx /\ x.req = m.req
         /\ Names(m) /\ m.kind \in Handshake => Names(x)
<1>1. /\ x \in Messages /\ x.kind = kind /\ x.ok = ok
      /\ x.tx = m.tx /\ x.rx = m.rx /\ x.req = m.req
  BY ReplyKeeps, ReplyTyped
<1>2. QED
  BY <1>1 DEF Names

\* A request takes the send endpoint, or is refused before the sender is made.
LEMMA AnswersRequest ==
  ASSUME PairsInv, NetInv, EntryTypes, AnswersInv, NEW n \in Nodes, HandleConnectRequest(n)
  PROVE  AnswersInv'
<1>1. PICK m \in Messages, M \in Control :
        /\ m = Head(control[n]) /\ M = Taken(n) /\ m.kind = "CONNECT_REQUEST"
        /\ Takes(control, M, n, m) /\ Ordered(Made, M)
        /\ Way(M) \subseteq Way(control)
        /\ MessageFine(m) /\ InPlace(m, n) /\ Names(m)
  BY HandAnswers DEF HandleConnectRequest
<1>2. m.tx \in Endpoints /\ m.req \in Nodes /\ NodeOf(m.rx) \in Nodes
  BY <1>1, RolesTyped, NodeTyped DEF MessageFine, Hailing, Messages
<1>3. PICK syn \in BOOLEAN, answer \in BOOLEAN :
        /\ Spend((IF Free(m.tx) THEN Lose(syn) ELSE 0) + Lose(answer))
        /\ control' = IF ~Free(m.tx) \/ ~syn
                      THEN Post(M, m.req, Reply(m, "CONNECT_RESPONSE", FALSE), answer)
                      ELSE Post(M, NodeOf(m.rx), Reply(m, "CONNECT_SYN", TRUE), TRUE)
        /\ flags' = IF Free(m.tx)
                    THEN [flags EXCEPT ![m.tx] = (@ \cup {"CONNECTING"}) \ {"DISCONNECTED"}]
                    ELSE flags
  BY <1>1 DEF HandleConnectRequest, Answer
<1>4. UNCHANGED <<foreign, connect>>
  BY DEF HandleConnectRequest, requests
<1>5. \A f \in Endpoints : \A bit : bit \notin {"CONNECTING", "DISCONNECTED"} =>
        (bit \in flags'[f] <=> bit \in flags[f])
  BY <1>3 DEF EntryTypes
<1>6. \A f \in Endpoints : /\ Marked(f, "TX")' <=> Marked(f, "TX")
                           /\ "TX_ACKED" \in flags'[f] <=> "TX_ACKED" \in flags[f]
  BY <1>5 DEF Marked, ConnectingAs
<1>7. Made' = Made /\ Steady
  BY <1>4, <1>6 DEF Made, Steady
<1>8. mishaps' = 0 => mishaps = 0
  <2>1. /\ Lose(syn) \in Nat /\ Lose(answer) \in Nat
    BY LoseTyped
  <2>2. (IF Free(m.tx) THEN Lose(syn) ELSE 0) + Lose(answer) \in Nat
    BY <2>1
  <2>3. QED
    BY <1>3, <2>2, Spent DEF NetInv, NetFine
<1>9. CASE control' = Post(M, m.req, Reply(m, "CONNECT_RESPONSE", FALSE), answer)
  <2>0. PICK no \in BOOLEAN : ~no
    OBVIOUS
  <2>1. PICK x : x = Reply(m, "CONNECT_RESPONSE", no)
    OBVIOUS
  <2>2. "CONNECT_RESPONSE" \in Kinds /\ m.kind \in Handshake
    BY <1>1 DEF Kinds, Handshake
  <2>3. /\ x \in Messages /\ x.kind = "CONNECT_RESPONSE" /\ ~x.ok
        /\ x.tx = m.tx /\ x.req = m.req /\ Names(x)
    BY <1>1, <2>0, <2>1, <2>2, ReplyNames
  <2>4. ASSUME NEW t \in Endpoints, x \in Answers(t)
        PROVE  ~HasIn(M[Home[t]], Confirms(t))
    <3>1. m \in Asked(t) /\ n = Home[t]
      BY <1>1, <2>3, <2>4 DEF Answers, Asked, InPlace
    <3>2. HasIn(control[Home[t]], Asked(t))
      BY <1>1, <3>1 DEF Takes
    <3>3. ~Marked(t, "TX")
      BY <3>2 DEF AnswersInv, Ordered, Made
    <3>4. ~HasIn(control[n], Confirms(t))
      BY <3>3, OnlyThen
    <3>5. QED
      BY <1>1, <3>1, <3>4 DEF Takes
  <2>5. Ordered(Made, control')
    <3>1. InPlace(x, m.req) /\ \A t : x \notin Asked(t)
      BY <2>3 DEF InPlace, Asked
    <3>2. QED
      BY <1>1, <1>2, <1>9, <2>0, <2>1, <2>3, <2>4, <3>1, OrderedSent
  <2>6. \A y \in Way(control') : y \in Way(control) \/ y = x
    <3>1. control' = Post(M, m.req, x, answer)
      BY <1>9, <2>0, <2>1
    <3>2. QED
      BY <1>1, <1>2, <2>3, <3>1, WayPosted
  <2>7. Granted(x)'
    BY <2>3 DEF Granted
  <2>8. QED
    BY <1>4, <1>6, <1>7, <1>8, <2>3, <2>5, <2>6, <2>7, AnswersStill
<1>10. CASE control' = Post(M, NodeOf(m.rx), Reply(m, "CONNECT_SYN", TRUE), TRUE)
  <2>0. PICK sent \in BOOLEAN : sent
    OBVIOUS
  <2>1. PICK x : x = Reply(m, "CONNECT_SYN", sent)
    OBVIOUS
  <2>2. "CONNECT_SYN" \in Kinds /\ m.kind \in Handshake
    BY <1>1 DEF Kinds, Handshake
  <2>3. x \in Messages /\ x.kind = "CONNECT_SYN" /\ Names(x)
    BY <1>1, <2>1, <2>2, ReplyNames
  <2>4. control' = Post(M, NodeOf(m.rx), x, sent)
    BY <1>10, <2>0, <2>1
  <2>5. InPlace(x, NodeOf(m.rx)) /\ Granted(x)'
    BY <2>3 DEF InPlace, Granted
  <2>6. Ordered(Made, control')
    BY <1>1, <1>2, <2>3, <2>4, <2>5, OrderedAside
  <2>7. \A y \in Way(control') : y \in Way(control) \/ y = x
    BY <1>1, <1>2, <2>3, <2>4, WayPosted
  <2>8. QED
    BY <1>4, <1>6, <1>7, <1>8, <2>3, <2>5, <2>6, <2>7, AnswersStill
<1>11. QED
  BY <1>3, <1>9, <1>10

\* A SYN is acknowledged at the sender's node, and a receiver that is open tells so.
LEMMA AnswersSyn ==
  ASSUME PairsInv, NetInv, EntryTypes, AnswersInv, RolesApart, NEW n \in Nodes,
         HandleConnectSyn(n)
  PROVE  AnswersInv'
<1>1. PICK m \in Messages, M \in Control :
        /\ m = Head(control[n]) /\ M = Taken(n) /\ m.kind = "CONNECT_SYN"
        /\ Ordered(Made, M) /\ Way(M) \subseteq Way(control)
        /\ MessageFine(m) /\ Names(m)
  BY HandAnswers DEF HandleConnectSyn
<1>2. /\ m.rx \in Endpoints /\ m.rx \in Receivers /\ m.rx \notin Senders
      /\ m.tx \in Endpoints /\ m.type \in Types \cup {NoType}
      /\ NodeOf(m.tx) = Home[m.tx] /\ Home[m.tx] \in Nodes
  BY <1>1, RolesTyped, ConnectionAssumption
  DEF MessageFine, Hailing, RolesApart, Messages, NodeOf
<1>3. PICK f : f = foreign'[m.rx]
  OBVIOUS
<1>4. PICK ack \in BOOLEAN, open \in BOOLEAN :
        /\ Spend(Lose(ack) + Lose(open))
        /\ \/ Free(m.rx) /\ SetUp(m.rx, "RX", m.tx, m.type)
           \/ ~Free(m.rx) /\ UNCHANGED entries
        /\ control' =
             IF ack /\ HasOpened(m.rx, "RX")
             THEN Post(Post(M, NodeOf(m.tx), Reply(m, "CONNECT_ACK", Free(m.rx)), ack),
                       NodeOf(f), OpenMessage(m.rx, "RX", f, m.type), open)
             ELSE Post(M, NodeOf(m.tx), Reply(m, "CONNECT_ACK", Free(m.rx)), ack)
  BY <1>1, <1>3 DEF HandleConnectSyn
<1>5. connect' = connect
  BY DEF HandleConnectSyn, requests
<1>6. mishaps' = 0 => mishaps = 0
  BY <1>4, SpentTwice DEF NetInv, NetFine
<1>7. /\ \A e \in Endpoints : /\ Marked(e, "TX")' <=> Marked(e, "TX")
                              /\ "TX_ACKED" \in flags'[e] <=> "TX_ACKED" \in flags[e]
                              /\ e # m.rx => foreign'[e] = foreign[e]
      /\ foreign'[m.rx] \in Peers
  <2>1. CASE SetUp(m.rx, "RX", m.tx, m.type)
    <3>1. "RX" \in Sides /\ "TX" \in Sides /\ Peer("RX") = "TX" /\ m.tx \in Peers
      BY <1>2 DEF Sides, Peer, Peers
    <3>2. /\ Marked(m.rx, "TX")' <=> Marked(m.rx, "TX")
          /\ "TX_ACKED" \in flags'[m.rx] <=> "TX_ACKED" \in flags[m.rx]
          /\ foreign'[m.rx] = m.tx
          /\ \A e \in Endpoints : e # m.rx =>
               /\ flags'[e] = flags[e] /\ foreign'[e] = foreign[e]
               /\ Marked(e, "TX")' <=> Marked(e, "TX")
      BY <1>2, <2>1, <3>1, SetUpBits
    <3>3. QED
      BY <3>1, <3>2
  <2>2. CASE UNCHANGED entries
    BY <1>2, <2>2 DEF entries, Marked, EntryTypes
  <2>3. QED
    BY <1>4, <2>1, <2>2
<1>8. Made' = Made /\ Steady
  BY <1>2, <1>7 DEF Made, Steady, PairsInv, EntryRoles
<1>9. PICK ok \in BOOLEAN : ok = Free(m.rx)
  BY DEF Free, Exists
<1>10. PICK x : x = Reply(m, "CONNECT_ACK", ok)
  OBVIOUS
<1>11. x \in Messages /\ x.kind = "CONNECT_ACK" /\ x.tx = m.tx /\ Names(x)
  <2>1. "CONNECT_ACK" \in Kinds /\ m.kind \in Handshake
    BY <1>1 DEF Kinds, Handshake
  <2>2. QED
    BY <1>1, <1>10, <2>1, ReplyNames
<1>12. PICK P : P = Post(M, NodeOf(m.tx), x, ack)
  OBVIOUS
<1>13. /\ P \in Control /\ Ordered(Made, P)
       /\ \A y \in Way(P) : y \in Way(control) \/ y = x
  <2>1. InPlace(x, NodeOf(m.tx))
    BY <1>2, <1>11 DEF InPlace
  <2>2. Ordered(Made, P)
    BY <1>1, <1>2, <1>11, <1>12, <2>1, OrderedAside
  <2>3. QED
    BY <1>1, <1>2, <1>11, <1>12, <2>2, WayPosted
<1>14. PICK o : o = OpenMessage(m.rx, "RX", f, m.type)
  OBVIOUS
<1>15. o \in Messages /\ o.kind = "OPEN_RX" /\ NodeOf(f) \in Nodes
  <2>1. NodeOf(m.rx) \in Nodes /\ m.rx \in Peers /\ f \in Peers /\ NodeOf(f) \in Nodes
    BY <1>2, <1>3, <1>7, NodeTyped DEF Peers
  <2>2. QED
    BY <1>2, <1>14, <2>1 DEF OpenMessage, OpenKind, Message, Messages, Kinds
<1>16. /\ Ordered(Made, control')
       /\ \A y \in Way(control') : y \in Way(control) \/ y = x \/ y = o
  <2>1. control' = P \/ control' = Post(P, NodeOf(f), o, open)
    BY <1>4, <1>9, <1>10, <1>12, <1>14
  <2>2. InPlace(o, NodeOf(f))
    BY <1>15 DEF InPlace
  <2>3. /\ Ordered(Made, Post(P, NodeOf(f), o, open))
        /\ \A y \in Way(Post(P, NodeOf(f), o, open)) : y \in Way(P) \/ y = o
    BY <1>13, <1>15, <2>2, OrderedAside, WayPosted
  <2>4. QED
    BY <1>13, <2>1, <2>3
<1>17. Granted(x)' /\ Names(o) /\ Granted(o)'
  BY <1>11, <1>15 DEF Granted, Names, Handshake
<1>18. QED
  BY <1>5, <1>6, <1>7, <1>8, <1>11, <1>16, <1>17, AnswersStill

\* An ACK makes the sender, and answers, before it can know that its open was noted.
LEMMA AnswersAck ==
  ASSUME PairsInv, NetInv, EntryTypes, AnswersInv, RolesApart, NEW n \in Nodes,
         HandleConnectAck(n)
  PROVE  AnswersInv'
<1>1. PICK m \in Messages, M \in Control :
        /\ m = Head(control[n]) /\ M = Taken(n) /\ m.kind = "CONNECT_ACK"
        /\ Takes(control, M, n, m) /\ Ordered(Made, M)
        /\ Way(M) \subseteq Way(control)
        /\ MessageFine(m) /\ InPlace(m, n) /\ Names(m)
  BY HandAnswers DEF HandleConnectAck
<1>2. /\ m.tx \in Senders /\ m.tx \in Endpoints /\ m.rx \in Endpoints
      /\ m.req \in Nodes /\ m.ok \in BOOLEAN /\ m.type \in Types \cup {NoType}
      /\ NodeOf(m.rx) \in Nodes /\ Exists(m.tx)
  <2>1. m.tx \in Senders /\ m.tx \in Endpoints /\ m.rx \in Endpoints /\ m.rx \in Peers
    BY <1>1, RolesTyped DEF MessageFine, Hailing, Peers
  <2>2. Exists(m.tx)
    BY <2>1 DEF PairsInv, EntryRoles, Exists
  <2>3. QED
    BY <1>1, <2>1, <2>2, NodeTyped DEF Messages
<1>3. PICK open \in BOOLEAN, answer \in BOOLEAN :
        /\ Spend(Lose(open) + Lose(answer))
        /\ control' =
             Post(IF m.ok /\ HasOpened(m.tx, "TX")
                  THEN Post(M, NodeOf(m.rx), OpenMessage(m.tx, "TX", m.rx, m.type), open)
                  ELSE M,
                  m.req, Reply(m, "CONNECT_RESPONSE", m.ok /\ open), answer)
        /\ \/ m.ok /\ SetUp(m.tx, "TX", m.rx, m.type)
           \/ /\ ~m.ok /\ flags' = [flags EXCEPT ![m.tx] = @ \ {"CONNECTING"}]
              /\ UNCHANGED <<chanType, foreign>>
  BY <1>1, <1>2 DEF HandleConnectAck, Answer
<1>4. connect' = connect
  BY DEF HandleConnectAck, requests
<1>5. mishaps' = 0 => mishaps = 0
  BY <1>3, SpentTwice DEF NetInv, NetFine
<1>6. ~Marked(m.tx, "TX") /\ \A k \in Nodes : ~HasIn(control[k], Confirms(m.tx))
  BY <1>1, <1>2, OnlyThen DEF MessageFine
<1>7. /\ \A e \in Endpoints :
           /\ Marked(e, "TX")' <=> Marked(e, "TX") \/ (m.ok /\ e = m.tx)
           /\ "TX_ACKED" \in flags'[e] <=> "TX_ACKED" \in flags[e]
           /\ e # m.tx => foreign'[e] = foreign[e]
      /\ m.ok => foreign'[m.tx] = m.rx
  <2>1. CASE m.ok /\ SetUp(m.tx, "TX", m.rx, m.type)
    <3>1. "TX" \in Sides /\ m.rx \in Peers
      BY <1>2 DEF Sides, Peers
    <3>2. /\ Marked(m.tx, "TX")'
          /\ "TX_ACKED" \in flags'[m.tx] <=> "TX_ACKED" \in flags[m.tx]
          /\ foreign'[m.tx] = m.rx
          /\ \A e \in Endpoints : e # m.tx =>
               /\ flags'[e] = flags[e] /\ foreign'[e] = foreign[e]
               /\ Marked(e, "TX")' <=> Marked(e, "TX")
      BY <1>2, <2>1, <3>1, SetUpBits
    <3>3. QED
      BY <2>1, <3>2
  <2>2. CASE /\ ~m.ok /\ flags' = [flags EXCEPT ![m.tx] = @ \ {"CONNECTING"}]
             /\ UNCHANGED <<chanType, foreign>>
    <3>1. \A e \in Endpoints : \A bit : bit # "CONNECTING" =>
            (bit \in flags'[e] <=> bit \in flags[e])
      BY <2>2 DEF EntryTypes
    <3>2. QED
      BY <2>2, <3>1 DEF Marked, ConnectingAs
  <2>3. QED
    BY <1>3, <2>1, <2>2
<1>8. Made' = Made \cup (IF m.ok THEN {m.tx} ELSE {}) /\ Steady
  BY <1>2, <1>6, <1>7 DEF Made, Steady
<1>9. Ordered(Made', M)
  <2>1. HasIn(M[Home[m.tx]], Asked(m.tx)) => Follows(control[Home[m.tx]], Shake(m.tx), Asked(m.tx))
    <3>1. n = Home[m.tx] /\ m \in Shake(m.tx)
      BY <1>1 DEF InPlace, Shake
    <3>2. QED
      BY <1>1, <3>1 DEF Takes
  <2>2. ~HasIn(M[Home[m.tx]], Asked(m.tx))
    BY <1>2, <2>1 DEF AnswersInv, Ordered
  <2>3. QED
    BY <1>1, <1>8, <2>2 DEF Ordered
<1>10. PICK o : o = OpenMessage(m.tx, "TX", m.rx, m.type)
  OBVIOUS
<1>11. o \in Messages /\ o.kind = "OPEN_TX"
  <2>1. NodeOf(m.tx) \in Nodes /\ m.tx \in Peers /\ m.rx \in Peers
    BY <1>2, NodeTyped DEF Peers
  <2>2. QED
    BY <1>2, <1>10, <2>1 DEF OpenMessage, OpenKind, Message, Messages, Kinds
<1>12. PICK P : P = IF m.ok /\ HasOpened(m.tx, "TX") THEN Post(M, NodeOf(m.rx), o, open) ELSE M
  OBVIOUS
<1>13. /\ P \in Control /\ Ordered(Made', P)
       /\ \A y \in Way(P) : y \in Way(control) \/ y = o
       /\ ~HasIn(P[Home[m.tx]], Confirms(m.tx))
  <2>1. Home[m.tx] \in Nodes /\ ~HasIn(M[Home[m.tx]], Confirms(m.tx))
    <3>1. Home[m.tx] \in Nodes
      BY <1>2, ConnectionAssumption
    <3>2. QED
      BY <1>1, <1>6, <3>1 DEF Takes
  <2>2. CASE P = M
    BY <1>1, <1>9, <2>1, <2>2
  <2>3. CASE P = Post(M, NodeOf(m.rx), o, open)
    <3>1. InPlace(o, NodeOf(m.rx)) /\ o \notin Confirms(m.tx)
      BY <1>11 DEF InPlace, Confirms
    <3>2. Ordered(Made', P)
      BY <1>2, <1>9, <1>11, <2>3, <3>1, OrderedAside
    <3>3. P \in Control /\ \A y \in Way(P) : y \in Way(control) \/ y = o
      BY <1>1, <1>2, <1>11, <2>3, WayPosted
    <3>4. (open => Posts(M, P, NodeOf(m.rx), o)) /\ (~open => P = M)
      BY <1>2, <1>11, <2>3, SentPosts
    <3>5. ~HasIn(P[Home[m.tx]], Confirms(m.tx))
      BY <2>1, <3>1, <3>4 DEF Posts
    <3>6. QED
      BY <3>2, <3>3, <3>5
  <2>4. QED
    BY <1>12, <2>2, <2>3
<1>14. PICK ok \in BOOLEAN : ok = (m.ok /\ open)
  BY <1>2
<1>15. PICK x : x = Reply(m, "CONNECT_RESPONSE", ok)
  OBVIOUS
<1>16. /\ x \in Messages /\ x.kind = "CONNECT_RESPONSE" /\ x.ok = ok
       /\ x.tx = m.tx /\ x.rx = m.rx /\ Names(x)
  <2>1. "CONNECT_RESPONSE" \in Kinds /\ m.kind \in Handshake
    BY <1>1 DEF Kinds, Handshake
  <2>2. QED
    BY <1>1, <1>15, <2>1, ReplyNames
<1>17. control' = Post(P, m.req, x, answer)
  BY <1>3, <1>10, <1>12, <1>14, <1>15
<1>18. Ordered(Made', control')
  <2>1. InPlace(x, m.req) /\ \A t : x \notin Asked(t)
    BY <1>16 DEF InPlace, Asked
  <2>2. \A t \in Endpoints : x \in Answers(t) => ~HasIn(P[Home[t]], Confirms(t))
    BY <1>13, <1>16 DEF Answers
  <2>3. QED
    BY <1>2, <1>13, <1>16, <1>17, <2>1, <2>2, OrderedSent
<1>19. \A y \in Way(control') : y \in Way(control) \/ y = o \/ y = x
  BY <1>2, <1>13, <1>16, <1>17, WayPosted
<1>20. Granted(x)' /\ Names(o) /\ Granted(o)'
  BY <1>2, <1>7, <1>11, <1>14, <1>16 DEF Granted, Names, Handshake
<1>21. ASSUME NEW t \in Endpoints, Marked(t, "TX")', "TX_ACKED" \in flags'[t]
       PROVE  Marked(t, "TX") /\ "TX_ACKED" \in flags[t]
  <2>1. "TX_ACKED" \in flags[t]
    BY <1>7, <1>21
  <2>2. t # m.tx
    BY <1>2, <1>6, <2>1, AckedMade
  <2>3. QED
    BY <1>7, <1>21, <2>1, <2>2
<1>22. QED
  BY <1>4, <1>5, <1>8, <1>16, <1>18, <1>19, <1>20, <1>21, AnswersStill

\* Nobody waits for a receiver.
LEMMA NoneResumed ==
  ASSUME NEW e \in Endpoints, e \in Senders => ~Waits(e), NEW side \in Sides,
         Acknowledge(e, side), CallTypes
  PROVE  \A c \in Calls : connect'[c] = connect[c]
<1>1. \A c \in Calls : ~(connect[c] = "pending" /\ CallOf[c].tx = e /\ CallOf[c].node = Home[e])
  BY DEF Senders, Waits
<1>2. CASE Resume(e, "ok")
  BY <1>1, <1>2 DEF Resume
<1>3. CASE UNCHANGED requests
  BY <1>3 DEF requests
<1>4. QED
  BY <1>2, <1>3 DEF Acknowledge

\* What an end that learns that a side is open remembers.
LEMMA Remembers ==
  ASSUME EntryTypes, NEW e \in Endpoints, NEW side \in Sides, Acknowledge(e, side),
         foreign' = foreign
  PROVE  /\ Made' = Made /\ Steady
         /\ \A f \in Endpoints :
              /\ Marked(f, "TX")' <=> Marked(f, "TX")
              /\ "TX_ACKED" \in flags'[f] <=> "TX_ACKED" \in flags[f] \/ (f = e /\ side = "TX")
<1>1. \A f \in Endpoints : \A bit : bit \notin {Acked(side), "CONNECTED"} =>
        (bit \in flags'[f] <=> bit \in flags[f])
  BY DEF Acknowledge, EntryTypes
<1>2. /\ Acked(side) \in flags'[e]
      /\ \A f \in Endpoints : f # e => flags'[f] = flags[f]
  BY DEF Acknowledge, EntryTypes
<1>3. \A f \in Endpoints : Marked(f, "TX")' <=> Marked(f, "TX")
  BY <1>1 DEF Marked, ConnectingAs, Acked
<1>4. \A f \in Endpoints :
        "TX_ACKED" \in flags'[f] <=> "TX_ACKED" \in flags[f] \/ (f = e /\ side = "TX")
  BY <1>1, <1>2 DEF Acked, Sides
<1>5. QED
  BY <1>3, <1>4 DEF Made, Steady

\* Both ends of a channel that was told of have their roles.
LEMMA ToldRoles ==
  ASSUME PairsInv, RolesApart, NEW t \in Endpoints, NEW r \in Endpoints, NEW side \in Sides,
         Told(t, r, side)
  PROVE  t \in Senders /\ r \in Receivers /\ r \notin Senders
<1>1. CASE side = "TX"
  BY <1>1 DEF Told, PairsInv, Tied, EntryRoles, RolesApart
<1>2. CASE side = "RX"
  BY <1>2 DEF Told, PairsInv, Tied, EntryRoles, RolesApart
<1>3. QED
  BY <1>1, <1>2 DEF Sides

\* MCAPI_OPEN_TX and MCAPI_OPEN_RX answer nobody: a sender that has learnt that its own
\* open was noted has answered its node before.
LEMMA AnswersOpened ==
  ASSUME PairsInv, NetInv, EntryTypes, CallTypes, AnswersInv, RolesApart, NEW n \in Nodes,
         NEW side \in Sides, HandleOpen(n, side)
  PROVE  AnswersInv'
<1>1. PICK m \in Messages, M \in Control :
        /\ m = Head(control[n]) /\ M = Taken(n) /\ m.kind = OpenKind(side)
        /\ Ordered(Made, M) /\ Way(M) \subseteq Way(control) /\ MessageFine(m)
  BY HandAnswers DEF HandleOpen
<1>2. m.tx \in Endpoints /\ m.rx \in Endpoints /\ Told(m.tx, m.rx, side)
  BY <1>1 DEF MessageFine
<1>3. m.tx \in Senders /\ m.rx \notin Senders
  BY <1>2, ToldRoles
<1>4. PICK e \in Endpoints : e = EndOf(m, Peer(side)) /\ e = IF side = "TX" THEN m.rx ELSE m.tx
  BY <1>2 DEF EndOf, Peer, Sides
<1>5. PICK to \in Nodes : /\ to = NodeOf(EndOf(m, side))
                          /\ side = "TX" => to = Home[m.tx]
  <2>1. EndOf(m, side) \in Endpoints /\ (side = "TX" => EndOf(m, side) = m.tx)
    BY <1>2 DEF EndOf
  <2>2. NodeOf(EndOf(m, side)) = Home[EndOf(m, side)] /\ Home[EndOf(m, side)] \in Nodes
    BY <2>1, ConnectionAssumption DEF NodeOf
  <2>3. QED
    BY <2>1, <2>2
<1>6. PICK ok \in BOOLEAN : ok = Exists(e)
  BY DEF Exists
<1>7. PICK x : x = Reply(m, AckKind(side), ok)
  OBVIOUS
<1>8. x \in Messages /\ x.kind = AckKind(side) /\ x.tx = m.tx
  <2>1. AckKind(side) \in Kinds
    BY DEF AckKind, Kinds
  <2>2. QED
    BY <1>7, <2>1, ReplyKeeps
<1>9. PICK sent \in BOOLEAN : Spend(Lose(sent)) /\ control' = Post(M, to, x, sent)
  BY <1>1, <1>4, <1>5, <1>6, <1>7 DEF HandleOpen
<1>10. Acknowledge(e, side) /\ foreign' = foreign
  <2>1. Exists(e)
    BY <1>4 DEF PairsInv, EntryRoles, Exists
  <2>2. QED
    BY <1>1, <1>4, <2>1 DEF HandleOpen
<1>11. mishaps' = 0 => mishaps = 0
  BY <1>9, LoseTyped, Spent DEF NetInv, NetFine
<1>12. /\ Made' = Made /\ Steady
       /\ \A f \in Endpoints :
            /\ Marked(f, "TX")' <=> Marked(f, "TX")
            /\ "TX_ACKED" \in flags'[f] <=> "TX_ACKED" \in flags[f] \/ (f = e /\ side = "TX")
  BY <1>10, Remembers
<1>13. \A f \in Endpoints : Marked(f, "TX")' /\ "TX_ACKED" \in flags'[f] =>
         Marked(f, "TX") /\ "TX_ACKED" \in flags[f]
  BY <1>3, <1>4, <1>12 DEF PairsInv, EntryRoles
<1>14. /\ Ordered(Made', control')
       /\ \A y \in Way(control') : y \in Way(control) \/ y = x
  <2>1. InPlace(x, to) /\ x.kind \notin {"CONNECT_REQUEST", "CONNECT_RESPONSE"}
    BY <1>5, <1>8 DEF InPlace, AckKind, Sides
  <2>2. QED
    BY <1>1, <1>8, <1>9, <1>12, <2>1, OrderedAside, WayPosted
<1>15. Names(x) /\ Granted(x)'
  BY <1>8 DEF Names, Granted, Handshake, AckKind
<1>16. ASSUME mishaps' = 0 PROVE \A c \in Calls : connect'[c] = connect[c]
  <2>1. CASE OtherAcked(e, side)
    <3>1. e \in Senders => Marked(e, "TX") /\ "TX_ACKED" \in flags[e]
      <4>1. SUFFICES ASSUME e \in Senders PROVE Marked(e, "TX") /\ "TX_ACKED" \in flags[e]
        OBVIOUS
      <4>2. side = "RX"
        BY <1>3, <1>4, <4>1 DEF Sides
      <4>3. "TX_ACKED" \in flags[e]
        BY <2>1, <4>2 DEF OtherAcked, Acked, Peer
      <4>4. QED
        BY <4>1, <4>3, AckedMade
    <3>2. Served
      BY <1>11, <1>16 DEF AnswersInv
    <3>3. e \in Senders => ~Waits(e)
      BY <3>1, <3>2 DEF Served
    <3>4. QED
      BY <1>10, <3>3, NoneResumed
  <2>2. CASE ~OtherAcked(e, side)
    BY <1>10, <2>2 DEF Acknowledge, requests
  <2>3. QED
    BY <2>1, <2>2
<1>17. QED
  BY <1>11, <1>12, <1>13, <1>14, <1>15, <1>16, AnswersStill

\* When the sender learns that its open was noted, its node has had all its answers.
LEMMA NoneWaits ==
  ASSUME PairsInv, NetInv, AnswersInv, mishaps = 0, NEW n \in Nodes,
         NEW m \in Messages, NEW M \in Control, Takes(control, M, n, m),
         NEW t \in Endpoints, m \in Confirms(t), n = Home[t], Marked(t, "TX")
  PROVE  ~Waits(t)
<1> SUFFICES ASSUME Waits(t) PROVE FALSE
  OBVIOUS
<1>1. PICK c \in Calls :
        connect[c] = "pending" /\ CallOf[c].tx = t /\ CallOf[c].node = Home[t]
  BY DEF Waits
<1>2. About(control, c)
  BY <1>1 DEF NetInv, NetFine
<1>3. PICK k \in Nodes : \E i \in 1 .. Len(control[k]) : Brings(control[k][i], c)
  BY <1>2 DEF About
<1>4. PICK i \in 1 .. Len(control[k]) : Brings(control[k][i], c)
  BY <1>3
<1>5. PICK x \in Messages : x = control[k][i]
  <2>1. control[k] \in Seq(Messages)
    BY DEF NetInv, NetFine, Control
  <2>2. QED
    BY <2>1
<1>6. /\ x.tx = t /\ x.req = Home[t]
      /\ x.kind \in {"CONNECT_REQUEST", "CONNECT_SYN", "CONNECT_ACK", "CONNECT_RESPONSE"}
  BY <1>1, <1>4, <1>5 DEF Brings
<1>7. \A S : x \in S => HasIn(control[k], S)
  BY <1>5 DEF HasIn
<1>8. CASE x.kind = "CONNECT_REQUEST"
  <2>1. x \in Asked(t) /\ t \in Made
    BY <1>6, <1>8 DEF Asked, Made
  <2>2. k = Home[t]
    BY <1>6, <1>7, <1>8 DEF AnswersInv, Ordered, OutOfPlace, InPlace
  <2>3. QED
    BY <1>7, <2>1, <2>2 DEF AnswersInv, Ordered
<1>9. CASE x.kind \in {"CONNECT_SYN", "CONNECT_ACK"}
  <2>1. x \in Shake(t)
    BY <1>6, <1>9 DEF Shake
  <2>2. QED
    BY <1>7, <2>1, OnlyThen
<1>10. CASE x.kind = "CONNECT_RESPONSE"
  <2>1. x \in Answers(t) /\ m \notin Answers(t)
    BY <1>6, <1>10 DEF Answers, Confirms
  <2>2. k = n
    BY <1>5, <1>6, <1>10 DEF NetInv, NetFine, AllAddressed, Addressed
  <2>3. HasIn(M[n], Answers(t))
    BY <1>7, <2>1, <2>2 DEF Takes
  <2>4. Follows(control[n], Confirms(t), Answers(t))
    BY <2>3 DEF Takes
  <2>5. QED
    BY <2>4 DEF AnswersInv, Ordered
<1>11. QED
  BY <1>6, <1>8, <1>9, <1>10

\* The acknowledgements of an open answer nobody.
LEMMA AnswersNoted ==
  ASSUME PairsInv, NetInv, EntryTypes, CallTypes, AnswersInv, RolesApart, NEW n \in Nodes,
         NEW side \in Sides, HandleOpenAck(n, side)
  PROVE  AnswersInv'
<1>1. PICK m \in Messages, M \in Control :
        /\ m = Head(control[n]) /\ M = Taken(n) /\ m.kind = AckKind(side)
        /\ Takes(control, M, n, m) /\ Ordered(Made, M)
        /\ Way(M) \subseteq Way(control) /\ MessageFine(m) /\ InPlace(m, n)
  BY HandAnswers DEF HandleOpenAck
<1>2. m.tx \in Endpoints /\ m.rx \in Endpoints /\ m.ok /\ Told(m.tx, m.rx, side)
  BY <1>1 DEF MessageFine
<1>3. m.tx \in Senders /\ m.rx \notin Senders
  BY <1>2, ToldRoles
<1>4. PICK e \in Endpoints : e = EndOf(m, side) /\ e = IF side = "TX" THEN m.tx ELSE m.rx
  BY <1>2 DEF EndOf
<1>5. /\ Acknowledge(e, side) /\ foreign' = foreign /\ control' = M /\ mishaps' = mishaps
  <2>1. Exists(e)
    BY <1>4 DEF PairsInv, EntryRoles, Exists
  <2>2. QED
    BY <1>1, <1>2, <1>4, <2>1 DEF HandleOpenAck
<1>6. /\ Made' = Made /\ Steady
      /\ \A f \in Endpoints :
           /\ Marked(f, "TX")' <=> Marked(f, "TX")
           /\ "TX_ACKED" \in flags'[f] <=> "TX_ACKED" \in flags[f] \/ (f = e /\ side = "TX")
  BY <1>5, Remembers
<1>7. ASSUME mishaps = 0, side = "TX" PROVE ~Waits(e)
  <2>1. e = m.tx /\ m \in Confirms(e) /\ Marked(e, "TX") /\ n = Home[e]
    BY <1>1, <1>2, <1>4, <1>7 DEF AckKind, Confirms, Told, InPlace
  <2>2. QED
    BY <1>1, <1>7, <2>1, NoneWaits
<1>8. mishaps = 0 => \A c \in Calls : connect'[c] = connect[c]
  <2>1. mishaps = 0 => (e \in Senders => ~Waits(e))
    BY <1>3, <1>4, <1>7
  <2>2. QED
    BY <1>5, <2>1, NoneResumed
<1>9. ASSUME mishaps = 0 PROVE Served'
  <2>1. Served
    BY <1>9 DEF AnswersInv
  <2>2. \A f \in Endpoints : Waits(f)' <=> Waits(f)
    BY <1>8, <1>9 DEF Waits
  <2>3. QED
    BY <1>6, <1>7, <1>9, <2>1, <2>2 DEF Served
<1>10. Ordered(Made', control') /\ \A y \in Way(control') : y \in Way(control)
  BY <1>1, <1>5, <1>6
<1>11. QED
  BY <1>5, <1>6, <1>8, <1>9, <1>10, AnswersKept

\* MCAPI_CONNECT_RESPONSE answers the calls that named the channel it tells of.
LEMMA AnswersTold ==
  ASSUME PairsInv, NetInv, EntryTypes, AnswersInv, NEW n \in Nodes, HandleConnectResponse(n)
  PROVE  AnswersInv'
<1>1. PICK m \in Messages, M \in Control :
        /\ m = Head(control[n]) /\ M = Taken(n) /\ m.kind = "CONNECT_RESPONSE"
        /\ Ordered(Made, M) /\ Way(M) \subseteq Way(control)
        /\ Names(m) /\ Granted(m) /\ Addressed(m, n)
  BY HandAnswers DEF HandleConnectResponse
<1>2. /\ UNCHANGED <<flags, foreign, mishaps>> /\ control' = M
      /\ connect' = [c \in Calls |->
           IF connect[c] = "pending" /\ CallOf[c].node = n /\ CallOf[c].tx = m.tx
           THEN IF m.ok THEN "ok" ELSE "failed"
           ELSE connect[c]]
  BY <1>1 DEF HandleConnectResponse, entries
<1>3. Made' = Made /\ Steady
  BY <1>2 DEF Made, Steady, Marked
<1>4. ASSUME NEW c \in Calls, connect'[c] = "ok", connect[c] # "ok"
      PROVE  Marked(CallOf[c].tx, "TX")' /\ foreign'[CallOf[c].tx] = CallOf[c].rx
  <2>1. CallOf[c].node = n /\ CallOf[c].tx = m.tx /\ m.ok
    BY <1>2, <1>4
  <2>2. CallOf[c].rx = m.rx
    BY <1>1, <2>1 DEF Names, Addressed, Handshake
  <2>3. QED
    BY <1>1, <1>2, <2>1, <2>2 DEF Granted, Marked
<1>5. \A c \in Calls : connect'[c] = "pending" => connect[c] = "pending"
  BY <1>2
<1>6. mishaps' = 0 => Served'
  BY <1>2, <1>5 DEF AnswersInv, Served, Waits, Marked
<1>7. Ordered(Made', control') /\ \A y \in Way(control') : y \in Way(control)
  BY <1>1, <1>2, <1>3
<1>8. QED
  BY <1>2, <1>3, <1>4, <1>6, <1>7, AnswersKept

\* Every step keeps the answers in order.
LEMMA AnswersStep ==
  ASSUME Closers = {}, RolesApart, OneTarget, Inv, PairsInv, AnswersInv, [Next]_vars
  PROVE  AnswersInv'
<1>1. NetInv /\ EntryTypes /\ CallTypes
  BY DEF Inv, TypeInv
<1>2. ASSUME NEW c \in Calls, Connect(c)
      PROVE  AnswersInv'
  BY <1>1, <1>2, AnswersConnect
<1>3. ASSUME NEW o \in OpenAs, Open(o.ep, o.side, o.type)
      PROVE  AnswersInv'
  <2>1. o.ep \in Endpoints /\ o.side \in Sides /\ o.type \in Types
    BY ConnectionAssumption
  <2>2. QED
    BY <1>1, <1>3, <2>1, AnswersAside
<1>4. ASSUME (\E d \in Datagrams : SendDatagram(d)) \/ UNCHANGED vars
      PROVE  AnswersInv'
  BY <1>1, <1>4, AnswersAside
<1>5. ASSUME NEW n \in Nodes, ControlTask(n)
      PROVE  AnswersInv'
  <2>1. ~HandleFin(n)
    <3>1. SUFFICES ASSUME Arrived(n, "CONNECT_FIN") PROVE FALSE
      BY DEF HandleFin
    <3>2. QED
      BY <1>1, <3>1, HandAtPairs DEF MessageFine
  <2>2. QED
    BY <1>1, <1>5, <2>1, AnswersRequest, AnswersSyn, AnswersAck, AnswersOpened, AnswersNoted,
       AnswersTold DEF ControlTask
<1>6. QED
  BY <1>2, <1>3, <1>4, <1>5 DEF Next

\* Where nobody closes, each endpoint is used in one direction, and the calls of a node
\* that name the same sender name the same receiver, a call of mcapi_connect succeeds only
\* once the endpoints it named are connected, as long as no control message is lost.
THEOREM AnsweredTruthfully ==
  ASSUME Closers = {}, RolesApart, OneTarget
  PROVE  Spec => [](mishaps = 0 => AnswersTruthful)
<1>1. ASSUME Init PROVE AnswersInv
  <2>1. \A t \in Endpoints : ~Marked(t, "TX") /\ Home[t] \in Nodes
    BY <1>1, ConnectionAssumption DEF Init, Marked, ConnectingAs
  <2>2. \A n \in Nodes : \A S, T : ~HasIn(control[n], S) /\ ~Follows(control[n], S, T)
    BY <1>1 DEF Init, HasIn, Follows
  <2>3. Made = {} /\ Way(control) = {}
    BY <2>1, <2>2 DEF Made, Way
  <2>4. Ordered(Made, control)
    BY <2>1, <2>2, <2>3 DEF Ordered
  <2>5. Correct /\ Served
    BY <1>1, <2>1 DEF Init, Correct, Served
  <2>6. QED
    BY <2>3, <2>4, <2>5 DEF AnswersInv
<1>2. ASSUME Inv, PairsInv, AnswersInv, [Next]_vars PROVE AnswersInv'
  BY <1>2, AnswersStep
<1>3. AnswersInv => (mishaps = 0 => AnswersTruthful)
  BY DEF AnswersInv, Correct, AnswersTruthful
<1>4. QED
  BY <1>1, <1>2, <1>3, ConnectionInvariant, PairsInvariant, PTL DEF Spec

\* The same where no control message can be lost.
THEOREM AnswersAlwaysTruthful ==
  ASSUME Closers = {}, RolesApart, OneTarget, MaxMishaps = 0
  PROVE  Spec => []AnswersTruthful
<1>1. Inv => mishaps = 0
  BY DEF Inv, TypeInv, NetInv, NetFine
<1>2. QED
  BY <1>1, AnsweredTruthfully, ConnectionInvariant, PTL
=============================================================================
