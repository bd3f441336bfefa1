----------------------------- MODULE GetEndpoint -----------------------------
(***************************************************************************)
(* Finding an endpoint that may not exist yet: mcapi_get_endpoint and its  *)
(* non-blocking variant, the messages they exchange with the control task  *)
(* of the other node, the list of foreign requests there with its pool of  *)
(* structures, creation and deletion of the endpoint, cancellation, and    *)
(* nodes that start late and are finalized meanwhile.  A call or a handler *)
(* holds the mutex of its node and is one step; a call that cannot send    *)
(* its request gives the mutex up, sleeps and tries again.                 *)
(***************************************************************************)
EXTENDS Naturals, Sequences, FiniteSets

CONSTANTS
  Nodes,
  Ports,        \* of the endpoints of applications
  Requests,     \* the calls: a request structure each
  Caller,       \* the node of each
  Server,       \* the node it asks for an endpoint
  PortOf,       \* and the port of that endpoint
  ControlPort,  \* MCAPI_RX_CONTROL_PORT
  PoolSize,     \* MCAPI_FREE_REQUEST_COUNT
  Late,         \* bound: the nodes that are initialized after others run
  Leaving,      \* bound: the nodes that are finalized
  MaxFailures,  \* bound: sends that find no buffer
  MaxDeletes,   \* bound: endpoints deleted
  Free          \* a structure that is not in use

Pool == 1 .. PoolSize

ASSUME GetEndpointAssumption ==
  /\ Caller \in [Requests -> Nodes]
  /\ Server \in [Requests -> Nodes]
  /\ PortOf \in [Requests -> Ports]
  /\ Late \subseteq Nodes /\ Leaving \subseteq Nodes
  /\ ControlPort \in Nat \ {0} /\ ControlPort \notin Ports /\ 0 \notin Ports
  /\ PoolSize \in Nat /\ MaxFailures \in Nat /\ MaxDeletes \in Nat
  /\ Free \notin [port : Ports, from : Nodes, count : Nat]

VARIABLES
  up,        \* each node: "off", "up", "closing" (no control endpoints) or "down"
  open,      \* the ports of its endpoints
  local,     \* mcapi_local_req_queue: requests
  status,    \* mcapi_status of each request; "retry" between two attempts
  blocked,   \* the requests that are on the stack of a blocked caller
  struct,    \* MCAPI_Free_Request_Structs of each node
  foreign,   \* mcapi_foreign_req_queue: those of them that are listed
  net,       \* messages under way to the control endpoint of each node
  failures, deletes,   \* how much of the bounds is used up
  unanswered \* history: requests whose answer was lost, or sent to no one

clients == <<local, status, blocked>>
servers == <<open, struct, foreign>>
bounds == <<failures, deletes>>
vars == <<up, clients, servers, net, bounds, unanswered>>

Init ==
  /\ up = [n \in Nodes |-> IF n \in Late THEN "off" ELSE "up"]
  /\ open = [n \in Nodes |-> {}]
  /\ local = [n \in Nodes |-> {}]
  /\ status = [r \in Requests |-> "unused"]
  /\ blocked = {}
  /\ struct = [n \in Nodes |-> [i \in Pool |-> Free]]
  /\ foreign = [n \in Nodes |-> {}]
  /\ net = [n \in Nodes |-> <<>>]
  /\ failures = 0 /\ deletes = 0
  /\ unanswered = {}

-----------------------------------------------------------------------------
(* Messages between control tasks.                                         *)

Running(n) == up[n] \in {"up", "closing"}
IsRemote(r) == Server[r] # Caller[r]

\* The endpoint the answer goes to comes with the request.
Request(n, p) == [type |-> "request", from |-> n, port |-> p, result |-> "none"]
Cancelled(n, p) == [type |-> "cancel", from |-> n, port |-> p, result |-> "none"]
Response(n, p, result) ==
  [type |-> "response", from |-> n, port |-> p, result |-> result]

\* The queues q after the same message was sent k times to a port of node n.  One
\* for an endpoint that does not exist, or not any more, is given back on arrival.
Delivered(q, n, port, m, k) ==
  IF up[n] = "up" /\ port = ControlPort
  THEN [q EXCEPT ![n] = @ \o [i \in 1 .. k |-> m]] ELSE q

\* msg_send from the control endpoint of n to node to: it succeeds, there is no
\* buffer, or no node of that number is registered with the driver.
MaySend(n, to) == up[n] = "up" /\ Running(to)
SendFails(to) ==
  \/ ~Running(to) /\ UNCHANGED failures
  \/ Running(to) /\ failures < MaxFailures /\ failures' = failures + 1

\* The requests that wait for an endpoint of node s at node c.
Waiting(c, s, p) == {r \in local[c] : Server[r] = s /\ PortOf[r] = p}

\* (mutant) only the first of the requests is resumed
ResumeOne(c, s, p, result) ==
  LET S == Waiting(c, s, p)
      one == IF S = {} THEN {} ELSE {CHOOSE r \in S : TRUE}
  IN
  /\ status' = [r \in Requests |-> IF r \in one THEN result ELSE status[r]]
  /\ local' = [local EXCEPT ![c] = @ \ S]
  /\ UNCHANGED blocked

\* mcapi_check_resume for MCAPI_REQ_CREATED.
ResumeAll(c, s, p, result) ==
  /\ status' = [r \in Requests |-> IF r \in Waiting(c, s, p) THEN result ELSE status[r]]
  /\ local' = [local EXCEPT ![c] = @ \ Waiting(c, s, p)]
  /\ UNCHANGED blocked

-----------------------------------------------------------------------------
(* The callers.                                                            *)

SetStatus(r, result) == status' = [status EXCEPT ![r] = result]
Enqueue(r) == local' = [local EXCEPT ![Caller[r]] = @ \cup {r}]

\* A call of the blocking variant keeps its request on the stack.
Enter(r, blocks) ==
  /\ status[r] = "unused" /\ Running(Caller[r])
  /\ blocked' = IF blocks THEN blocked \cup {r} ELSE blocked

\* get_remote_endpoint succeeds; the request joins the list of the node.
SendRequest(r) ==
  LET c == Caller[r]  s == Server[r] IN
  /\ MaySend(c, s)
  /\ net' = Delivered(net, s, ControlPort, Request(c, PortOf[r]), 1)
  /\ SetStatus(r, "pending")
  /\ Enqueue(r)
  /\ UNCHANGED failures

\* get_remote_endpoint fails.  Without a buffer the blocking variant will try
\* again, without the control endpoint, or in the other variant, it is an error.
RequestFails(r, blocks) ==
  /\ \/ up[Caller[r]] = "up" /\ SendFails(Server[r])
        /\ SetStatus(r, IF blocks THEN "retry" ELSE "failed")
     \/ up[Caller[r]] = "closing" /\ SetStatus(r, "failed") /\ UNCHANGED failures
  /\ UNCHANGED <<local, net>>

\* mcapi_get_endpoint and mcapi_get_endpoint_i of an endpoint elsewhere.
GetRemote(r, blocks) ==
  /\ IsRemote(r) /\ Enter(r, blocks)
  /\ SendRequest(r) \/ RequestFails(r, blocks)
  /\ UNCHANGED <<up, servers, deletes, unanswered>>

\* The loop of mcapi_get_endpoint, after its sleep.
Retry(r) ==
  /\ status[r] = "retry"
  /\ SendRequest(r) \/ RequestFails(r, TRUE)
  /\ UNCHANGED <<up, servers, blocked, deletes, unanswered>>

\* The same of an endpoint here.  The blocking variant looks for it and suspends
\* if it is missing; the other leaves it to mcapi_test to look.
GetLocal(r, blocks) ==
  LET found == PortOf[r] \in open[Caller[r]] IN
  /\ ~IsRemote(r) /\ Enter(r, blocks)
  /\ SetStatus(r, IF blocks /\ found THEN "success" ELSE "pending")
  /\ IF blocks /\ ~found THEN Enqueue(r) ELSE UNCHANGED local
  /\ UNCHANGED <<up, servers, net, bounds, unanswered>>

\* mcapi_test of a request that is not on the list.
TestLocal(r) ==
  /\ ~IsRemote(r) /\ r \notin blocked /\ Running(Caller[r])
  /\ status[r] = "pending" /\ PortOf[r] \in open[Caller[r]]
  /\ SetStatus(r, "success")
  /\ UNCHANGED <<up, local, blocked, servers, net, bounds, unanswered>>

\* Where mcapi_tx_response sends the cancellation of a request of this node: to
\* the node and port its structure names as requesting.
CancelTo(r) == <<Caller[r], 0>>

\* (mutant) the request is told it is cancelled and stays on the list
CancelKeepsListed(r) ==
  /\ Running(Caller[r]) /\ r \notin blocked /\ status[r] = "pending"
  /\ SetStatus(r, "cancelled")
  /\ UNCHANGED <<up, local, blocked, servers, net, bounds, unanswered>>

\* mcapi_cancel.  Every request of the node for the same endpoint is cancelled,
\* and MCAPI_CANCEL_MSG is sent for each; if there is none, this one alone.
Cancel(r) ==
  LET c == Caller[r]
      S == Waiting(c, Server[r], PortOf[r])
      m == Cancelled(c, PortOf[r])
  IN
  /\ Running(c) /\ r \notin blocked /\ status[r] = "pending"
  /\ \/ S # {} /\ ResumeAll(c, Server[r], PortOf[r], "cancelled")
     \/ S = {} /\ SetStatus(r, "cancelled") /\ UNCHANGED <<local, blocked>>
  /\ net' = IF IsRemote(r) /\ up[c] = "up"
            THEN Delivered(net, CancelTo(r)[1], CancelTo(r)[2], m, Cardinality(S))
            ELSE net
  /\ UNCHANGED <<up, servers, bounds, unanswered>>

-----------------------------------------------------------------------------
(* The other node.                                                         *)

\* (mutant) the search goes one entry too far
FreeStructsPast(s) == {i \in 1 .. PoolSize + 1 : i > PoolSize \/ struct[s][i] = Free}

FreeStructs(s) == {i \in Pool : struct[s][i] = Free}

\* mcapi_get_free_request_struct.
FreeStruct(s) == CHOOSE i \in FreeStructs(s) : \A j \in FreeStructs(s) : i <= j

\* The listed structures for a port of node s.
ListedFor(s, p) == {i \in foreign[s] : struct[s][i].port = p}

\* (mutant) the requests of all nodes are counted together
EntryOfAny(s, p, n) == ListedFor(s, p)

\* That of one node for it.
EntryOf(s, p, n) == {i \in ListedFor(s, p) : struct[s][i].from = n}

Entry(p, n, k) == [port |-> p, from |-> n, count |-> k]

\* Requests that will not hear of this answer, unless of another one.
Forget(S) == unanswered' = unanswered \cup S

\* The queues once the control task of s has its next message.
Taken(s) == [net EXCEPT ![s] = Tail(@)]

\* The endpoint exists: the control task answers.
AnswerNow(s, m) ==
  /\ m.port \in open[s]
  /\ \/ /\ MaySend(s, m.from)
        /\ net' = Delivered(Taken(s), m.from, ControlPort, Response(s, m.port, "success"), 1)
        /\ UNCHANGED <<failures, unanswered>>
     \/ /\ SendFails(m.from)
        /\ net' = Taken(s)
        /\ Forget(Waiting(m.from, s, m.port))
  /\ UNCHANGED <<struct, foreign>>

\* Another request of that node is listed already: they are counted.
CountRequest(s, m) ==
  /\ m.port \notin open[s]
  /\ \E i \in EntryOf(s, m.port, m.from) :
       struct' = [struct EXCEPT ![s][i].count = @ + 1]
  /\ net' = Taken(s)
  /\ UNCHANGED <<foreign, failures, unanswered>>

\* The first of a node's for this endpoint takes a structure of the pool.
ListRequest(s, m) ==
  /\ m.port \notin open[s] /\ EntryOf(s, m.port, m.from) = {} /\ FreeStructs(s) # {}
  /\ struct' = [struct EXCEPT ![s][FreeStruct(s)] = Entry(m.port, m.from, 1)]
  /\ foreign' = [foreign EXCEPT ![s] = @ \cup {FreeStruct(s)}]
  /\ net' = Taken(s)
  /\ UNCHANGED <<failures, unanswered>>

\* The pool is empty.  The answer names the port of the requester's control
\* endpoint in place of the one it asked for.
RefuseRequest(s, m) ==
  /\ m.port \notin open[s] /\ EntryOf(s, m.port, m.from) = {} /\ FreeStructs(s) = {}
  /\ \/ /\ MaySend(s, m.from)
        /\ net' = Delivered(Taken(s), m.from, ControlPort, Response(s, ControlPort, "limit"), 1)
        /\ UNCHANGED failures
     \/ SendFails(m.from) /\ net' = Taken(s)
  /\ Forget(Waiting(m.from, s, m.port))
  /\ UNCHANGED <<struct, foreign>>

HandleRequest(s) ==
  LET m == Head(net[s]) IN
  /\ m.type = "request"
  /\ AnswerNow(s, m) \/ CountRequest(s, m) \/ ListRequest(s, m) \/ RefuseRequest(s, m)
  /\ UNCHANGED <<up, clients, open, deletes>>

\* MCAPI_GETENDP_RESPONSE: the answer is for every request of the node for that
\* endpoint.
HandleResponse(n) ==
  LET m == Head(net[n]) IN
  /\ m.type = "response"
  /\ ResumeAll(n, m.from, m.port, m.result)
  /\ net' = Taken(n)
  /\ UNCHANGED <<up, servers, bounds, unanswered>>

\* The control task of a node, as long as it has its endpoint.
ControlTask(n) ==
  /\ up[n] = "up" /\ net[n] # <<>>
  /\ HandleRequest(n) \/ HandleResponse(n)

Asked(s, p) == \E r \in Requests : Server[r] = s /\ PortOf[r] = p

\* (mutant) the structures stay in use
ReleaseListOnly(s, S) == foreign' = [foreign EXCEPT ![s] = @ \ S] /\ UNCHANGED struct

\* They leave the list and the pool.
Release(s, S) ==
  /\ foreign' = [foreign EXCEPT ![s] = @ \ S]
  /\ struct' = [struct EXCEPT ![s] = [i \in Pool |-> IF i \in S THEN Free ELSE @[i]]]

\* create_endpoint.  The nodes listed for the endpoint are told, each once, and
\* the requests of the node itself are resumed.  Whoever is not told for want of
\* a buffer, or of the control endpoint, leaves the list all the same.
Create(s, p) ==
  LET S == ListedFor(s, p)
      nodes == {struct[s][i].from : i \in S}
      reachable == {n \in nodes : MaySend(s, n)}
  IN
  /\ Running(s) /\ p \notin open[s] /\ Asked(s, p)
  /\ open' = [open EXCEPT ![s] = @ \cup {p}]
  /\ Release(s, S)
  /\ \E told \in SUBSET reachable :
       /\ failures' = failures + Cardinality(reachable \ told)
       /\ failures' <= MaxFailures
       /\ net' = [n \in Nodes |-> IF n \in told /\ up[n] = "up"
                                 THEN Append(net[n], Response(s, p, "success")) ELSE net[n]]
       /\ Forget(UNION {Waiting(n, s, p) : n \in nodes \ told})
  /\ ResumeAll(s, s, p, "success")
  /\ UNCHANGED <<up, deletes>>

\* mcapi_delete_endpoint: requests for the endpoint, if any, are not touched.
Delete(s, p) ==
  /\ Running(s) /\ p \in open[s]
  /\ deletes < MaxDeletes /\ deletes' = deletes + 1
  /\ open' = [open EXCEPT ![s] = @ \ {p}]
  /\ UNCHANGED <<up, struct, foreign, clients, net, failures, unanswered>>

-----------------------------------------------------------------------------
(* The nodes.                                                              *)

\* mcapi_initialize.
Initialize(n) ==
  /\ up[n] = "off"
  /\ up' = [up EXCEPT ![n] = "up"]
  /\ UNCHANGED <<clients, servers, net, bounds, unanswered>>

\* mcapi_finalize first deletes the control endpoints, with what is queued there.
BeginFinalize(n) ==
  /\ n \in Leaving /\ up[n] = "up"
  /\ up' = [up EXCEPT ![n] = "closing"]
  /\ net' = [net EXCEPT ![n] = <<>>]
  /\ UNCHANGED <<clients, servers, bounds, unanswered>>

\* It then closes the other endpoints, cancels the requests on the list, and goes
\* through the foreign ones, for whose answers there is no endpoint to send from.
\* No thread may be in a call that will come back for the mutex.
EndFinalize(n) ==
  /\ up[n] = "closing"
  /\ \A r \in Requests : Caller[r] = n => status[r] # "retry"
  /\ up' = [up EXCEPT ![n] = "down"]
  /\ open' = [open EXCEPT ![n] = {}]
  /\ status' = [r \in Requests |-> IF r \in local[n] THEN "cancelled" ELSE status[r]]
  /\ local' = [local EXCEPT ![n] = {}]
  /\ foreign' = [foreign EXCEPT ![n] = {}]
  /\ UNCHANGED <<blocked, struct, net, bounds, unanswered>>

Next ==
  \/ \E n \in Nodes :
       Initialize(n) \/ ControlTask(n) \/ BeginFinalize(n) \/ EndFinalize(n)
  \/ \E r \in Requests : Retry(r) \/ TestLocal(r) \/ Cancel(r)
  \/ \E r \in Requests, blocks \in BOOLEAN : GetRemote(r, blocks) \/ GetLocal(r, blocks)
  \/ \E n \in Nodes, p \in Ports : Create(n, p) \/ Delete(n, p)

Spec == Init /\ [][Next]_vars

\* The control tasks handle what they receive, and callers try again.
Fairness ==
  /\ \A n \in Nodes : WF_vars(ControlTask(n))
  /\ \A r \in Requests : WF_vars(Retry(r))
FairSpec == Spec /\ Fairness

-----------------------------------------------------------------------------
(* Properties.                                                             *)

Entries == [port : Ports, from : Nodes, count : Nat]
Results == {"success", "failed", "cancelled"}

\* The variables keep to what the structures hold.
TypeOK ==
  /\ up \in [Nodes -> {"off", "up", "closing", "down"}]
  /\ open \in [Nodes -> SUBSET Ports]
  /\ local \in [Nodes -> SUBSET Requests]
  /\ status \in [Requests -> Results \cup {"unused", "retry", "pending", "limit"}]
  /\ blocked \subseteq Requests /\ unanswered \subseteq Requests
  /\ struct \in [Nodes -> [Pool -> Entries \cup {Free}]]
  /\ foreign \in [Nodes -> SUBSET Pool]
  /\ failures \in 0 .. MaxFailures /\ deletes \in 0 .. MaxDeletes

\* Whoever waits for an endpoint of another node is remembered there, or the
\* request or an answer is under way: no order of creation, deletion and further
\* requests makes the two nodes forget (mcapi_process_ctrl_msg,
\* mcapi_check_foreign_resume).  Left out are the unanswered ones: those whose
\* answer found no buffer, and those refused because the pool was empty, whose
\* answer names another port.
WaiterRemembered ==
  \A r \in Requests :
    LET c == Caller[r]  s == Server[r]  p == PortOf[r] IN
    IsRemote(r) /\ status[r] = "pending" /\ up[c] = "up" /\ up[s] = "up"
      /\ r \notin unanswered =>
        \/ EntryOf(s, p, c) # {}
        \/ \E i \in DOMAIN net[s] : net[s][i] = Request(c, p)
        \/ \E i \in DOMAIN net[c] : net[c][i] = Response(s, p, "success")

\* A node is listed once for an endpoint, however many of its threads wait, and
\* only while the endpoint does not exist (cntrl_msg.c:135); and the structures in
\* use are the listed ones: whichever way a foreign request is taken off the list
\* while the node runs, its structure is free again.
ForeignConsistent ==
  \A s \in Nodes :
    /\ \A i, j \in foreign[s] :
         /\ struct[s][i].port \notin open[s]
         /\ struct[s][i].port = struct[s][j].port /\ struct[s][i].from = struct[s][j].from
              => i = j
    /\ Running(s) => foreign[s] = {i \in Pool : struct[s][i] # Free}

\* A request that has ended keeps its result, and is not listed any more: a late
\* or repeated answer does not revive one that was cancelled.
ResultIsFinal ==
  [][\A r \in Requests : status[r] \in Results =>
       status'[r] = status[r] /\ r \notin local'[Caller[r]]]_vars

\* Whoever waits for an endpoint that is there to stay is answered, unless no
\* buffer was left for the answer or the request was refused because the pool was
\* empty (both are in unanswered).
Served(r) ==
  up[Caller[r]] = "up" /\ up[Server[r]] = "up" /\ PortOf[r] \in open[Server[r]]
Waits(r) ==
  \/ status[r] = "retry"
  \/ status[r] = "pending" /\ (IsRemote(r) \/ r \in blocked)
GetAnswered ==
  \A r \in Requests : <>[]Served(r) => []<>(~Waits(r) \/ r \in unanswered)
=============================================================================
