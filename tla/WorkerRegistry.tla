---------------------------- MODULE WorkerRegistry ----------------------------
(***************************************************************************)
(* The registry of workers under /workers in ZooKeeper: the registration   *)
(* of a worker (Worker::run), and the master that brings its clients up to *)
(* date with the registry when it starts, when a request comes in and when *)
(* it takes a job over (Master::update_workers).                           *)
(*                                                                         *)
(* A worker creates its node and only then, with a second request, writes  *)
(* its address into it; it serves after that.  The node goes at once when  *)
(* the worker closes its session, and lingers for a while when it crashes. *)
(* The master lists the nodes with one request and reads each new one with *)
(* another; a node that has a client is never read again.                  *)
(***************************************************************************)
EXTENDS Worker

CONSTANTS
    Late,       \* workers that are not yet started when the master is
    MaxNodes,   \* bound: nodes ever created under /workers
    EarlyReads  \* the master may list a node before its address is written

NoAddress == ""

ASSUME RegistryAssumption ==
    /\ NoAddress \notin Workers
    /\ Late \subseteq Workers
    /\ MaxNodes \in Nat
    /\ EarlyReads \in BOOLEAN

VARIABLES
    wpc,        \* worker: down, created, addressed, serving or failed
    node,       \* worker: its m_nodepath, or NoNode
    znodes,     \* the children of /workers: node |-> data
    nodes,      \* nodes created so far, the source of sequence numbers
    m_Clients,  \* [nodeid, addr] of each client, as m_ClientMap has them
    wrkrs,      \* update_workers: the children it listed
    unread,     \* ... those its loop has not reached
    due         \* those of wrkrs that had an address when they were listed

registrationVars == <<wpc, node, znodes, nodes>>
updateVars == <<m_Clients, wrkrs, unread, due>>
registryVars == <<registrationVars, updateVars>>

NoNode == 0

\* The node of a worker that is registered from the start.
FirstNode == CHOOSE f \in [Workers \ Late -> 1..Cardinality(Workers \ Late)] :
                 \A v, w \in Workers \ Late : f[v] = f[w] => v = w

\* The workers that are not late serve, and the master, which has just started,
\* has a client for each.
RegistryInit ==
    /\ wpc = [w \in Workers |-> IF w \in Late THEN "down" ELSE "serving"]
    /\ node = [w \in Workers |-> IF w \in Late THEN NoNode ELSE FirstNode[w]]
    /\ nodes = Cardinality(Workers \ Late)
    /\ znodes = [z \in 1..nodes |-> CHOOSE w \in Workers \ Late : FirstNode[w] = z]
    /\ m_Clients = [z \in 1..nodes |-> [nodeid |-> z, addr |-> znodes[z]]]
    /\ wrkrs = {} /\ unread = {} /\ due = {}

-------------------------------------------------------------------------------
(* The workers.                                                              *)

\* connect_to_zk and register_with_zk: an ephemeral node with the next number and
\* no data.
RegisterWithZk(w) ==
    /\ wpc[w] = "down"
    /\ nodes < MaxNodes
    /\ nodes' = nodes + 1
    /\ node' = [node EXCEPT ![w] = nodes']
    /\ znodes' = [z \in DOMAIN znodes \cup {nodes'} |-> IF z = nodes' THEN NoAddress ELSE znodes[z]]
    /\ wpc' = [wpc EXCEPT ![w] = "created"]
    /\ UNCHANGED <<workerVars, updateVars>>

\* set_address_info and register_address_with_zk.
RegisterAddressWithZk(w) ==
    /\ wpc[w] = "created"
    /\ znodes' = [znodes EXCEPT ![node[w]] = w]
    /\ wpc' = [wpc EXCEPT ![w] = "addressed"]
    /\ UNCHANGED <<workerVars, node, nodes, updateVars>>

\* run_server: the new process starts to serve.
RunServer(w) ==
    /\ wpc[w] = "addressed"
    /\ wpc' = [wpc EXCEPT ![w] = "serving"]
    /\ up' = [up EXCEPT ![w] = TRUE]
    /\ armed' = [armed EXCEPT ![w] = Kinds]
    /\ UNCHANGED <<pending, cq, running, local, conn, until_fail, doomed, storage, node, znodes, nodes, updateVars>>

\* The process ends; its node stays until ZooKeeper misses the session.
LeaveNode(w) ==
    /\ wpc' = [wpc EXCEPT ![w] = "down"]
    /\ node' = [node EXCEPT ![w] = NoNode]
    /\ UNCHANGED <<znodes, nodes, updateVars>>

Without(z) == [y \in DOMAIN znodes \ {z} |-> znodes[y]]

\* The session is closed and the node goes at once, before the process sleeps for ever
\* (enter_fail_state) or ends (~Worker).
CloseSession(w, then) ==
    /\ wpc' = [wpc EXCEPT ![w] = then]
    /\ node' = [node EXCEPT ![w] = NoNode]
    /\ znodes' = Without(node[w])
    /\ UNCHANGED <<nodes, updateVars>>

\* The session of a process that is gone expires.
SessionExpires(z) ==
    /\ z \in DOMAIN znodes \ Range(node)
    /\ znodes' = Without(z)
    /\ UNCHANGED <<workerVars, wpc, node, nodes, updateVars>>

-------------------------------------------------------------------------------
(* The master.                                                               *)

\* update_workers begins: getChildren.
ListWorkers ==
    /\ EarlyReads \/ \A z \in DOMAIN znodes : znodes[z] # NoAddress
    /\ wrkrs' = DOMAIN znodes
    /\ unread' = wrkrs'
    /\ due' = {z \in wrkrs' : znodes[z] # NoAddress}

\* getData, which gives nothing if the node has gone in the meantime.
DataOf(z) == IF z \in DOMAIN znodes THEN znodes[z] ELSE NoAddress

\* Mutant: clients are recognised by the address they lead to.
KnownByAddress(z) == \E c \in Range(m_Clients) : c.addr = DataOf(z)

worker_client_already_added(z) == \E c \in Range(m_Clients) : c.nodeid = z

\* A turn of the loop over wrkrs, in the order getChildren happens to give.
AddWorker(z) ==
    /\ z \in unread
    /\ unread' = unread \ {z}
    /\ m_Clients' = IF worker_client_already_added(z) THEN m_Clients
                    ELSE Append(m_Clients, [nodeid |-> z, addr |-> DataOf(z)])
    /\ UNCHANGED <<workerVars, registrationVars, wrkrs, due>>

\* Mutant: the loop ends one client too early.
ListedOrLast ==
    Sublist(m_Clients, {c \in Range(m_Clients) :
                        c.nodeid \in wrkrs \/ c = m_Clients[Len(m_Clients)]})

\* The second loop: the clients that stay.
ListedClients == Sublist(m_Clients, {c \in Range(m_Clients) : c.nodeid \in wrkrs})

\* The second loop, which ends the update.
RemoveWorkers ==
    /\ unread = {}
    /\ m_Clients' = ListedClients
    /\ UNCHANGED <<workerVars, registrationVars, wrkrs, unread, due>>

-------------------------------------------------------------------------------
Register(w) == RegisterWithZk(w) \/ RegisterAddressWithZk(w) \/ RunServer(w)
===============================================================================
