-------------------------------- MODULE Cluster --------------------------------
(***************************************************************************)
(* Jobs from the request to the output: the leader's request handler       *)
(* (req_handler::process) at the level TaskPhase describes, composed with  *)
(* the workers and their registry.  A job first brings the clients up to   *)
(* date (update_workers), gives every worker its container (ExchangeInfo), *)
(* then has the shards mapped, then the partitions reduced; a task whose   *)
(* call failed or ran past its deadline is sent again, to any client the   *)
(* heartbeat finds healthy.                                                *)
(*                                                                         *)
(* A deadline ends a call for the master only: the worker still has it.    *)
(* So does a leader that stops.  Its successor starts again from the last  *)
(* checkpoint; a leader that merely lost its ZooKeeper session is not told *)
(* and may go on sending tasks beside its successor.                       *)
(***************************************************************************)
EXTENDS WorkerRegistry

CONSTANTS
    Faults,         \* what may go wrong, a subset of FaultKinds
    MaxFaults,      \* bound: how often
    LeaderFails,    \* the leader may be replaced during its first job
    FollowerFirst   \* its successor may have started before the workers did

\* A call runs past its deadline (an ExchangeInfo: is late or lost), or a ping does while
\* its worker is at a task in time; a worker crashes; a leader that was replaced sends a
\* task; the container cannot be opened or listed.
FaultKinds == {"late", "late exchange", "late ping", "crash", "stray", "container"}

ASSUME ClusterAssumption ==
    /\ Faults \subseteq FaultKinds
    /\ MaxFaults \in Nat
    /\ LeaderFails \in BOOLEAN
    /\ FollowerFirst \in BOOLEAN

VARIABLES
    job,        \* the current or last job; requests are served one at a time
    phase,      \* idle, update, exchange, map, spin or reduce
    todo,       \* tasks to be sent (for exchange: the clients to be told)
    results,    \* tasks of the phase that are over
    healthy,    \* the clients with PING_SUCCESS
    intblobs,   \* m_IntblobList
    rejected,   \* jobs that were answered with an error
    resumed,    \* the leader works from a checkpoint
    old,        \* {} or {what the leader that was replaced works on}
    faults      \* how often something went wrong

leaderVars == <<resumed, old>>
masterVars == <<job, phase, todo, results, healthy, intblobs, rejected, leaderVars, faults>>
vars == <<workerVars, registryVars, masterVars>>

Shards == 1..NShards
Reducers == 1..NReducers
ClientIds == {c.nodeid : c \in Range(m_Clients)}

TasksOf(p) == CASE p = "exchange" -> ClientIds
                [] p = "map" -> Shards
                [] p = "reduce" -> Reducers
                [] OTHER -> {}

ClusterInit ==
    /\ Init(Workers \ Late)
    /\ RegistryInit
    /\ job = 0
    /\ phase = "idle"
    /\ todo = {} /\ results = {}
    /\ healthy = {}
    /\ intblobs = <<>>
    /\ rejected = {}
    /\ resumed = FALSE
    /\ old = {}
    /\ faults = 0

\* Something of this kind goes wrong.
Fault(kind) ==
    /\ kind \in Faults
    /\ faults < MaxFaults
    /\ faults' = faults + 1

-------------------------------------------------------------------------------
(* The master.                                                               *)

\* A phase begins, with the results of these tasks at hand.
EnterPhase(p, done) ==
    /\ phase' = p
    /\ todo' = TasksOf(p) \ done
    /\ results' = done

\* A request; the client has emptied the containers of the job's results.  The
\* first thing the handler does (set_requestid) is to list the workers.
StartJob ==
    /\ phase = "idle"
    /\ job < MaxJobs
    /\ job' = job + 1
    /\ EnterPhase("update", {})
    /\ ListWorkers
    /\ resumed' = FALSE
    /\ storage' = [n \in {n \in DOMAIN storage : n[2] # Container[job + 1]} |-> storage[n]]
    /\ UNCHANGED <<up, armed, pending, cq, running, local, conn, until_fail, doomed,
                   registrationVars, m_Clients, healthy, intblobs, rejected, old, faults>>

\* The clients are up to date, and every one is to be told of the job.
EndUpdate ==
    /\ phase = "update"
    /\ RemoveWorkers
    /\ phase' = "exchange"
    /\ todo' = {c.nodeid : c \in Range(m_Clients')}
    /\ healthy' = healthy \cap wrkrs
    /\ UNCHANGED <<job, results, intblobs, rejected, leaderVars, faults>>

\* create_container or create_sharding_data throws: the client gets a bad_request, and
\* the master keeps what the update and the job before left.
RejectJob ==
    /\ phase = "update"
    /\ ~resumed
    /\ Fault("container")
    /\ RemoveWorkers
    /\ EnterPhase("idle", {})
    /\ healthy' = healthy \cap wrkrs
    /\ rejected' = rejected \cup {job}
    /\ UNCHANGED <<job, intblobs, leaderVars>>

\* The client's channel leads to a server.
Reachable(c) == c.addr # NoAddress /\ up[c.addr]

\* The reducer's blobs, by the suffix of their names.
BlobsFor(r, list) == Sublist(list, {b \in Range(list) : b[6] = r})

CallFor(j, p, t, list) ==
    [kind |-> p, job |-> j, task |-> t, live |-> TRUE,
     cont |-> IF p = "exchange" THEN Container[j] ELSE "",
     blobs |-> IF p = "reduce" THEN BlobsFor(t, list) ELSE <<>>]

\* A call is made.  One to a worker that is gone fails at once: a task is queued
\* again, which leaves everything as it was.
Send(c, t) ==
    /\ Reachable(c)
    /\ t \in todo
    /\ IF phase = "exchange" THEN t = c.nodeid ELSE c.nodeid \in healthy
    /\ Arrive(c.addr, CallFor(job, phase, t, intblobs))
    /\ todo' = todo \ {t}
    /\ UNCHANGED <<registryVars, job, phase, results, healthy, intblobs, rejected, leaderVars, faults>>

\* An ExchangeInfo that never gets there: the worker is gone, or the call is lost
\* and ends at its deadline.
ExchangeUnreachable(c) ==
    /\ phase = "exchange" /\ c.nodeid \in todo
    /\ (~Reachable(c) /\ UNCHANGED faults) \/ Fault("late exchange")
    /\ todo' = todo \ {c.nodeid}
    /\ results' = results \cup {c.nodeid}
    /\ healthy' = healthy \ {c.nodeid}
    /\ UNCHANGED <<workerVars, registryVars, job, phase, intblobs, rejected, leaderVars>>

\* The blobs an OK answer to a map call names.
BlobsOf(w, sid) ==
    [i \in 1..NPieces * NReducers |->
        IntBlob(conn[w], w, sid, 1 + ((i - 1) \div NReducers), 1 + ((i - 1) % NReducers))]

\* The answer finds its call still open.
Accept(c) == c.live

\* A worker answers.  The answer to a call that is over is dropped.
AnswerCall(w) ==
    /\ Answer(w)
    /\ LET c == running[w] IN
         IF Accept(c)
         THEN /\ results' = results \cup {c.task}
              /\ healthy' = IF c.kind = "exchange" THEN healthy \cup {c.task} ELSE healthy
              /\ intblobs' = IF c.kind = "map" THEN intblobs \o BlobsOf(w, c.task) ELSE intblobs
         ELSE UNCHANGED <<results, healthy, intblobs>>
    /\ UNCHANGED <<registryVars, job, phase, todo, rejected, leaderVars, faults>>

\* Mutant: a failed task is not queued again.
DropFailed(cs) == UNCHANGED todo

\* The tasks of calls that failed or timed out are queued again.
RequeueFailed(cs) == todo' = todo \cup {c.task : c \in {x \in cs : x.kind # "exchange"}}

\* Calls that end badly for the master.
FailCalls(cs) ==
    LET told == {c.task : c \in {x \in cs : x.kind = "exchange"}} IN
    /\ RequeueFailed(cs)
    /\ results' = results \cup told
    /\ healthy' = healthy \ told
    /\ UNCHANGED <<job, phase, intblobs, rejected, leaderVars>>

\* The open calls a worker has.
LiveCallsAt(w) ==
    {c \in {running[w]} \cup Range(cq[w]) \cup UNION {Range(pending[w][k]) : k \in Kinds} : c.live}

\* Mutant: the next phase may start with a task still open.
SomeOver == results # {}

AllOver == results = TasksOf(phase)

\* The shards whose results a list of blobs names.
MappedIn(list) == {b[4] : b \in Range(list)}

\* Mutant: a new leader maps every shard again and keeps the checkpoint's blobs.
MapAllAgain ==
    /\ EnterPhase("map", {})
    /\ intblobs' = IF resumed THEN intblobs ELSE <<>>

\* runMapper starts from nothing, processReplicatedData from the checkpoint.  If that is
\* complete the new leader has nothing to send and waits for a response for ever
\* (MapDispatch!TakeoverEnds).
EnterMap ==
    IF resumed
    THEN /\ IF MappedIn(intblobs) = Shards
            THEN EnterPhase("spin", {})
            ELSE EnterPhase("map", MappedIn(intblobs))
         /\ UNCHANGED intblobs
    ELSE EnterPhase("map", {}) /\ intblobs' = <<>>

EndPhase ==
    /\ phase \notin {"idle", "update", "spin"}
    /\ AllOver
    /\ CASE phase = "exchange" -> EnterMap
         [] phase = "map" -> EnterPhase("reduce", {}) /\ UNCHANGED intblobs
         [] phase = "reduce" -> EnterPhase("idle", {}) /\ UNCHANGED intblobs
    /\ UNCHANGED <<workerVars, registryVars, job, healthy, rejected, leaderVars, faults>>

\* A heartbeat.  It needs an idle server thread to succeed, but no connection.
HeartbeatOk(c) ==
    /\ Reachable(c) /\ running[c.addr] = NoCall
    /\ phase \in {"map", "reduce"}
    /\ c.nodeid \notin healthy
    /\ healthy' = healthy \cup {c.nodeid}
    /\ UNCHANGED <<workerVars, registryVars, job, phase, todo, results, intblobs, rejected, leaderVars, faults>>

\* A ping fails: nobody is there, or it waits for too long behind the task the thread
\* is at.  It came after the call of that task, whose own deadline is as long.
HeartbeatFails(c) ==
    /\ \/ ~Reachable(c) /\ UNCHANGED <<workerVars, faults>>
       \/ /\ Reachable(c) /\ PingExpires(c.addr)
          /\ IF running[c.addr].live THEN Fault("late ping") ELSE UNCHANGED faults
    /\ phase \in {"map", "reduce"}
    /\ c.nodeid \in healthy
    /\ healthy' = healthy \ {c.nodeid}
    /\ UNCHANGED <<registryVars, job, phase, todo, results, intblobs, rejected, leaderVars>>

-------------------------------------------------------------------------------
(* Failures.                                                                 *)

Ended(c) == [c EXCEPT !.live = FALSE]
EndIn(s, c) == [i \in DOMAIN s |-> IF s[i] = c THEN Ended(c) ELSE s[i]]

\* A call runs past its 10 seconds.  One that no CallData has is dropped, or still
\* delivered when its turn comes; any other one is handled regardless.
Expire(w, c) ==
    /\ Fault(IF c.kind = "exchange" THEN "late exchange" ELSE "late")
    /\ \/ pending' = [pending EXCEPT ![w][c.kind] = Sublist(@, Range(@) \ {c})]
       \/ pending' = [pending EXCEPT ![w][c.kind] = EndIn(@, c)]
    /\ cq' = [cq EXCEPT ![w] = EndIn(@, c)]
    /\ running' = [running EXCEPT ![w] = IF @ = c THEN Ended(c) ELSE @]
    /\ FailCalls({c})
    /\ UNCHANGED <<up, armed, local, conn, until_fail, doomed, storage, registryVars>>

\* A worker process is killed, while it serves or while it registers.
Crash(w) ==
    /\ wpc[w] \notin {"down", "failed"}
    /\ Fault("crash")
    /\ Stop(w)
    /\ LeaveNode(w)
    /\ FailCalls(LiveCallsAt(w))

\* A worker stops by its own doing.
WorkerStops(w) ==
    /\ \/ EnterFailState(w) /\ CloseSession(w, "failed")
       \/ LeaveLoop(w) /\ CloseSession(w, "down")
       \/ UseNoConnection(w) /\ LeaveNode(w)
    /\ FailCalls(LiveCallsAt(w))
    /\ UNCHANGED faults

-------------------------------------------------------------------------------
(* Takeovers.                                                                *)

EndAll(s) == [i \in DOMAIN s |-> Ended(s[i])]

\* The calls of a leader that is gone: no answer of theirs counts any more, and the
\* ones no CallData has may be lost.
OrphanCalls ==
    /\ running' = [w \in Workers |-> Ended(running[w])]
    /\ cq' = [w \in Workers |-> EndAll(cq[w])]
    /\ \/ pending' = [w \in Workers |-> [k \in Kinds |-> EndAll(pending[w][k])]]
       \/ pending' = [w \in Workers |-> [k \in Kinds |-> <<>>]]

\* A checkpoint with n results: the first n that g_repl_list was offered.
Checkpoint(n) == SubSeq(intblobs, 1, n * NPieces * NReducers)

\* The leader is gone and its successor, which has a checkpoint, starts with the
\* workers.  There is none before the first job is sharded; the leader of a second
\* job ends when it starts to replicate (Replication), and a leader that took over
\* does not replicate.  The new leader's clients are those of the time when it
\* started, from before or after the workers came.  The old one keeps what it has; if
\* it did not stop but lost its session it may use it.
TakeOver ==
    /\ LeaderFails
    /\ job = 1 /\ ~resumed
    /\ phase \in {"exchange", "map", "reduce"}
    /\ OrphanCalls
    /\ \E n \in 0..Cardinality(MappedIn(intblobs)) : intblobs' = Checkpoint(n)
    /\ old' = {[job |-> job, blobs |-> IF phase = "reduce" THEN intblobs ELSE <<>>]}
    /\ EnterPhase("update", {})
    /\ m_Clients' \in {m_Clients} \cup IF FollowerFirst THEN {<<>>} ELSE {}
    /\ ListWorkers
    /\ healthy' = {}
    /\ resumed' = TRUE
    /\ UNCHANGED <<up, armed, local, conn, until_fail, doomed, storage, registrationVars, job,
                   rejected, faults>>

\* A leader that does not know it was replaced sends another task.
StraySend(w) ==
    /\ up[w]
    /\ Fault("stray")
    /\ \E o \in old, p \in {"map", "reduce"} : \E t \in TasksOf(p) :
           /\ p = "reduce" <=> o.blobs # <<>>
           /\ Arrive(w, Ended(CallFor(o.job, p, t, o.blobs)))
    /\ UNCHANGED <<registryVars, job, phase, todo, results, healthy, intblobs, rejected, leaderVars>>

-------------------------------------------------------------------------------
WorkerStep(w) ==
    \/ Work(w) /\ UNCHANGED <<registryVars, masterVars>>
    \/ AnswerCall(w)
    \/ WorkerStops(w)
    \/ Register(w) /\ UNCHANGED masterVars

MasterStep ==
    \/ StartJob
    \/ phase = "update" /\ (\E z \in unread : AddWorker(z)) /\ UNCHANGED masterVars
    \/ EndUpdate
    \/ RejectJob
    \/ EndPhase
    \/ \E c \in Range(m_Clients) : ExchangeUnreachable(c)
    \/ \E c \in Range(m_Clients) : HeartbeatOk(c)
    \/ \E c \in Range(m_Clients) : HeartbeatFails(c)
    \/ \E c \in Range(m_Clients), t \in todo : Send(c, t)

\* ZooKeeper notices that a process is gone.
ZooKeeperStep == (\E z \in DOMAIN znodes : SessionExpires(z)) /\ UNCHANGED masterVars

Next ==
    \/ MasterStep
    \/ \E w \in Workers : WorkerStep(w)
    \/ \E w \in Workers : Crash(w)
    \/ \E w \in Workers : \E c \in LiveCallsAt(w) : Expire(w, c)
    \/ ZooKeeperStep
    \/ TakeOver
    \/ \E w \in Workers : StraySend(w)

Spec == ClusterInit /\ [][Next]_vars

\* Every thread of the master and of a live worker makes progress, and the session of
\* a process that is gone expires.
FairSpec ==
    /\ Spec
    /\ WF_vars(ZooKeeperStep)
    /\ WF_vars(MasterStep)
    /\ \A w \in Workers : WF_vars(WorkerStep(w))

-------------------------------------------------------------------------------
\* The data of a job: all its pieces.
InputOf(j) == {j} \X Shards \X (1..NPieces)

\* The request handler answers a job with OK only when the out blob of every partition
\* covers all of the job's input and nothing else, and until the client posts a
\* job for the same container the out blobs stay that way: the late answers,
\* second attempts and abandoned tasks of this job and of other jobs leave them
\* alone.
OutputRight ==
    \A j \in 1..job \ rejected :
        (j < job \/ phase = "idle") /\ (\A i \in j + 1..job : Container[i] # Container[j]) =>
            \A r \in Reducers :
                /\ OutBlob(Container[j], r) \in DOMAIN storage
                /\ storage[OutBlob(Container[j], r)] = InputOf(j)

\* m_IntblobList names only blobs that are in storage and hold the data of their
\* piece, whatever attempts at the same task are still running, and names every
\* piece of a shard that counts as mapped exactly once for every partition.
IntBlobsRight ==
    phase \in {"map", "reduce"} =>
        /\ \A i \in DOMAIN intblobs :
               /\ intblobs[i] \in DOMAIN storage
               /\ storage[intblobs[i]] = {<<job, intblobs[i][4], intblobs[i][5]>>}
        /\ \A sid \in (IF phase = "map" THEN results ELSE Shards), p \in 1..NPieces, r \in Reducers :
               Cardinality({i \in DOMAIN intblobs :
                   /\ intblobs[i][4] = sid /\ intblobs[i][5] = p /\ intblobs[i][6] = r}) = 1

\* The master has exactly one call open for a task that it has sent and that is
\* not over: nothing is waited for that nobody will answer.
OneCallPerTask ==
    \A t \in TasksOf(phase) :
        LET calls == {x \in UNION {{w} \X LiveCallsAt(w) : w \in Workers} : x[2].task = t}
        IN  Cardinality(calls) = IF t \in todo \/ t \in results THEN 0 ELSE 1

\* No task is handled in the connection of another job: its blobs would go into the
\* other job's containers.  A worker that restarted has none.
TaskHasConnection ==
    \A w \in Workers :
        running[w].kind \in {"map", "reduce"} =>
            conn[w] \in {Container[running[w].job], NoConnection}

\* After update_workers there is one client for each node that was listed, none for
\* any other, and none twice, whatever nodes the clients were made for before.
ClientsListed ==
    phase \in {"exchange", "map", "reduce"} =>
        ClientIds = wrkrs /\ Len(m_Clients) = Cardinality(wrkrs)

\* A worker that had registered its address when a job began, and still runs, has a
\* client that leads to it: a node of its that lingers from before a restart does
\* not hide it.
RegisteredReachable ==
    phase \in {"exchange", "map", "reduce"} =>
        \A w \in Workers :
            node[w] \in due => \E c \in Range(m_Clients) : c.nodeid = node[w] /\ c.addr = w

\* Every job is answered, whatever calls are lost or late, whatever workers stop, leave
\* their loop or come back without a connection, and whichever leader is replaced,
\* unless no client leads to a worker any more or the new leader's checkpoint had
\* every map result.  Restarts are bounded (MaxNodes): the last worker might else
\* come back without a connection and die of it for ever.
JobsFinish ==
    \/ <>(job = MaxJobs /\ phase = "idle")
    \/ <>[](\A c \in Range(m_Clients) : ~Reachable(c))
    \/ <>(phase = "spin")
===============================================================================
