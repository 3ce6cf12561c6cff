# A TLA+ model of the map/reduce framework

The framework (`src/w7`) runs word-count style jobs over blobs in Azure storage.
Several *masters* elect a leader through ZooKeeper. A client posts a job to the
leader over HTTP; the leader cuts the input into shards, has the *workers* map
the shards and then reduce the partitions, over asynchronous gRPC, and pushes
checkpoints of the job to a second master, which takes over if the leader fails.

This directory models that program: the two dispatch loops and their completion
threads, the heartbeat, the sharding arithmetic, the election, the replication,
the registry of workers, the workers' servers with the blobs they write, whole jobs
with the takeover of one by a new leader, and the byte level repair of words at the
borders of pieces. TLC checks the models on small instances; TLAPS
proves the main safety properties for all instances.

Line numbers are those of `src/w7/src/master/masterimpl.cc` unless another file
is named. `PROJECT.json` maps every definition to its lines.

## 1. Inventory

| Component | State | Operations | Interacts with | What is hard |
|---|---|---|---|---|
| map dispatch (`dispatchMapTasks`, `AsyncCompleteMapRpc`) | `job_q`, `responseList`, `nrpcs`, `m_IntermediateResultMap`, `m_IntblobList`, `m_map_done` | send, collect, requeue, return | completion thread `m_t1`, client pool, replication | two threads on the locals of one of them, most reads unlocked, an iterator into a growing vector |
| reduce dispatch (`dispatchReduceTasks`, `AsyncCompleteReduceRpc`) | `job_q`, `responseList`, `nrpcs`, `done`, `m_OutputResultMap` | send in rounds, wait for all, collect | completion thread `m_r1`, client pool | an unsigned difference as throttle, a call counted after it is made |
| client pool and heartbeat | `pingStatus_` and counters of the clients, `g_ready`, `m_hbcheck` | ping rounds, search for the least used client, wait and notify | both dispatch loops, workers | statuses change during a scan, lost wake-ups, a flag raised by the thread it controls |
| sharding (`calc_shard_sz`, `make_shards`, `create_sharding_data`) | list of pieces, remainder of the current shard, `m_shards` | cut, join, send as `ShardTuple`s | dispatch (`m_nmappers`) | single precision, unsigned remainders, empty blobs, `int32` offsets |
| leader election | children of `/masters`, `/leader` with its data, watches, `existLeader`, `watchTriggered` | register, elect, watch, step down | ZooKeeper, replication | results not checked, one-shot watches, masters that stop in between |
| replication and takeover | `g_repl_list`, `g_repl_data`, checkpoint on the follower | offer, serialise, push, take over | map dispatch, election | unlocked reads, resets after a push, a list that outlives its job |
| job request handler | current request | update, exchange, map, reduce, answer; answer with an error | everything above | one job after another in one process |
| worker registry (`update_workers`) | `m_Clients`, `m_ClientMap` | list, read and add, remove | ZooKeeper, client pool | one request for the list and one per node, nodes that outlive their worker, a list erased from while it is walked |
| worker registration (`Worker::run`) | `m_nodepath`, a child of `/workers` with its data | create the node, write the address, serve | ZooKeeper, registry | two requests for one registration, restarts beside an old node |
| worker gRPC server | completion queue, one `CallData` per kind, `m_dbConnection` | receive, handle, re-arm, leave the loop | master | calls the master gave up, no order between kinds of calls, answers to calls that are over |
| worker task execution | local files, intermediate and output blobs | download, run script, upload | storage | blobs written one by one, errors that are dropped |
| word boundary (`fix_word_boundary`) | bytes of one piece | blank the head, extend the tail | sharding, `map.py` | two loops that must agree on one byte |

What makes them correct:

* dispatch: every task is in one place, recorded once, and the function returns
  only with all results and with no call or push left that needs its locals;
* pool: the search returns, with a client that answered a ping of late;
* sharding: pieces tile the input, remainders never wrap;
* election: at most one leader, which owns `/leader`; a leader that goes away is
  replaced;
* replication: what a follower has are the leader's results in their order, and it
  only grows;
* registry: after an update there is one client for each registered worker, which
  leads to it, and no other;
* workers and jobs: the output of an answered job covers its input exactly once
  and stays so; every job is answered while workers are left;
* word boundary: every byte, and every word, belongs to exactly one piece.

The hazards behind these properties are listed with their lines in
`PROJECT.json`. The greeter of `src/w6`, the build and deployment files and the
client script are not part of the models.

## 2. Modules

| Module | Models | Composes / refines |
|---|---|---|
| `Lists` | listings, sortedness, removal and filtering of sequences | used by the dispatch modules and the workers |
| `TaskPhase` | abstract specification: a phase records one result per task and finishes only with all of them | |
| `MapDispatch` | map phase | refines `TaskPhase` |
| `ReduceDispatch` | reduce phase | refines `TaskPhase` |
| `ClientPool` | heartbeat and client search | |
| `Sharding` (`MCSharding`) | shard size, cutting, joining | |
| `LeaderElection` | election through ZooKeeper | |
| `Replication` | checkpoints and takeover | |
| `Worker` | server, tasks and blobs of the workers | |
| `WorkerRegistry` | registration of workers, and the update of the master's clients | extends `Worker` |
| `Cluster` (`MCCluster`) | jobs from the request to the output, and their takeover | extends `WorkerRegistry`, with the leader at the level of `TaskPhase` |
| `WordBoundary` (`MCWordBoundary`) | pieces of a blob as bytes and words | |

`XProofs` holds the theorems about `X`. The `MC` modules only give values to
constants that a configuration file cannot express.

The order in which they were built, and the order to read them in, is the one of
the table: first what loses work if it is wrong (dispatch), then what it relies
on (pool, sharding), then what survives a failure (election, replication), then
the workers and whole jobs.

How state and actions correspond to the code:

* **MapDispatch.** Variables have the names of the C++ ones. `stale` says that
  the iterator of the collecting loop points into a buffer the vector has given
  up: `capacity` doubles as libstdc++ does, a push that exceeds it moves the
  vector. A stale iterator goes on through the freed buffer and what follows it and
  never meets the end of the new one, so the loop does not come back to the list or to
  `job_q`: it sends nothing and ends only with the process (`UseStaleIterator`).
  When the function returns, its thread may still be about to test `count`, `nrpcs`
  and the size of the list, which are gone: `UseDeadLocals` gives that read its
  outcomes. `Init` is a fresh job (`runMapper`) or a takeover
  (`processReplicatedData`) from a checkpoint.
* **ReduceDispatch.** The same style. The phase works in rounds, and `done`,
  which the threads share, is a local too.
* **ClientPool.** The scan of `findMinReqHealthyClient` looks at one client per
  step, so a ping round may overtake it; `pings` are the calls of the round. `missed`
  is a history variable: the pings a client failed since its last answer.
* **Sharding.** One turn of each loop per step. `CeilOfFloat` rounds as IEEE
  arithmetic with `FloatBits` bits does (24 in the code). `Wire` is what becomes of
  an offset in a signed field of `OffsetBits` bits (32 in the code).
* **LeaderElection.** A master is its sequence number; every ZooKeeper call is a
  step; the watcher callback is a second thread of its master.
* **Replication.** `serialize_data` notes the end of the list and reads it later
  (`toRead`, `moved`); a result carries the job it was computed for, so that a
  stale one is visible.
* **Worker, Cluster.** A call is a record with its kind, job and task; `live`
  says that the master still waits for it. Blobs are named by what the code puts
  into their names (container, worker, shard, piece, partition), their content
  is the set of input pieces they cover. Every upload and download is a step. The
  answer to a call that is over completes with `ok == false`, and so may that to a ping
  that expired behind a task (`FinishOutcomes`, `PingExpires`). Such a completion is
  `doomed`: when the server's loop comes to it (`LeaveLoop`, `mrservice.h` 146), the
  worker ends, with what is in its queue, and its session is closed.
* **WorkerRegistry.** `znodes` are the children of `/workers` with their data, and
  creating a node, writing the address and serving are three steps of a worker.
  The master lists the nodes in one step and reads each new one in another
  (`AddWorker`). The node of a process that ended is in nobody's `node` any more and
  stays until `SessionExpires`. A worker's address is its identity: outside `LOCAL`
  builds it is the IP of the pod, which a restart keeps.
* **Takeover in Cluster.** `TakeOver` replaces the leader: its calls become orphans
  that workers may still handle (`OrphanCalls`), the successor starts from any prefix
  of the results, from none to all (what `CheckpointInOrder` of `Replication` shows a
  checkpoint to be), updates its clients, exchanges, and maps what is missing. If
  nothing is, it is in phase `spin` for ever (finding 1). `old` is what the replaced leader had; if it
  lost only its session it may send a task from that (`StraySend`). The faults of the
  environment are counted together, in `faults`.
* **WordBoundary.** Bytes are letters, delimiters `fix_word_boundary` knows, and
  separators only `map.py` knows. `Words` and `Count` are what `map.py` counts.

Definitions marked *Mutant* are deliberate mistakes. No specification uses them;
they show, put in the place of the definition below them, that a property fails
when the code is wrong.

Unlocked shared variables are read and written one access at a time, in a
sequentially consistent order. That is what the x86-64 builds of the repository
give for word-sized variables the compiler does not keep in registers; a compiler
that hoists the test out of `while(responseList.size() == 0);` (line 876) is not
modelled.

## 3. Runs

`tlc -config <name>.cfg <module>` repeats a run; the module and the properties of
each are in `PROJECT.json`.

| Run | What it shows |
|---|---|
| `MapDispatch` | No shard is lost or in two places (`OnePlace`), `nrpcs` is the number of calls that are not collected (`NrpcsExact`), the function returns only with every result and with no call, response or push left (`SafeReturn`), a result is offered for replication once (`OfferedOnce`). The phase implements `TaskPhase`; it and its thread end (`PhaseEnds`). |
| `MapTakeoverHang` | *Violated:* a takeover with a complete checkpoint ends (finding 1). |
| `ReduceDispatch` | The same questions for the reduce phase, and two that only it raises: nothing is appended while the main thread walks the list unlocked (`QuietCollect`), and `nrpcs - responseList.size()` never wraps (`NoUnderflow`). |
| `ClientPool` | The client the search holds may have lost its `PING_SUCCESS` since the scan passed it, but it answered one of its last two pings (`ChosenAnswered`). While one worker is reliable every search returns, a worker that died is not healthy for ever, and a heartbeat thread that had started ends after `stop_ping`. |
| `Sharding` | The workers are given every byte once, as long as the offsets fit (`AllBytesSharded`), all but the last have `shard_sz` bytes (`EqualShards`), `rem_shard_sz` stays in range, the loops end. |
| `LeaderElection` | At most one live master leads, `/leader` belongs to the smallest registered master, a master is elected again whenever one is left, and every master settles as leader or follower. Masters stop and restart, but outside elections. |
| `LeaderStuck` | *Violated:* `LeaderElected` when a master may stop in the middle of an election (finding 2). |
| `Replication` | The results of a checkpoint are the first ones offered, each once and in their order (`CheckpointInOrder`), and it is never replaced by one with fewer (`CheckpointGrows`); the follower gets a first checkpoint (`FollowerInformed`) and news is pushed, also that of a second job (`NewsIsPushed`). Of which job the results are is another matter, see section 4. |
| `ReplLostOffer` | *Violated:* every result reaches the follower while the leader lives (finding 3). |
| `Cluster` | One job, with a fault of any kind and a takeover. An answered job's output covers its input exactly once and stays so (`OutputRight`), the intermediate blobs that the reducers read belong to one attempt each, whichever leader asked for it (`IntBlobsRight`), the master has one open call per task that is not over (`OneCallPerTask`), the job is answered while a client leads to a worker and unless the successor's checkpoint was complete (`JobsFinish`). |
| `ClusterJobs` | Two jobs with containers of their own, a worker that joins late and one that crashes, or loses its server to an expired ping, and comes back: each output is right, no task runs in the connection of another job (`TaskHasConnection`), an update leaves exactly the listed workers (`ClientsListed`), and a worker that was registered when the job began has a client that leads to it, whatever its old node does (`RegisteredReachable`). Both jobs are answered, also when a worker comes back without a connection and dies of it again (`JobsFinish`). |
| `WordBoundary` | The pieces keep every byte once (`EveryByteOnce`) and count every word once (`WordsOnce`), if a delimiter that `fix_word_boundary` knows follows within `EXTRA_LEN` bytes of any byte. A newline is none, so short words are not enough. |

Every property of a passing run fails for a plausible mistake in the code; the
mistakes are the definitions marked *Mutant*.

### Bounds

* `MapDispatch`: four shards with at most two calls under way (`nrpcs > MaxRpcs` is
  tested before a send) fill the limit twice over, and the response vector grows and
  moves while it is walked, so that the iterator goes stale; two failed calls let one
  shard fail twice or two once; `FailAfter = 5` lets the leader fail when it repeats a
  task. Checkpoints with none, one, two and all but one of the shards.
* `ReduceDispatch`: four partitions and one client, thus several rounds; three
  failures, so that a round may fail and be repeated; the leader may fail while it
  repeats.
* `ClientPool`: three clients, one reliable, so that a dead, a slow and a healthy
  one meet; two tasks for each, so that counters differ and tie. `MaxTasks` is in
  the guard of `InvokeTask` only.
* `Sharding`: three blobs of zero to eight bytes, one to four mappers. Three bits of
  precision make sizes round up and down, which with 24 bits takes 16 MB. Offsets of
  four bits hold the sizes up to seven, so that the largest size that fits and the
  first that does not are both there.
* `LeaderElection`: four registrations in all; a restarted master is a new one.
  Three alive suffices for a smallest, a next and a bystander, the fourth is the
  restart.
* `Replication`: three shards: one in the checkpoint, one in the push, one on
  offer. Two jobs, the second with the results of the first in the list; when the
  replication thread still lives it terminates the leader.
* `Cluster`: two workers and two shards, the least in which a repeated task can meet
  its first attempt on another worker; one worker told to fail at its second task;
  one fault (`MaxFaults`) of any kind (`Faults`), anywhere; one takeover, anywhere
  after the sharding, from a checkpoint with none, one or both of the results. The last
  two are together: a deadline missed before a takeover, a crash after it. Pings that
  expire behind a call that is over are no further fault, those behind one in time are.
  `MaxNodes = 2` leaves no restart: those are in `ClusterJobs`. The successor
  started after the workers (`FollowerFirst = FALSE`): one that has to make all its
  clients anew reads the nodes one by one, and ends with the same clients
  (`ClientsMatchRegistry`). With `TRUE` the run has a million states, and passes. A second takeover, or
  one in a second job, has no checkpoint to start from: a leader that took over does
  not replicate, and one that starts to replicate again terminates (782).
* `ClusterJobs`: two jobs, two pieces and two partitions; one worker starts late, and
  `MaxNodes = 3` leaves one registration for a worker that ended. A crash, a ping that
  expires behind a task, or a container that cannot be opened. Missed deadlines of
  calls and takeovers are in `Cluster`:
  together they exceed what TLC explores in minutes, and with two jobs they break
  `OutputRight` anyway (section 4).
* `WordBoundary`: every text of up to seven bytes over the three kinds of bytes,
  with `EXTRA_LEN = 2`, cut into pieces of up to four: pieces shorter than, equal
  to and longer than `EXTRA_LEN`, words shorter and longer.

The election, the replication, and the cluster are checked without deadlock
checking (`CHECK_DEADLOCK FALSE`): masters wait for ever for requests, watches or
notifications, and may all have stopped. The dispatch phases, the pool, the
sharding and the pieces end in a state with an explicit stuttering step, so a
deadlock of theirs would be reported.

### Fairness

* Threads: a thread that can take a step does so eventually (weak fairness of each
  thread by itself). The operating system's scheduler gives that, and no step here
  waits for a lock that another thread keeps for ever.
* Calls: every call is answered or fails at its deadline. `MapReduceClient` sets a
  deadline of 10 seconds on each. Failures are bounded (`MaxFailures`,
  `MaxFaults`), else a job might fail for ever.
* `TimedSpec` of `ClientPool` adds that a woken main thread scans its list before
  the 5 seconds of `PING_INTERVAL` are over. Without it a scan could always meet a
  ping round in which all clients are in `PING_CHECK`, and `ChosenAnswered` would
  fail for a scan that lasts over two rounds. The other invariants are proved without it.
* `Cluster`: the master and each worker by itself, and ZooKeeper: the session of a
  process that is gone expires, after the session timeout. No fairness for crashes,
  timeouts and takeovers. Faults and registrations are bounded (`MaxFaults`,
  `MaxNodes`): the last worker of a job could otherwise come back without a connection
  and die of its next task for ever, and the job would not end.

## 4. Findings

1. `dispatchMapTasks` waits in `while(responseList.size() == 0);` (876). After a
   takeover whose checkpoint has every result, `job_q` is empty, no call is made,
   and the new leader spins for ever (`MapTakeoverHang`).
2. `existLeader` is assigned the return code of `checkExists` (1279), which is 0,
   that is false, exactly if `/leader` is there. A master gets to that line when it
   saw `/leader` but could not read whom it names, because the leader stopped in
   between. When it tries again, the node is gone, the flag is true, the election is
   skipped, and so on for ever (`LeaderStuck`).
3. `start_repl_client` resets `g_repl_data` after the push (437). What was offered
   since the serialisation waits for a later offer; the last results of a job may
   never be pushed (`ReplLostOffer`).

Other deviations become visible with other constants, or other properties, in the
given configuration:

| Change | Fails | Because |
|---|---|---|
| `MapDispatch`: `m_nmappers = 3` | `SafeReturn`, `ImplementsTaskPhase` | the phase ends when the number of results *equals* the number of mappers (912), and sharding may give another number of shards |
| `Replication` as it is | that all results the follower has are of the checkpoint's job, `chk.rid # 0 => \A r \in m_IntermediateResultMap : r.job = chk.rid`; and `lpc # "terminated"` | `g_repl_list` is not cleared between jobs (460), so a successor takes shards of the second job for mapped; the second job assigns to a joinable thread (782) |
| `Replication`: `"garbage"` in `FreedReads` | `CheckpointInOrder` | the list is read without the mutex (461) |
| `Replication`: `"self"` in `SecondChild` | `FollowerInformed` | the children of `/masters` come in no order (418) |
| `ClusterJobs`: `Faults = {"late"}`, `MaxFaults = 2`, `NPieces = 1` | `OutputRight` | a reduce task of the first job whose call was given up is handled after the second job's `ExchangeInfo`, in its connection |
| `ClusterJobs`: `Faults = {"late exchange"}` | `TaskHasConnection` | a lost `ExchangeInfo` is not repeated, and the worker counts as healthy (207) |
| `ClusterJobs`: `StorageFails = TRUE` | `OutputRight` | results of downloads are ignored (`workerimpl.cc` 93, 110), and a script that raises counts as one that has nothing to say (230) |
| `ClusterJobs`: `EarlyReads = TRUE` | `RegisteredReachable` | a node listed between its creation and the writing of its address (`workerimpl.cc` 364, 392) gets a client for an empty address, and is never read again (619) |
| `ClusterJobs`: `LeaderFails = TRUE`, `Faults = {"stray"}`, `Late = {}`, `MaxNodes = 2`, `NPieces = 1` | `OutputRight`, `TaskHasConnection` | a task of the leader that was replaced is handled in the connection of the next job |
| `Sharding`: without the premise on `sizes` in `AllBytesSharded` | `AllBytesSharded` | an offset beyond the field wraps (`mr.proto` 41) |

In `ClusterJobs` a worker that crashed and came back during a job is healthy again
for its old client, gets a task, and dies of the connection it does not have
(`UseNoConnection`): the job goes on without it, but the restart is wasted. And one
task that takes longer than 10 seconds may cost its worker: its own answer, or that of
a ping behind it, ends the server's loop (`LeaveLoop`).

Two more follow from the definitions. Four bytes for three mappers make two
shards, so the number of shards is not the number of mappers asked for. And the
client search compares the tasks ever sent to a client, while the comment above
it (981) speaks of the fewest requests at work.

## 5. Proofs

`tlapm XProofs.tla` checks the theorems about `X`, for all values of the
constants that satisfy the named assumptions of the module.

| Module | Theorems | Beyond the module's assumptions |
|---|---|---|
| `MapDispatchProofs` | `TypeCorrect`, `BlobsCorrect`; `TasksConserved`, `RpcsCounted`, `ReturnIsSafe`, `OffersCorrect`, `DispatchImplementsTaskPhase` | the second group: `EnoughMappers` (`NShards <= m_nmappers`), which `SafeReturn` needs, see the table above |
| `ReduceDispatchProofs` | `ReduceTypeCorrect`, `JobsConserved`, `WalkUndisturbed`, `DifferenceSafe`, `OutputComplete`, `ReduceImplementsTaskPhase` | none |
| `ClientPoolProofs` | `VerdictCorrect`, `WaiterCorrect`; `ChoiceCorrect` | the last: `Prompt`, as in `TimedSpec`; the others without it |
| `ShardingProofs` | `TilingCorrect`, `RemainderCorrect`, `SharesEqual`, `BytesReachWorkers` | of `calc_shard_sz` only `ShardSizeAssumption`; the last has the premise of `AllBytesSharded`, that sizes are below `OffsetLimit` |
| `LeaderElectionProofs` | `AtMostOneLeader`, `LeaderNodeCorrect`, `ElectionTypeCorrect` | none; `AnyTime` may be `TRUE` |
| `ReplicationProofs` | `ThreadStays`; `CheckpointsInOrder`, `CheckpointsGrow` | the last two: no garbage from freed memory |
| `WordBoundaryProofs` | `BytesKeptOnce`, `WordsCountedOnce` | none; the second has the premise of `WordsOnce` |
| `ClusterProofs` | `RegistryTypes`, `ClientsMatchRegistry`, `OneCallIsWaitedFor`; `RegisteredAreReached`; `ConnectionsCorrect`; `IntBlobsCorrect`, `OutputCorrect` | the fourth: no node is listed before its address is written (`EarlyReads = FALSE`); the fifth: no call is late or of a replaced leader (`Punctual`); the last two: `Undisturbed`, that is, storage and scripts work (`StorageFails = FALSE`), and there is one job, with every fault and takeover, or any number of jobs with `Punctual`. The properties fail without these conditions, see the table above |

The arguments:

* **Dispatch.** A task is in `job_q`, under way, in `responseList` or recorded,
  and these are four disjoint listings of all tasks (`OnePlace`). That is
  inductive only together with what every program counter knows: between `erase`
  and `nrpcs--` the counter is one too high; while the main thread walks, the
  response it stands on is not moved unless `stale` says so. From the counts,
  `nrpcs` equals calls plus responses, so the thread's test tells correctly
  whether more is to come, and at the return it does not: the thread may still be at
  that test, but has no call or response in its hands. For the reduce phase the walk begins only when all calls
  of the round are in the list, therefore nothing is pushed (`QuietCollect`), and
  the unsigned difference stays at or above 0.
* **Refinement.** The variables of `TaskPhase` are mapped from the result map and
  the program counter. Every step records one new result, ends the
  phase, or stutters.
* **Pool.** A client that is `PING_SUCCESS` has missed no ping. While the main thread
  searches, the heartbeat thread does not begin a round (`Prompt`), so at most the round
  under way can turn against the candidate: between the moment the scan passed it and
  now it missed one ping at most, and none if its ping of this round is still open.
* **Sharding.** Each piece begins where the previous one ended or at the start of
  the next blob, and `begin + rem_shard_sz = end` at the head of the loop. For the
  shards, the bytes of the pieces joined so far, the remainder and `shard_sz` add up,
  and the sum of a list is the difference of its last and first partial sums. An
  offset below `OffsetLimit` is not changed by `Wire`.
* **Election.** The one who created `/leader` was the smallest when it read the
  children, and nobody smaller registers later, as sequence numbers grow; the node
  is ephemeral, so it is gone when its owner is.
* **Replication.** `g_repl_list` is only appended to, and what was read of it, what
  is pushed and what the follower has are prefixes of it, each as long as the next at
  least. Hence a checkpoint is a prefix, and the next one is no shorter.
* **Word boundary.** `Stop(p)` is where a cut at byte `p` effectively lies. The
  head loop of the piece that begins at `p` and the tail loop of the piece that
  ends there both stop at `Stop(p)`, so a piece from `b` to `e` keeps the bytes
  from `Stop(b)` to `Stop(e)`, and these intervals tile the blob. For this the
  piece must not be shorter than `EXTRA_LEN`, unless it is the first or last one.
  With short runs between delimiters that condition goes, and `Stop(p)` is next to a
  delimiter: the words of a piece are exactly the words of the blob that lie between
  its two stops.
* **Registry.** `RegInv`: a process that has a node is the only one that has it and
  has written what is in it; no two clients are of one node; while `update_workers`
  runs, every node it has read has a client, and after its second loop the clients'
  nodes are those listed. The client of a node leads to the worker that has the
  node, since the node had its address when it was read.
* **Open calls.** `CallInv`: an open call is at one of five places of one worker (in
  its thread's hands, in the completion queue, or in line for a `CallData` of its
  kind). All open calls are of the phase and job at hand, no two are for one task,
  and the tasks of the phase are those to be sent, those over and those of the open
  calls. Each action moves calls between places, adds one for a task it takes from
  `todo`, or ends some and puts their tasks into `todo` or `results`. It needs
  `RegInv`, that a client leads to a worker, and `JobInv`, that a phase belongs to a
  request.
* **Connections.** `ConnInv`: without late calls and takeovers every call a worker has
  is open, thus of the current job. If a client leads to a worker that still has an
  older job's connection, then this client's `ExchangeInfo` is still to be sent or
  under way; it came through the client that leads to the worker, and is answered
  with the new connection made, or fails with the worker. At the end of the exchange
  phase no such worker is left, except one that no client leads to.
* **Data.** First, tasks are handled in the container of the current job and nothing
  is left of a job when the next one starts (`TasksHere`): with one job because all
  `ExchangeInfo` calls name one container (`SoloInv`), with several because of
  `ConnInv`. Then `DataInv` follows the data through the job:
  - an int blob of the job holds its piece (`BlobsTrue`), and a map task has written
    the blobs of the pieces and partitions it has gone through (`MapsTrue`). A blob's
    name has the worker, shard, piece and partition in it, so another attempt writes
    another blob, or the same data;
  - `m_IntblobList` names stored blobs only, and every piece of each of its shards once
    for each partition; the shards it names are the mapped ones (`ListTrue`). For a
    takeover the blobs of one shard must stay next to each other (`InBlocks`): the
    checkpoint is cut between shards. An answer that counts is for a shard that is not
    in the list, which is `CallInv`;
  - every reduce call, open or not, and whichever leader made it, names all pieces of
    the input in stored blobs (`FedInv`). It holds for calls in the queues, too, so
    none can be lost or changed on its way; a leader that was replaced while it
    reduced had a complete list;
  - what a reduce task has in its file are the pieces of the blobs it has read
    (`ReducesTrue`), hence every out blob of the job holds exactly the input
    (`OutHolds`), and a partition that counts as reduced has one (`OutThere`).

  The output of an earlier job stays, as blobs are written to the current job's
  container only and a request removes those of its own. A second attempt at a
  reduce task, a stray one after the answer included, replaces an out blob by an
  equal one.

Facts about recursive functions (`Sublist`, the sums and words of lists) are proved
without an induction theorem: a set of naturals has a least element, so if the fact
failed there would be a least index where it does, and it would fail before.

`DataInv` was model-checked on the instances of `Cluster` and `ClusterJobs` before it
was proved.

Only model-checked: everything about liveness, in `Replication` and `ClientPool` too
the properties about what happens eventually. All invariants of the passing runs are
proved.

## 6. What is not modelled

* A worker that loses its ZooKeeper session and keeps running. It would lose its client
  at the next job.
* New requests to a leader whose session has expired: of such a leader `Cluster` has
  the tasks of the job it was at.
* Reduce results in a checkpoint: the code offers none.
* What `reduce.py` computes; it keeps no state.
* The Azure SDK, gRPC and ZooKeeper beyond what the code uses of them: uploads are
  atomic, calls of one kind from one master arrive in order, ephemeral nodes vanish
  with their sessions, watches fire once.
* `src/w6`, HTTP parsing and texts, logging, deployment.

## 7. Next steps

1. `ClientPool` composed with `MapDispatch`: tasks that fail because the chosen
   client died after its last ping.
2. `LeaderElection` composed with `Replication`: takeovers by any of several
   followers.
