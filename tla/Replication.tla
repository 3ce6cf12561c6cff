------------------------------ MODULE Replication ------------------------------
(***************************************************************************)
(* The leader's checkpoints.  The thread repl_clt_thd (start_repl_client)  *)
(* serialises the state of the current job and pushes it to one follower,  *)
(* then waits on g_repl_cond_ until a completed map task is offered.  The  *)
(* follower replaces its state by each checkpoint and works from the last  *)
(* one when it becomes the leader (processReplicatedData).                 *)
(*                                                                         *)
(* A result stands for its blobs: job is the job it was computed for, 0 if *)
(* the bytes are garbage.  How results are found is MapDispatch's concern, *)
(* how a leader is elected LeaderElection's.                               *)
(***************************************************************************)
EXTENDS Lists

CONSTANTS
    NShards,
    MaxJobs,          \* bound: jobs that are posted
    FollowerAtStart,  \* a second master is registered before the first job
    FreedReads,       \* what reading a vector that has moved gives
    SecondChild       \* whom children.at(1), of an unsorted list, may name

ASSUME ReplicationAssumption ==
    /\ NShards \in Nat
    /\ MaxJobs \in Nat
    /\ FollowerAtStart \in BOOLEAN
    /\ FreedReads \subseteq {"intact", "garbage", "crash"}
    /\ SecondChild \subseteq {"follower", "self"}

Shards == 0..NShards - 1
JobIds == 1..MaxJobs

VARIABLES
    lpc,            \* the leader's main thread
    m_rid,          \* 0 before the first job
    m_shards,       \* the job whose shards m_shards holds, 0 if it is empty
    late,           \* a failed leader's completion thread is past its last test
    g_repl_list,
    g_repl_data,
    m_stop_repl_as_leader,
    rpc,            \* the thread repl_clt_thd
    target,         \* to whom it pushes
    toRead,         \* the end of g_repl_list when serialize_data began to read it
    moved,          \* g_repl_list has been moved since
    msg,            \* the checkpoint to push
    fpc,            \* the follower
    chk             \* the follower's state, from its last checkpoint

listVars == <<g_repl_list, g_repl_data>>
threadVars == <<rpc, target, toRead, moved, msg>>
followerVars == <<fpc, chk>>
vars == <<lpc, m_rid, m_shards, late, m_stop_repl_as_leader, listVars, threadVars, followerVars>>

NoData == [rid |-> 0, shards |-> 0, list |-> <<>>]

\* Mutant: nothing to push at first.
NoDataAtFirst == FALSE

\* bool g_repl_data = true;
DataAtFirst == TRUE

Init ==
    /\ lpc = "idle"
    /\ m_rid = 0
    /\ m_shards = 0
    /\ late = FALSE
    /\ g_repl_list = <<>>
    /\ g_repl_data = DataAtFirst
    /\ m_stop_repl_as_leader = FALSE
    /\ rpc = "none"
    /\ target = "follower"
    /\ toRead = 0
    /\ moved = FALSE
    /\ msg = NoData
    /\ fpc = IF FollowerAtStart THEN "following" ELSE "absent"
    /\ chk = NoData

--------------------------------------------------------------------------------
(* The leader.                                                                *)

\* A job is posted: set_requestid and the other parameters, then m_shards.clear().
Request ==
    /\ lpc = "idle"
    /\ m_rid < MaxJobs
    /\ m_rid' = m_rid + 1
    /\ m_shards' = 0
    /\ lpc' = "sharding"
    /\ UNCHANGED <<late, m_stop_repl_as_leader, listVars, threadVars, followerVars>>

\* doesReplMasterExists: /masters has more than one child.
doesReplMasterExists == fpc # "absent"

\* create_sharding_data fills m_shards and, if there is a second master, starts the
\* replication thread.  To assign to a thread object that is still joinable, as it
\* is after the first job, terminates the process.
StartClient ==
    /\ lpc = "sharding"
    /\ m_shards' = m_rid
    /\ \/ ~doesReplMasterExists /\ lpc' = "mapping" /\ UNCHANGED rpc
       \/ doesReplMasterExists /\ rpc = "none" /\ lpc' = "mapping" /\ rpc' = "start"
       \/ doesReplMasterExists /\ rpc # "none" /\ lpc' = "terminated" /\ UNCHANGED rpc
    /\ UNCHANGED <<m_rid, late, m_stop_repl_as_leader, listVars, target, toRead, moved, msg, followerVars>>

\* The shards of the current job that have a result.
Offered == {r.shardId : r \in {x \in Elements(g_repl_list) : x.job = m_rid}}

\* A vector moves when it grows beyond its capacity, which doubles (8 is more than
\* the bounds let it reach).
Moves == Len(g_repl_list) \in {0, 1, 2, 4, 8}

\* AsyncCompleteMapRpc adds a result and notifies, under g_repl_mtx_.  serialize_data
\* does not take that mutex.
Offer(s) ==
    /\ lpc = "mapping" \/ (lpc = "failed" /\ late)
    /\ s \notin Offered
    /\ g_repl_list' = Append(g_repl_list, [shardId |-> s, job |-> m_rid])
    /\ g_repl_data' = TRUE
    /\ moved' = (moved \/ (rpc = "read" /\ Moves))
    /\ late' = FALSE
    /\ UNCHANGED <<lpc, m_rid, m_shards, m_stop_repl_as_leader, rpc, target, toRead, msg, followerVars>>

\* The map phase has every result, the reduce phase follows, the job is answered.
\* Nothing of this is offered, and g_repl_list is not cleared.
EndJob ==
    /\ lpc = "mapping"
    /\ Offered = Shards
    /\ lpc' = "idle"
    /\ UNCHANGED <<m_rid, m_shards, late, m_stop_repl_as_leader, listVars, threadVars, followerVars>>

\* enter_fail_state: the master gives up its place and sleeps.
Fail ==
    /\ lpc = "mapping"
    /\ lpc' = "failed"
    /\ m_stop_repl_as_leader' = TRUE
    /\ late' \in BOOLEAN
    /\ UNCHANGED <<m_rid, m_shards, listVars, threadVars, followerVars>>

\* The leader's process dies.
Die ==
    /\ lpc \notin {"dead", "terminated"}
    /\ lpc' = "dead"
    /\ UNCHANGED <<m_rid, m_shards, late, m_stop_repl_as_leader, listVars, threadVars, followerVars>>

--------------------------------------------------------------------------------
(* The thread repl_clt_thd.                                                   *)

Alive == lpc \notin {"dead", "terminated"}

\* start_repl_client, unless the master has failed, looks up the other master.
Lookup ==
    /\ rpc = "start"
    /\ IF m_stop_repl_as_leader
       THEN rpc' = "ended" /\ UNCHANGED target
       ELSE rpc' = "test" /\ target' \in SecondChild
    /\ UNCHANGED <<lpc, m_rid, m_shards, late, m_stop_repl_as_leader, listVars, toRead, moved, msg, followerVars>>

\* while (!repldone && g_repl_data); serialize_data takes the ends of g_repl_list.
Test ==
    /\ rpc = "test"
    /\ rpc' = IF m_stop_repl_as_leader \/ ~g_repl_data THEN "ended" ELSE "read"
    /\ toRead' = Len(g_repl_list)
    /\ moved' = FALSE
    /\ UNCHANGED <<lpc, m_rid, m_shards, late, m_stop_repl_as_leader, listVars, target, msg, followerVars>>

\* Mutant: only the latest result is sent.
ReadLatest == IF toRead = 0 THEN <<>> ELSE <<g_repl_list[toRead]>>

\* Mutant: the loop starts at the second result.
ReadFromSecond == SubSeq(g_repl_list, 2, toRead)

\* The results between the ends taken above.
ReadList == SubSeq(g_repl_list, 1, toRead)

\* The allocator has written over the first bytes, which hold the shard id of the
\* first result.
Overwritten == {[ReadList EXCEPT ![1] = [shardId |-> s, job |-> 0]] : s \in Shards}

\* The rest of serialize_data.  A list that has moved was read from freed memory.
Serialize ==
    /\ rpc = "read"
    /\ \/ /\ moved /\ toRead > 0 => "intact" \in FreedReads
          /\ msg' = [rid |-> m_rid, shards |-> m_shards, list |-> ReadList]
          /\ rpc' = "push"
          /\ UNCHANGED lpc
       \/ /\ moved /\ toRead > 0 /\ "garbage" \in FreedReads
          /\ \E list \in Overwritten :
                msg' = [rid |-> m_rid, shards |-> m_shards, list |-> list]
          /\ rpc' = "push"
          /\ UNCHANGED lpc
       \/ /\ moved /\ toRead > 0 /\ "crash" \in FreedReads
          /\ lpc' = "dead"
          /\ UNCHANGED <<rpc, msg>>
    /\ UNCHANGED <<m_rid, m_shards, late, m_stop_repl_as_leader, listVars, target, toRead, moved, followerVars>>

\* The call fails: the other side has no replication server (any more).
PushFails ==
    /\ rpc = "push"
    /\ target = "self" \/ fpc # "following"
    /\ rpc' = "lock"
    /\ UNCHANGED <<lpc, m_rid, m_shards, late, m_stop_repl_as_leader, listVars, target, toRead, moved, msg, followerVars>>

\* Under g_repl_mtx_: g_repl_data = false, then wait.
Lock ==
    /\ rpc = "lock"
    /\ g_repl_data' = FALSE
    /\ rpc' = "wait"
    /\ UNCHANGED <<lpc, m_rid, m_shards, late, m_stop_repl_as_leader, g_repl_list, target, toRead, moved, msg, followerVars>>

\* Mutant: the wait is for the wrong flag.
WokenByStop == m_stop_repl_as_leader

\* The predicate of the wait.
Woken == g_repl_data

WakeUp ==
    /\ rpc = "wait"
    /\ Woken
    /\ rpc' = "test"
    /\ UNCHANGED <<lpc, m_rid, m_shards, late, m_stop_repl_as_leader, listVars, target, toRead, moved, msg, followerVars>>

--------------------------------------------------------------------------------
(* The follower.                                                              *)

\* A second master registers.
Register ==
    /\ fpc = "absent"
    /\ fpc' = "registered"
    /\ UNCHANGED <<lpc, m_rid, m_shards, late, m_stop_repl_as_leader, listVars, threadVars, chk>>

\* It finds that there is a leader and starts its replication server.
StartServer ==
    /\ fpc = "registered"
    /\ fpc' = "following"
    /\ UNCHANGED <<lpc, m_rid, m_shards, late, m_stop_repl_as_leader, listVars, threadVars, chk>>

\* pushCheckPointData: deserialize_data replaces everything, m_bReplicated = true.
\* A call on its way is answered even if its sender has died.
Deliver ==
    /\ rpc = "push"
    /\ target = "follower"
    /\ fpc = "following"
    /\ chk' = msg
    /\ rpc' = "lock"
    /\ UNCHANGED <<lpc, m_rid, m_shards, late, m_stop_repl_as_leader, listVars, target, toRead, moved, msg, fpc>>

\* The leader is gone, the follower is elected, stops its replication server and, if
\* it has a checkpoint, works on.
TakeOver ==
    /\ fpc = "following"
    /\ lpc \in {"failed", "dead", "terminated"}
    /\ fpc' = "leading"
    /\ UNCHANGED <<lpc, m_rid, m_shards, late, m_stop_repl_as_leader, listVars, threadVars, chk>>

Thread == Alive /\ (Lookup \/ Test \/ Serialize \/ PushFails \/ Lock \/ WakeUp)

Next ==
    \/ Request \/ StartClient \/ (\E s \in Shards : Offer(s)) \/ EndJob \/ Fail \/ Die
    \/ Thread
    \/ Register \/ StartServer \/ Deliver \/ TakeOver

Spec == Init /\ [][Next]_vars

\* The threads are scheduled, tasks get done and calls end.
FairSpec ==
    /\ Spec
    /\ WF_vars(StartClient)
    /\ WF_vars(\E s \in Shards : Offer(s))
    /\ WF_vars(Thread \/ Deliver)

--------------------------------------------------------------------------------
(* The follower's maps, from the list it received.                            *)

\* m_IntermediateResultMap.emplace keeps the first result of a shard.
Kept == {i \in DOMAIN chk.list : \A j \in 1..i - 1 : chk.list[j].shardId # chk.list[i].shardId}
m_IntermediateResultMap == {chk.list[i] : i \in Kept}
Recorded == {r.shardId : r \in m_IntermediateResultMap}

\* The follower's results are the first ones that were offered, each once and in the
\* order of the offers, however the push raced with further offers: what a successor
\* works from is a state its leader has been in.
CheckpointInOrder ==
    /\ Len(chk.list) <= Len(g_repl_list)
    /\ \A i \in DOMAIN chk.list : chk.list[i] = g_repl_list[i]

\* A later checkpoint never takes a result away from the follower.
CheckpointGrows == [][Recorded \subseteq Recorded']_vars

\* The replication thread ends only because the leader was put into its fail state.
ReplicationNeverStops == rpc = "ended" => m_stop_repl_as_leader

Stopped == lpc \in {"failed", "dead", "terminated"}

\* A leader that starts a job while a follower serves informs the follower of it.
FollowerInformed == (rpc = "start" /\ fpc = "following") ~> (chk.rid # 0 \/ Stopped)

\* What is offered while the replication thread waits reaches a serving follower, also
\* in a second job.
NewsIsPushed ==
    \A r \in [shardId : Shards, job : JobIds] :
        (rpc = "wait" /\ g_repl_data /\ r \in Elements(g_repl_list) /\ fpc = "following") ~>
            (r \in Elements(chk.list) \/ Stopped)

\* Every completed map task reaches the follower.
AllReplicated ==
    \A s \in Shards :
        (rpc # "none" /\ s \in Offered) ~> (s \in Recorded \/ Stopped)
================================================================================
