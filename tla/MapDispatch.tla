------------------------------ MODULE MapDispatch ------------------------------
(***************************************************************************)
(* The map phase of a job: Master::dispatchMapTasks on the main thread and *)
(* AsyncCompleteMapRpc on the thread m_t1, entered from runMapper (a fresh *)
(* job) or from processReplicatedData (a new leader that takes over the    *)
(* shards its checkpoint has no result for).                               *)
(*                                                                         *)
(* The two threads share the locals of dispatchMapTasks: the vector        *)
(* responseList, whose changes g_response_mtx_ protects and whose reads it *)
(* does not, the counter nrpcs, and the completion queue cq; and the       *)
(* member m_map_done.                                                      *)
(*                                                                         *)
(* A task is its shard id.  Which worker runs it is ClientPool's concern:  *)
(* here an invoked task is a call that ends, with a result or with an      *)
(* error (the worker is down, or the 10 second deadline passed).           *)
(***************************************************************************)
EXTENDS Lists

CONSTANTS
    NShards,      \* m_shards.size()
    m_nmappers,   \* the number of results dispatchMapTasks waits for
    MaxRpcs,      \* the 10 of "if (nrpcs > 10)"
    Checkpoints,  \* possible keys of m_IntermediateResultMap on entry
    FailAfter,    \* m_until_fail on entry; 0: m_will_fail is false
    MaxFailures   \* bound: calls that end with an error

ASSUME DispatchAssumption ==
    /\ NShards \in Nat
    /\ m_nmappers \in Nat
    /\ MaxRpcs \in Nat
    /\ Checkpoints \subseteq SUBSET (0..NShards - 1)
    /\ FailAfter \in Nat
    /\ MaxFailures \in Nat

\* getShardId numbers the shards from 0, so an id is its index in m_shards.
Shards == 0..NShards - 1

VARIABLES
    pc,            \* main thread
    job_q,         \* shards to send
    nrpcs,
    calls,         \* the calls started on cq and not yet taken from it
    ncalls,        \* names the call objects
    responseList,
    capacity,      \* responseList.capacity()
    stale,         \* itr points into a buffer responseList has given up
    results,       \* the keys of m_IntermediateResultMap
    m_IntblobList, \* whose intermediate blobs, in order
    m_map_done,
    m_until_fail,
    tpc,           \* completion thread
    got,           \* the result the completion thread works on
    g_repl_list,   \* the results offered for replication
    failures       \* calls that ended with an error

mainVars == <<job_q, nrpcs, ncalls, results, m_IntblobList, m_until_fail>>
listVars == <<responseList, capacity, stale>>
threadVars == <<tpc, got, g_repl_list, failures>>
vars == <<pc, mainVars, calls, listVars, m_map_done, threadVars>>

Result == [shardId : Shards, ok : BOOLEAN]

\* The shards of a list of results.
ShardIds(list) == [i \in DOMAIN list |-> list[i].shardId]

--------------------------------------------------------------------------------
(* runMapper starts with no results and every shard in job_q;                 *)
(* processReplicatedData with the results of the checkpoint, whose blobs      *)
(* deserialize_data listed in the order of their completion, and the shards   *)
(* that have none, in order.  The thread m_t1 is created.                     *)
Init ==
    /\ \E done \in Checkpoints :
          /\ results = done
          /\ m_IntblobList \in Listings(done)
          /\ job_q \in Listings(Shards \ done)
          /\ Sorted(job_q)
    /\ pc = "dispatch"
    /\ nrpcs = 0
    /\ calls = {}
    /\ ncalls = 0
    /\ responseList = <<>>
    /\ capacity = 0
    /\ stale = FALSE
    /\ m_map_done = FALSE
    /\ m_until_fail = FailAfter
    /\ tpc = "test"
    /\ got = [shardId |-> 0, ok |-> FALSE]
    /\ g_repl_list = <<>>
    /\ failures = 0

--------------------------------------------------------------------------------
(* The main thread.                                                           *)

\* if (nrpcs > 10) break;
CanSend == ~(nrpcs > MaxRpcs)

\* Send the task at the head of job_q, unless too many are under way.
InvokeTask ==
    /\ pc = "dispatch"
    /\ job_q # <<>>
    /\ CanSend
    /\ calls' = calls \cup {[id |-> ncalls, shardId |-> Head(job_q)]}
    /\ ncalls' = ncalls + 1
    /\ pc' = "invoked"
    /\ UNCHANGED <<job_q, nrpcs, results, m_IntblobList, m_until_fail, listVars, m_map_done, threadVars>>

\* The countdown of a master told to fail ends with this task.
Fails == FailAfter # 0 /\ m_until_fail <= 1

\* task_assigned_check_fail and, through it, enter_fail_state: the main thread
\* stops the completion thread, leaves ZooKeeper and sleeps for ever.
CheckFail ==
    /\ m_until_fail' = IF FailAfter = 0 THEN m_until_fail ELSE m_until_fail - 1
    /\ pc' = IF Fails THEN "failed" ELSE "dispatch"
    /\ m_map_done' = IF Fails THEN TRUE ELSE m_map_done

\* Count the task and take it off the queue.
CountTask ==
    /\ pc = "invoked"
    /\ nrpcs' = nrpcs + 1
    /\ job_q' = Tail(job_q)
    /\ CheckFail
    /\ UNCHANGED <<calls, ncalls, results, m_IntblobList, listVars, threadVars>>

\* Nothing (more) to send now: spin until a response is there.
AllSent ==
    /\ pc = "dispatch"
    /\ job_q = <<>> \/ ~CanSend
    /\ pc' = "spin"
    /\ UNCHANGED <<mainVars, calls, listVars, m_map_done, threadVars>>

\* while (responseList.size() == 0); ends, itr = responseList.begin().
SeeResponse ==
    /\ pc = "spin"
    /\ responseList # <<>>
    /\ stale' = FALSE
    /\ pc' = "collect"
    /\ UNCHANGED <<mainVars, calls, responseList, capacity, m_map_done, threadVars>>

\* Mutant: shards numbered from 1 in one place and from 0 in the other.
RecordNextKey(s) ==
    /\ results' = results \cup {s + 1}
    /\ m_IntblobList' = Append(m_IntblobList, s)

\* A result is recorded, with its blobs, unless its shard has one.
RecordResult(s) ==
    IF s \in results
    THEN UNCHANGED <<results, m_IntblobList>>
    ELSE /\ results' = results \cup {s}
         /\ m_IntblobList' = Append(m_IntblobList, s)

\* Mutant: a failed task is forgotten.
RequeueNothing(s) == UNCHANGED job_q

\* The task of a failed call is queued again.
Requeue(s) == job_q' = Append(job_q, s)

\* Take the response at itr: record it, or queue its shard again; then erase it.
\* Every response is erased, so itr always is at the front.  Only this thread uses what
\* it records, so a push before the erase is one before the step; a push that moves
\* the list makes itr stale either way.
CollectResponse ==
    /\ pc = "collect"
    /\ ~stale
    /\ responseList # <<>>
    /\ LET res == Head(responseList) IN
         IF res.ok
         THEN RecordResult(res.shardId) /\ UNCHANGED job_q
         ELSE Requeue(res.shardId) /\ UNCHANGED <<results, m_IntblobList>>
    /\ responseList' = Tail(responseList)
    /\ pc' = "erased"
    /\ UNCHANGED <<nrpcs, calls, ncalls, m_until_fail, capacity, stale, m_map_done, threadVars>>

\* Mutant: the erased response still counts.
CountDownForgotten ==
    /\ pc = "erased"
    /\ pc' = "collect"
    /\ UNCHANGED <<mainVars, calls, listVars, m_map_done, threadVars>>

\* The erased response no longer counts.
CountDown ==
    /\ pc = "erased"
    /\ nrpcs' = nrpcs - 1
    /\ pc' = "collect"
    /\ UNCHANGED <<job_q, ncalls, results, m_IntblobList, m_until_fail, calls, listVars, m_map_done, threadVars>>

\* itr points into freed memory: reading and erasing through it is undefined.  erase
\* gives back the place it was given, so itr never gets to the new list's end() and
\* the loop, which sends nothing and does not end the phase, ends only with the process:
\* what is read there, a wrong or repeated shard or an emptied blobList, goes no further.
UseStaleIterator ==
    /\ pc = "collect"
    /\ stale
    /\ pc' = "crashed"
    /\ UNCHANGED <<mainVars, calls, listVars, m_map_done, threadVars>>

\* Mutant: one result short.
AllDoneEarly == Cardinality(results) >= m_nmappers - 1

\* if (m_IntermediateResultMap.size() == m_nmappers) break;
AllDone == Cardinality(results) = m_nmappers

\* itr has reached the end: another round, or the end of the phase.
EndCollect ==
    /\ pc = "collect"
    /\ ~stale
    /\ responseList = <<>>
    /\ IF AllDone
       THEN pc' = "clear" /\ m_map_done' = TRUE
       ELSE pc' = "dispatch" /\ UNCHANGED m_map_done
    /\ UNCHANGED <<mainVars, calls, listVars, threadVars>>

\* responseList.clear() and the return, which destroys responseList, nrpcs, cq.
Return ==
    /\ pc = "clear"
    /\ responseList' = <<>>
    /\ pc' = "returned"
    /\ UNCHANGED <<mainVars, calls, capacity, stale, m_map_done, threadVars>>

Main ==
    \/ InvokeTask \/ CountTask \/ AllSent \/ SeeResponse
    \/ CollectResponse \/ CountDown \/ UseStaleIterator
    \/ EndCollect \/ Return

--------------------------------------------------------------------------------
(* The completion thread.                                                     *)

\* while (!done)
TestDone ==
    /\ tpc = "test"
    /\ tpc' = IF m_map_done THEN "ended" ELSE "count"
    /\ UNCHANGED <<pc, mainVars, calls, listVars, m_map_done, got, g_repl_list, failures>>

\* Mutant: off by one.
MoreThanOneToCome == nrpcs > Len(responseList) + 1

\* nrpcs > resList.size()
MoreToCome == nrpcs > Len(responseList)

\* Wait for a call only if one is under way.
CompareCount ==
    /\ tpc = "count"
    /\ pc # "returned"
    /\ tpc' = IF MoreToCome THEN "next" ELSE "test"
    /\ UNCHANGED <<pc, mainVars, calls, listVars, m_map_done, got, g_repl_list, failures>>

\* The thread tests the locals of a function that has returned, or pushes into its
\* list: undefined.  The garbage there may fail the test; else the process crashes.
UseDeadLocals ==
    /\ pc = "returned"
    /\ tpc \in {"count", "push"}
    /\ \/ tpc = "count" /\ tpc' = "test" /\ UNCHANGED pc
       \/ pc' = "crashed" /\ UNCHANGED tpc
    /\ UNCHANGED <<mainVars, calls, listVars, m_map_done, got, g_repl_list, failures>>

\* cq.Next returns the next call that has ended, in any order.
TakeCall(c) ==
    /\ tpc = "next"
    /\ \E ok \in BOOLEAN :
          /\ ok \/ failures < MaxFailures
          /\ got' = [shardId |-> c.shardId, ok |-> ok]
          /\ failures' = IF ok THEN failures ELSE failures + 1
    /\ calls' = calls \ {c}
    /\ tpc' = "push"
    /\ UNCHANGED <<pc, mainVars, listVars, m_map_done, g_repl_list>>

\* cq.Next returns false: the queue was destroyed and holds no more calls.
QueueShutdown ==
    /\ tpc = "next"
    /\ pc = "returned"
    /\ calls = {}
    /\ tpc' = "ended"
    /\ UNCHANGED <<pc, mainVars, calls, listVars, m_map_done, got, g_repl_list, failures>>

\* A full vector moves to a buffer of twice the size.
Grown == IF capacity = 0 THEN 1 ELSE 2 * capacity

\* Mutant: failed results are offered as well.
AlwaysOffer == "repl"

\* Only a result is offered for replication.
AfterPush == IF got.ok THEN "repl" ELSE "test"

\* resList.emplace_back under g_response_mtx_.  When it moves the vector while
\* the main thread holds an iterator, the iterator is stale.
PushResponse ==
    /\ tpc = "push"
    /\ pc # "returned"
    /\ LET full == Len(responseList) = capacity IN
         /\ capacity' = IF full THEN Grown ELSE capacity
         /\ stale' = (stale \/ (full /\ pc \in {"collect", "erased"}))
    /\ responseList' = Append(responseList, got)
    /\ tpc' = AfterPush
    /\ UNCHANGED <<pc, mainVars, calls, m_map_done, got, g_repl_list, failures>>

\* Under g_repl_mtx_, offer the result for replication.
OfferResult ==
    /\ tpc = "repl"
    /\ g_repl_list' = Append(g_repl_list, got.shardId)
    /\ tpc' = "test"
    /\ UNCHANGED <<pc, mainVars, calls, listVars, m_map_done, got, failures>>

Thread ==
    /\ pc # "crashed"
    /\ \/ TestDone \/ CompareCount \/ UseDeadLocals
       \/ \E c \in calls : TakeCall(c)
       \/ QueueShutdown \/ PushResponse \/ OfferResult

\* The phase is over; a failed master sleeps, a crashed one is gone.
Over ==
    /\ pc \in {"failed", "crashed", "returned"}
    /\ pc = "returned" => tpc = "ended"
    /\ UNCHANGED vars

Next == Main \/ Thread \/ Over

Spec == Init /\ [][Next]_vars

\* Both threads are scheduled, and gRPC ends every call by its deadline.
FairSpec == Spec /\ WF_vars(Main) /\ WF_vars(Thread)

--------------------------------------------------------------------------------
\* Every variable has the type of its C++ counterpart; shard ids stay in range.
TypeOK ==
    /\ pc \in {"dispatch", "invoked", "spin", "collect", "erased", "clear",
               "returned", "failed", "crashed"}
    /\ job_q \in Seq(Shards)
    /\ nrpcs \in Int
    /\ calls \subseteq [id : 0..ncalls - 1, shardId : Shards]
    /\ ncalls \in Nat
    /\ responseList \in Seq(Result)
    /\ capacity \in Nat
    /\ stale \in BOOLEAN
    /\ results \subseteq Shards
    /\ m_IntblobList \in Seq(Shards)
    /\ m_map_done \in BOOLEAN
    /\ m_until_fail \in Int
    /\ tpc \in {"test", "count", "next", "push", "repl", "ended"}
    /\ got \in [shardId : Nat, ok : BOOLEAN]
    /\ g_repl_list \in Seq(Shards)
    /\ failures \in 0..MaxFailures

\* Where a shard can be: still to be sent (the head of job_q is both sent and
\* queued between invokeMapTaskAsync and job_q.pop()), ...
Waiting == Elements(IF pc = "invoked" THEN Tail(job_q) ELSE job_q)
\* ... in a call, ...
Called == {c.shardId : c \in calls}
\* ... with the completion thread, ...
Held == IF tpc = "push" THEN {got.shardId} ELSE {}
\* ... in responseList, or in results.
Answered == Elements(ShardIds(responseList))

\* No task is lost between the two threads: whatever the interleaving, every shard
\* is queued, in a call, with the completion thread, answered or recorded.
NoTaskLost == Waiting \cup Called \cup Held \cup Answered \cup results = Shards

\* No task is in two places or twice in one, so no shard is mapped again while its
\* first call is under way or once it has a result.
NoTaskTwice ==
    /\ Waiting \cap (Called \cup Held \cup Answered \cup results) = {}
    /\ Called \cap (Held \cup Answered \cup results) = {}
    /\ Held \cap (Answered \cup results) = {}
    /\ Answered \cap results = {}
    /\ Distinct(job_q)
    /\ \A c, d \in calls : c # d => c.shardId # d.shardId
    /\ Distinct(ShardIds(responseList))

\* Every task is in exactly one place.
OnePlace == NoTaskLost /\ NoTaskTwice

\* nrpcs counts the tasks sent and not yet erased from responseList, but for the
\* two windows in which the main thread is about to correct it.  The completion
\* thread relies on it: were nrpcs too small, it would never wait for a call.
NrpcsExact ==
    nrpcs = Cardinality(calls) + (IF tpc = "push" THEN 1 ELSE 0) + Len(responseList)
              + (IF pc = "erased" THEN 1 ELSE 0) - (IF pc = "invoked" THEN 1 ELSE 0)

\* At most MaxRpcs + 1 tasks are under way: the test is nrpcs > 10 before sending.
RpcLimit == Cardinality(calls) <= MaxRpcs + 1

\* dispatchMapTasks returns only when every shard has a result and nothing is left
\* behind: no queued task, no call on the queue it destroys, no response ("should
\* already be clear"), and no push into the vector it destroys.
SafeReturn ==
    pc \in {"clear", "returned"} =>
        /\ results = Shards
        /\ job_q = <<>>
        /\ calls = {}
        /\ responseList = <<>>
        /\ tpc # "push"

\* The reduce phase reads every shard's blobs exactly once: m_IntblobList lists
\* the recorded shards without repetition.
BlobsOfResults ==
    /\ Elements(m_IntblobList) = results
    /\ Distinct(m_IntblobList)

\* The main thread has, or will find, a result of the shard.
HasResult(s) == s \in results \/ \E r \in Elements(responseList) : r.ok /\ r.shardId = s

\* A follower that takes over trusts what was offered for replication: each result
\* is offered at most once, and only when the main thread has it or will find it.
OfferedOnce ==
    /\ Distinct(g_repl_list)
    /\ \A s \in Elements(g_repl_list) : HasResult(s)

\* dispatchMapTasks implements the promise of TaskPhase.
Phase ==
    CASE pc \in {"clear", "returned"} -> "finished"
      [] pc \in {"failed", "crashed"} -> "abandoned"
      [] OTHER -> "running"

Abstract == INSTANCE TaskPhase WITH Tasks <- Shards, recorded <- results, phase <- Phase

ImplementsTaskPhase == Abstract!Spec

\* The map phase ends: failed tasks are sent again, the two threads never wait for
\* each other for ever, and the completion thread ends after dispatchMapTasks has
\* returned, even when it waits in cq.Next with no call under way, so that
\* m_t1.join() returns (the master may fail or crash instead).
PhaseEnds == <>(pc \in {"failed", "crashed"} \/ (pc = "returned" /\ tpc = "ended"))

\* workshop9.md: the new leader performs the remaining map tasks and then the
\* reduce tasks, so its map phase ends, whatever the checkpoint holds.
TakeoverEnds == PhaseEnds
================================================================================
