----------------------------- MODULE ReduceDispatch -----------------------------
(***************************************************************************)
(* The reduce phase of a job: Master::runReducer and dispatchReduceTasks   *)
(* on the main thread, AsyncCompleteReduceRpc on the thread m_r1.          *)
(*                                                                         *)
(* Unlike the map phase it works in rounds: the main thread sends what it  *)
(* may, waits until as many responses as calls are there, and only then    *)
(* looks at them.  Successful responses stay in responseList and stay      *)
(* counted in nrpcs.  The flag done, like responseList, nrpcs and cq, is a *)
(* local that both threads use and the return destroys.                    *)
(*                                                                         *)
(* A job is the number of its partition.  Which client runs it is          *)
(* ClientPool's concern.                                                   *)
(***************************************************************************)
EXTENDS Lists

CONSTANTS
    m_nreducers,
    NClients,     \* m_Clients.size()
    FailAfter,    \* m_until_fail on entry; 0: m_will_fail is false
    MaxFailures   \* bound: calls that end with an error

ASSUME ReduceAssumption ==
    /\ m_nreducers \in Nat
    /\ NClients \in Nat
    /\ FailAfter \in Nat
    /\ MaxFailures \in Nat

Jobs == 0..m_nreducers - 1

VARIABLES
    pc,            \* main thread
    job_q,
    nrpcs,
    calls,         \* the calls started on cq and not yet taken from it
    ncalls,        \* names the call objects
    responseList,
    itr,           \* an index into responseList
    done,
    outputs,       \* the keys of m_OutputResultMap
    m_until_fail,
    tpc,           \* completion thread
    got,           \* the result the completion thread works on
    failures       \* calls that ended with an error

threadVars == <<tpc, got, failures>>
vars == <<pc, job_q, nrpcs, calls, ncalls, responseList, itr, done, outputs, m_until_fail, threadVars>>

Result == [jobid : Jobs, ok : BOOLEAN]

--------------------------------------------------------------------------------
(* The main thread.                                                           *)

\* runReducer queues every partition, on a new leader too.
AllJobs == [i \in 1..m_nreducers |-> i - 1]

Init ==
    /\ pc = "dispatch"
    /\ job_q = AllJobs
    /\ nrpcs = 0
    /\ calls = {}
    /\ ncalls = 0
    /\ responseList = <<>>
    /\ itr = 1
    /\ done = FALSE
    /\ outputs = {}
    /\ m_until_fail = FailAfter
    /\ tpc = "test"
    /\ got = [jobid |-> 0, ok |-> FALSE]
    /\ failures = 0

\* if (nrpcs - responseList.size() > m_Clients.size()) break;
\* The difference is taken in size_t; NoUnderflow says that it never wraps.
CanSend == ~(nrpcs - Len(responseList) > NClients)

\* Send the job at the head of job_q, unless too many are under way.
InvokeTask ==
    /\ pc = "dispatch"
    /\ job_q # <<>>
    /\ CanSend
    /\ calls' = calls \cup {[id |-> ncalls, jobid |-> Head(job_q)]}
    /\ ncalls' = ncalls + 1
    /\ pc' = "invoked"
    /\ UNCHANGED <<job_q, nrpcs, responseList, itr, done, outputs, m_until_fail, threadVars>>

\* task_assigned_check_fail will enter the fail state.
Fails == FailAfter # 0 /\ m_until_fail - 1 <= 0

\* Count the call; unless the master fails here, take the job off the queue.  A
\* master that fails sleeps for ever; its completion thread is not stopped.
CountTask ==
    /\ pc = "invoked"
    /\ nrpcs' = nrpcs + 1
    /\ m_until_fail' = IF FailAfter = 0 THEN m_until_fail ELSE m_until_fail - 1
    /\ IF Fails
       THEN pc' = "failed" /\ UNCHANGED job_q
       ELSE pc' = "dispatch" /\ job_q' = Tail(job_q)
    /\ UNCHANGED <<calls, ncalls, responseList, itr, done, outputs, threadVars>>

\* Nothing (more) to send now: spin until every response is there.
AllSent ==
    /\ pc = "dispatch"
    /\ job_q = <<>> \/ ~CanSend
    /\ pc' = "spin"
    /\ UNCHANGED <<job_q, nrpcs, calls, ncalls, responseList, itr, done, outputs, m_until_fail, threadVars>>

\* Mutant: as in the map phase, one response is enough.
SomeThere == Len(responseList) > 0

\* while (responseList.size() != nrpcs); ends.
AllThere == Len(responseList) = nrpcs

SeeResponses ==
    /\ pc = "spin"
    /\ AllThere
    /\ itr' = 1
    /\ pc' = "collect"
    /\ UNCHANGED <<job_q, nrpcs, calls, ncalls, responseList, done, outputs, m_until_fail, threadVars>>

\* Mutant: a successful response is counted down as in the map phase.
CollectOkCountsDown ==
    /\ pc = "collect"
    /\ itr <= Len(responseList)
    /\ responseList[itr].ok
    /\ itr' = itr + 1
    /\ nrpcs' = nrpcs - 1
    /\ UNCHANGED <<pc, job_q, calls, ncalls, responseList, done, outputs, m_until_fail, threadVars>>

\* A successful response stays.
CollectOk ==
    /\ pc = "collect"
    /\ itr <= Len(responseList)
    /\ responseList[itr].ok
    /\ itr' = itr + 1
    /\ UNCHANGED <<pc, job_q, nrpcs, calls, ncalls, responseList, done, outputs, m_until_fail, threadVars>>

\* Mutant: a failed job is forgotten.
RequeueNothing(j) == UNCHANGED job_q

\* The job of a failed call is queued again.
Requeue(j) == job_q' = Append(job_q, j)

\* A failed response is erased; itr then is at the next one.
CollectFailed ==
    /\ pc = "collect"
    /\ itr <= Len(responseList)
    /\ ~responseList[itr].ok
    /\ Requeue(responseList[itr].jobid)
    /\ responseList' = Erase(responseList, itr)
    /\ pc' = "erased"
    /\ UNCHANGED <<nrpcs, calls, ncalls, itr, done, outputs, m_until_fail, threadVars>>

CountDown ==
    /\ pc = "erased"
    /\ nrpcs' = nrpcs - 1
    /\ pc' = "collect"
    /\ UNCHANGED <<job_q, calls, ncalls, responseList, itr, done, outputs, m_until_fail, threadVars>>

\* Mutant: one job short.
NothingFailedEarly == Len(job_q) <= 1

\* if (job_q.size() == 0) break;
NothingFailed == job_q = <<>>

\* itr has reached the end: another round, or the end of the phase.
EndCollect ==
    /\ pc = "collect"
    /\ itr = Len(responseList) + 1
    /\ IF NothingFailed
       THEN pc' = "output" /\ done' = TRUE
       ELSE pc' = "dispatch" /\ UNCHANGED done
    /\ UNCHANGED <<job_q, nrpcs, calls, ncalls, responseList, itr, outputs, m_until_fail, threadVars>>

\* The jobs with a successful response.
Succeeded == {r.jobid : r \in {x \in Elements(responseList) : x.ok}}

\* Fill m_OutputResultMap and return.
Return ==
    /\ pc = "output"
    /\ outputs' = outputs \cup Succeeded
    /\ pc' = "returned"
    /\ UNCHANGED <<job_q, nrpcs, calls, ncalls, responseList, itr, done, m_until_fail, threadVars>>

\* m_r1.join() returns.
Join ==
    /\ pc = "returned"
    /\ tpc = "ended"
    /\ pc' = "joined"
    /\ UNCHANGED <<job_q, nrpcs, calls, ncalls, responseList, itr, done, outputs, m_until_fail, threadVars>>

Main ==
    \/ InvokeTask \/ CountTask \/ AllSent \/ SeeResponses
    \/ CollectOk \/ CollectFailed \/ CountDown \/ EndCollect
    \/ Return \/ Join

--------------------------------------------------------------------------------
(* The completion thread.                                                     *)

\* while (!done)
TestDone ==
    /\ tpc = "test"
    /\ pc # "returned"
    /\ tpc' = IF done THEN "ended" ELSE "count"
    /\ UNCHANGED <<pc, job_q, nrpcs, calls, ncalls, responseList, itr, done, outputs, m_until_fail, got, failures>>

\* Mutant: off by one.
MoreThanOneToCome == nrpcs > Len(responseList) + 1

\* nrpcs > resList.size()
MoreToCome == nrpcs > Len(responseList)

\* Wait for a call only if one is under way.
CompareCount ==
    /\ tpc = "count"
    /\ pc # "returned"
    /\ tpc' = IF MoreToCome THEN "next" ELSE "test"
    /\ UNCHANGED <<pc, job_q, nrpcs, calls, ncalls, responseList, itr, done, outputs, m_until_fail, got, failures>>

\* The same tests on the locals of a function that has returned: the garbage there
\* ends the thread, keeps it spinning, or sends it into a destroyed queue.
ReadDeadLocals ==
    /\ tpc \in {"test", "count"}
    /\ pc = "returned"
    /\ \/ tpc = "test" /\ tpc' \in {"ended", "count"} /\ UNCHANGED pc
       \/ tpc = "count" /\ tpc' = "test" /\ UNCHANGED pc
       \/ tpc = "count" /\ pc' = "crashed" /\ UNCHANGED tpc
    /\ UNCHANGED <<job_q, nrpcs, calls, ncalls, responseList, itr, done, outputs, m_until_fail, got, failures>>

\* cq.Next returns the next call that has ended, in any order.
TakeCall(c) ==
    /\ tpc = "next"
    /\ \E ok \in BOOLEAN :
          /\ ok \/ failures < MaxFailures
          /\ got' = [jobid |-> c.jobid, ok |-> ok]
          /\ failures' = IF ok THEN failures ELSE failures + 1
    /\ calls' = calls \ {c}
    /\ tpc' = "push"
    /\ UNCHANGED <<pc, job_q, nrpcs, ncalls, responseList, itr, done, outputs, m_until_fail>>

\* resList.emplace_back under g_response_mtx_.
PushResponse ==
    /\ tpc = "push"
    /\ responseList' = Append(responseList, got)
    /\ tpc' = "test"
    /\ UNCHANGED <<pc, job_q, nrpcs, calls, ncalls, itr, done, outputs, m_until_fail, got, failures>>

Thread ==
    /\ pc # "crashed"
    /\ \/ TestDone \/ CompareCount \/ ReadDeadLocals
       \/ \E c \in calls : TakeCall(c)
       \/ PushResponse

\* The phase is over; a failed master sleeps, a crashed one is gone.
Over ==
    /\ pc \in {"failed", "crashed", "joined"}
    /\ UNCHANGED vars

Next == Main \/ Thread \/ Over

Spec == Init /\ [][Next]_vars

\* Both threads are scheduled, and gRPC ends every call by its deadline.
FairSpec == Spec /\ WF_vars(Main) /\ WF_vars(Thread)

--------------------------------------------------------------------------------
\* Every variable has the type of its C++ counterpart; job ids stay in range.
TypeOK ==
    /\ pc \in {"dispatch", "invoked", "spin", "collect", "erased", "output",
               "returned", "joined", "failed", "crashed"}
    /\ job_q \in Seq(Jobs)
    /\ nrpcs \in Int
    /\ calls \subseteq [id : 0..ncalls - 1, jobid : Jobs]
    /\ ncalls \in Nat
    /\ responseList \in Seq(Result)
    /\ itr \in Nat
    /\ done \in BOOLEAN
    /\ outputs \subseteq Jobs
    /\ m_until_fail \in Int
    /\ tpc \in {"test", "count", "next", "push", "ended"}
    /\ got \in [jobid : Nat, ok : BOOLEAN]
    /\ failures \in 0..MaxFailures

\* Where a job can be: still to be sent (the head of job_q is sent and queued at
\* once between invokeReduceTaskAsync and job_q.pop(), which a failing master
\* never reaches), in a call, with the completion thread, or answered.
Waiting == Elements(IF pc \in {"invoked", "failed"} THEN Tail(job_q) ELSE job_q)
Called == {c.jobid : c \in calls}
Held == IF tpc = "push" THEN {got.jobid} ELSE {}
Answered == {r.jobid : r \in Elements(responseList)}

\* No reduce job is lost between the two threads and between the rounds.
NoJobLost == Waiting \cup Called \cup Held \cup Answered = Jobs

\* No reduce job is in two places or twice in one: its output blob out_<id> has one
\* writer the master knows of.
NoJobTwice ==
    /\ Waiting \cap (Called \cup Held \cup Answered) = {}
    /\ Called \cap (Held \cup Answered) = {}
    /\ Held \cap Answered = {}
    /\ Distinct(job_q)
    /\ \A c, d \in calls : c # d => c.jobid # d.jobid
    /\ \A i, j \in DOMAIN responseList : i # j => responseList[i].jobid # responseList[j].jobid

\* Every reduce job is in exactly one place.
OnePlace == NoJobLost /\ NoJobTwice

\* While the main thread walks through responseList, nothing can be pushed to it, so
\* that itr stays valid, although the lock does not cover the walk and although the
\* thread may by then wait in cq.Next (it compares between erase and nrpcs--).
QuietCollect ==
    pc \in {"collect", "erased", "output"} => calls = {} /\ tpc # "push"

\* responseList.size() never exceeds nrpcs when the difference is taken, although a
\* thread that waits in cq.Next can push a response before its call is counted.
NoUnderflow == pc = "dispatch" => Len(responseList) <= nrpcs

\* At most one job more than there are clients is under way.
ClientLimit == Cardinality(calls) <= NClients + 1

\* dispatchReduceTasks returns with the output of every partition, no call is
\* left on the queue it destroys, and the completion thread neither pushes into the
\* vector it destroys nor waits in the queue.
CompleteOutput ==
    pc \in {"returned", "joined", "crashed"} =>
        /\ outputs = Jobs
        /\ calls = {}
        /\ tpc \notin {"next", "push"}

\* dispatchReduceTasks implements the promise of TaskPhase.
Phase ==
    CASE pc \in {"output", "returned", "joined"} -> "finished"
      [] pc = "crashed" -> "abandoned"
      [] OTHER -> "running"

Abstract == INSTANCE TaskPhase WITH Tasks <- Jobs, recorded <- Succeeded, phase <- Phase

ImplementsTaskPhase == Abstract!Spec

\* The reduce phase ends: failed jobs are sent again in the next round, and neither
\* thread waits for the other for ever (the master may fail instead).
PhaseEnds == <>(pc \in {"returned", "joined", "failed", "crashed"})
================================================================================
