------------------------------ MODULE ClientPool ------------------------------
(***************************************************************************)
(* The master's view of its workers during one job: the heartbeat thread   *)
(* (Master::start_ping, ping_workers, AsyncCompletePingRpc), the           *)
(* pingStatus_ and request counter of every MapReduceClient, and the main  *)
(* thread, which scans the clients for a healthy one with the smallest     *)
(* counter (findMinReqHealthyClient), waits on g_cond_ when there is none, *)
(* sends it a task and in the end stops the heartbeat and joins it.        *)
(*                                                                         *)
(* The two threads share pingStatus_, which no lock protects, g_ready,     *)
(* which g_mtx_ protects, and m_hbcheck, which no lock protects.  A scan   *)
(* reads one client per step, so a ping round may overtake it.             *)
(***************************************************************************)
EXTENDS Integers, FiniteSets

CONSTANTS
    NClients,   \* size of m_Clients, fixed between two calls of update_workers
    Reliable,   \* workers that stay up and answer every ping before its deadline
    MaxTasks    \* bound: tasks the main thread sends to one client

ASSUME PoolAssumption ==
    /\ NClients \in Nat
    /\ Reliable \subseteq 1..NClients
    /\ MaxTasks \in Nat

Clients == 1..NClients

\* minClient = NoClient is the null min_req_client.
NoClient == 0

VARIABLES
    alive,       \* the workers whose process is up
    pingStatus,  \* MapReduceClient::pingStatus_
    pings,       \* per client: no ping, a ping under way, an answer in the queue
    ppc,         \* heartbeat thread: start, test, send, recv, sleep, ended
    pnext,       \* the next client the heartbeat thread pings
    m_hbcheck,
    g_ready,
    mpc,         \* main thread: idle, scan, wait, join, done
    snext,       \* the next client the scan looks at
    minClient,   \* min_req_client
    nRequests,   \* nMapRequests (or nReduceRequests): tasks ever sent
    missed       \* history: pings a client has failed since its last answer, 2 for more

hbVars == <<pingStatus, missed, pings, ppc, pnext>>
scanVars == <<snext, minClient>>
mainVars == <<mpc, scanVars, nRequests>>
poolVars == <<alive, hbVars, m_hbcheck, g_ready, mainVars>>

-------------------------------------------------------------------------------
(* get_worker_addresses has run: AsyncCompleteExchangeRpc left every client  *)
(* with PING_SUCCESS or PING_FAIL.  The heartbeat thread is created and has  *)
(* not run yet.                                                              *)
Init ==
    /\ alive = Clients
    /\ pingStatus \in [Clients -> {"SUCCESS", "FAIL"}]
    /\ pings = [c \in Clients |-> "none"]
    /\ ppc = "start"
    /\ pnext = 1
    /\ m_hbcheck = FALSE
    /\ g_ready = TRUE
    /\ mpc = "idle"
    /\ snext = 1
    /\ minClient = NoClient
    /\ nRequests = [c \in Clients |-> 0]
    /\ missed = [c \in Clients |-> IF pingStatus[c] = "SUCCESS" THEN 0 ELSE 1]

-------------------------------------------------------------------------------
(* The heartbeat thread.                                                     *)

\* start_ping up to its loop: the flag is raised by the new thread itself.
StartPing ==
    /\ ppc = "start"
    /\ m_hbcheck' = TRUE
    /\ ppc' = "test"
    /\ UNCHANGED <<alive, pingStatus, missed, pings, pnext, g_ready, mainVars>>

\* Mutant: while (true).
TestFlagNever ==
    /\ ppc = "test"
    /\ ppc' = "send"
    /\ pnext' = 1
    /\ UNCHANGED <<alive, pingStatus, missed, pings, m_hbcheck, g_ready, mainVars>>

\* while (m_hbcheck): another round, or the end of the thread.
TestFlag ==
    /\ ppc = "test"
    /\ ppc' = IF m_hbcheck THEN "send" ELSE "ended"
    /\ pnext' = 1
    /\ UNCHANGED <<alive, pingStatus, missed, pings, m_hbcheck, g_ready, mainVars>>

\* One turn of the loop of ping_workers: mark the client, start its ping.
SendPing ==
    /\ ppc = "send"
    /\ pnext <= NClients
    /\ pingStatus' = [pingStatus EXCEPT ![pnext] = "CHECK"]
    /\ pings' = [pings EXCEPT ![pnext] = "sent"]
    /\ pnext' = pnext + 1
    /\ UNCHANGED <<alive, missed, ppc, m_hbcheck, g_ready, mainVars>>

\* Every ping is sent: AsyncCompletePingRpc collects the nrpcs results.
AllSent ==
    /\ ppc = "send"
    /\ pnext = NClients + 1
    /\ ppc' = "recv"
    /\ UNCHANGED <<alive, pingStatus, missed, pings, pnext, m_hbcheck, g_ready, mainVars>>

\* A live worker answers; its answer may reach the master after it died.
AnswerPing(c) ==
    /\ c \in alive
    /\ pings[c] = "sent"
    /\ pings' = [pings EXCEPT ![c] = "answered"]
    /\ UNCHANGED <<alive, pingStatus, missed, ppc, pnext, m_hbcheck, g_ready, mainVars>>

\* cq.Next returns a call with an OK status.
PingOk(c) ==
    /\ ppc = "recv"
    /\ pings[c] = "answered"
    /\ pingStatus' = [pingStatus EXCEPT ![c] = "SUCCESS"]
    /\ missed' = [missed EXCEPT ![c] = 0]
    /\ pings' = [pings EXCEPT ![c] = "none"]
    /\ UNCHANGED <<alive, ppc, pnext, m_hbcheck, g_ready, mainVars>>

\* Mutant: a failed ping sets the wrong status.
PingFailedAsSuccess(c) ==
    /\ ppc = "recv"
    /\ pings[c] = "sent"
    /\ c \notin Reliable
    /\ pingStatus' = [pingStatus EXCEPT ![c] = "SUCCESS"]
    /\ missed' = [missed EXCEPT ![c] = IF @ < 2 THEN @ + 1 ELSE @]
    /\ pings' = [pings EXCEPT ![c] = "none"]
    /\ UNCHANGED <<alive, ppc, pnext, m_hbcheck, g_ready, mainVars>>

\* cq.Next returns a call that failed: the worker is down, or so busy with a
\* task (it serves one call at a time) that the 10 second deadline passed.
PingFailed(c) ==
    /\ ppc = "recv"
    /\ pings[c] = "sent"
    /\ c \notin Reliable
    /\ pingStatus' = [pingStatus EXCEPT ![c] = "FAIL"]
    /\ missed' = [missed EXCEPT ![c] = IF @ < 2 THEN @ + 1 ELSE @]
    /\ pings' = [pings EXCEPT ![c] = "none"]
    /\ UNCHANGED <<alive, ppc, pnext, m_hbcheck, g_ready, mainVars>>

\* Mutant: the round ends without raising g_ready.
RoundDoneSilently ==
    /\ ppc = "recv"
    /\ \A c \in Clients : pings[c] = "none"
    /\ ppc' = "sleep"
    /\ UNCHANGED <<alive, pingStatus, missed, pings, pnext, m_hbcheck, g_ready, mainVars>>

\* The end of ping_workers: raise g_ready and wake the main thread.
RoundDone ==
    /\ ppc = "recv"
    /\ \A c \in Clients : pings[c] = "none"
    /\ g_ready' = TRUE
    /\ ppc' = "sleep"
    /\ UNCHANGED <<alive, pingStatus, missed, pings, pnext, m_hbcheck, mainVars>>

\* PING_INTERVAL has passed.
EndSleep ==
    /\ ppc = "sleep"
    /\ ppc' = "test"
    /\ UNCHANGED <<alive, pingStatus, missed, pings, pnext, m_hbcheck, g_ready, mainVars>>

-------------------------------------------------------------------------------
(* The main thread.                                                          *)

\* Mutant: min_req_client is declared outside the loop and keeps its last value.
KeepCandidate == snext' = 1 /\ UNCHANGED minClient

\* Every search, and every turn of it, starts without a candidate.
ResetScan == snext' = 1 /\ minClient' = NoClient

\* A dispatch loop calls findMinReqHealthyClient for its next task.
BeginScan ==
    /\ mpc = "idle"
    /\ \A c \in Clients : nRequests[c] < MaxTasks
    /\ mpc' = "scan"
    /\ ResetScan
    /\ UNCHANGED <<alive, hbVars, m_hbcheck, g_ready, nRequests>>

\* The scan's test: a healthy client replaces one that has been sent more tasks (the
\* counters are totals, they never go down).
Better(c) == minClient = NoClient \/ nRequests[c] < nRequests[minClient]

\* One turn of the scan's loop over m_Clients.
ScanClient ==
    /\ mpc = "scan"
    /\ snext <= NClients
    /\ minClient' = IF pingStatus[snext] = "SUCCESS" /\ Better(snext) THEN snext ELSE minClient
    /\ snext' = snext + 1
    /\ UNCHANGED <<alive, hbVars, m_hbcheck, g_ready, mpc, nRequests>>

\* The scan found a client; invokeMapTaskAsync (or invokeReduceTaskAsync)
\* counts the task and starts the call.
InvokeTask ==
    /\ mpc = "scan"
    /\ snext = NClients + 1
    /\ minClient # NoClient
    /\ nRequests' = [nRequests EXCEPT ![minClient] = @ + 1]
    /\ mpc' = "idle"
    /\ UNCHANGED <<alive, hbVars, m_hbcheck, g_ready, scanVars>>

\* The scan found no client: lower g_ready and wait, under one lock.
WaitForRound ==
    /\ mpc = "scan"
    /\ snext = NClients + 1
    /\ minClient = NoClient
    /\ g_ready' = FALSE
    /\ mpc' = "wait"
    /\ UNCHANGED <<alive, hbVars, m_hbcheck, scanVars, nRequests>>

\* The predicate of g_cond_.wait holds: scan again.
WakeUp ==
    /\ mpc = "wait"
    /\ g_ready
    /\ mpc' = "scan"
    /\ ResetScan
    /\ UNCHANGED <<alive, hbVars, m_hbcheck, g_ready, nRequests>>

\* stop_ping, at the end of the job.
StopPing ==
    /\ mpc = "idle"
    /\ m_hbcheck' = FALSE
    /\ mpc' = "join"
    /\ UNCHANGED <<alive, hbVars, g_ready, scanVars, nRequests>>

\* t.join() returns.
JoinPing ==
    /\ mpc = "join"
    /\ ppc = "ended"
    /\ mpc' = "done"
    /\ UNCHANGED <<alive, hbVars, m_hbcheck, g_ready, scanVars, nRequests>>

-------------------------------------------------------------------------------
(* The workers.                                                              *)

\* A worker process ends.  It does not come back under the same znode.
WorkerDies(c) ==
    /\ c \in alive \ Reliable
    /\ alive' = alive \ {c}
    /\ UNCHANGED <<hbVars, m_hbcheck, g_ready, mainVars>>

\* The job is over.
JobOver ==
    /\ mpc = "done"
    /\ UNCHANGED poolVars

-------------------------------------------------------------------------------
Heartbeat ==
    \/ StartPing
    \/ TestFlag
    \/ SendPing
    \/ AllSent
    \/ \E c \in Clients : PingOk(c) \/ PingFailed(c)
    \/ RoundDone
    \/ EndSleep

Main ==
    \/ BeginScan
    \/ ScanClient
    \/ InvokeTask
    \/ WaitForRound
    \/ WakeUp
    \/ StopPing
    \/ JoinPing

Workers ==
    \E c \in Clients : AnswerPing(c) \/ WorkerDies(c)

Next == Heartbeat \/ Main \/ Workers \/ JobOver

Spec == Init /\ [][Next]_poolVars

(***************************************************************************)
(* Liveness and ChosenAnswered need one fact about time: a notified main   *)
(* thread wakes up and ends its scan, which only reads memory, long before *)
(* the 5 seconds of PING_INTERVAL are over.  Prompt excludes the steps in  *)
(* which the heartbeat thread ends its sleep while the main thread could   *)
(* search.  The threads and the answers of live workers are scheduled      *)
(* fairly; nothing obliges a worker to die.                                *)
(***************************************************************************)
Searching == mpc = "scan" \/ (mpc = "wait" /\ g_ready)

Prompt == Searching => ~(ppc = "sleep" /\ ppc' = "test")

TimedSpec ==
    /\ Init /\ [][Next /\ Prompt]_poolVars
    /\ WF_poolVars(Heartbeat /\ Prompt)
    /\ WF_poolVars(ScanClient \/ InvokeTask \/ WaitForRound \/ WakeUp \/ JoinPing)
    /\ \A c \in Clients : WF_poolVars(AnswerPing(c))

-------------------------------------------------------------------------------
\* Every variable has the type its C++ counterpart can take.
TypeOK ==
    /\ alive \subseteq Clients
    /\ pingStatus \in [Clients -> {"CHECK", "SUCCESS", "FAIL"}]
    /\ pings \in [Clients -> {"none", "sent", "answered"}]
    /\ ppc \in {"start", "test", "send", "recv", "sleep", "ended"}
    /\ pnext \in 1..NClients + 1
    /\ m_hbcheck \in BOOLEAN
    /\ g_ready \in BOOLEAN
    /\ mpc \in {"idle", "scan", "wait", "join", "done"}
    /\ snext \in 1..NClients + 1
    /\ minClient \in Clients \cup {NoClient}
    /\ nRequests \in [Clients -> Nat]
    /\ missed \in [Clients -> 0..2]

\* The client findMinReqHealthyClient holds, and a task then goes to, may have lost its
\* PING_SUCCESS since the scan passed it, but it answered one of its last two pings
\* (the ExchangeInfo counts as one): the choice is at most one verdict out of date,
\* wherever a ping round overtakes the scan.
ChosenAnswered == mpc = "scan" /\ minClient # NoClient => missed[minClient] <= 1

\* AsyncCompletePingRpc's counting (nrcvd < nrpcs) loses no ping: outside a round
\* no client is left in PING_CHECK, which the scan would skip for ever.
VerdictBetweenRounds ==
    ppc \notin {"send", "recv"} => \A c \in Clients : pingStatus[c] # "CHECK"

\* While the main thread waits on g_cond_, the thread that notifies it still runs
\* and has not been told to stop, so the wait has someone to end it.
WaiterHasPinger ==
    mpc = "wait" => ppc # "ended" /\ (m_hbcheck \/ ppc = "start")

\* findMinReqHealthyClient returns as long as one worker answers its pings: the
\* hand-shake over g_ready and g_cond_ loses no wake-up for good.
SearchReturns == Reliable # {} => (mpc \in {"scan", "wait"} ~> mpc = "idle")

\* A dead worker stops being eligible: after its death at most one late answer
\* makes it PING_SUCCESS again, and then it never is until the heartbeat stops.
DeadWorkerDetected ==
    \A c \in Clients :
        c \notin alive ~> (~m_hbcheck \/ [](pingStatus[c] # "SUCCESS" \/ ~m_hbcheck))

\* stop_ping ends the job's heartbeat, so that t.join() returns, provided that
\* the thread had raised m_hbcheck before stop_ping lowered it.
StopEndsHeartbeat == (mpc = "join" /\ ppc # "start" /\ ~m_hbcheck) ~> mpc = "done"
===============================================================================
