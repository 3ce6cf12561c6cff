---------------------------- MODULE ClientPoolProofs ----------------------------
(***************************************************************************)
(* Safety of the heartbeat and of the choice of a client, for any number   *)
(* of workers and tasks, and whatever workers die or answer late.  The     *)
(* choice needs the fact about time that TimedSpec states.                 *)
(***************************************************************************)
EXTENDS ClientPool, TLAPS

\* A client is PING_CHECK only while its ping is under way, and no ping is under
\* way outside a round.
PingInv ==
    /\ \A c \in Clients : pingStatus[c] = "CHECK" => pings[c] # "none"
    /\ ppc \notin {"send", "recv"} => \A c \in Clients : pings[c] = "none"

\* Until stop_ping the heartbeat thread has not ended and will not.
PingerRuns ==
    mpc \in {"idle", "scan", "wait"} => ppc # "ended" /\ (m_hbcheck \/ ppc = "start")

PoolInv ==
    /\ TypeOK
    /\ PingInv
    /\ PingerRuns

\* The job starts with a verdict on every client and no scan under way.
LEMMA PoolInit == Init => PoolInv
<1> SUFFICES ASSUME Init PROVE PoolInv
  OBVIOUS
<1>1. TypeOK
  <2>1. m_hbcheck \in BOOLEAN /\ g_ready \in BOOLEAN
    BY DEF Init
  <2>2. /\ pings \in [Clients -> {"none", "sent", "answered"}]
        /\ nRequests \in [Clients -> Nat] /\ missed \in [Clients -> 0..2]
        /\ pingStatus \in [Clients -> {"CHECK", "SUCCESS", "FAIL"}]
    BY DEF Init
  <2>3. QED
    BY <2>1, <2>2, PoolAssumption DEF Init, TypeOK, Clients, NoClient
<1>2. PingInv
  BY DEF Init, PingInv
<1>3. PingerRuns
  BY DEF Init, PingerRuns
<1>4. QED
  BY <1>1, <1>2, <1>3 DEF PoolInv

\* Every step keeps the types.
LEMMA PoolTypes ==
    ASSUME TypeOK, [Next]_poolVars
    PROVE  TypeOK'
<1> USE PoolAssumption DEF TypeOK, Clients, NoClient, hbVars, scanVars, mainVars
<1>1. CASE StartPing \/ TestFlag \/ AllSent \/ RoundDone \/ EndSleep
  <2>1. CASE StartPing
    BY <2>1 DEF StartPing
  <2>2. CASE TestFlag
    BY <2>2 DEF TestFlag
  <2>3. CASE AllSent
    BY <2>3 DEF AllSent
  <2>4. CASE RoundDone
    BY <2>4 DEF RoundDone
  <2>5. CASE EndSleep
    BY <2>5 DEF EndSleep
  <2>6. QED
    BY <1>1, <2>1, <2>2, <2>3, <2>4, <2>5
<1>2. CASE SendPing
  BY <1>2 DEF SendPing
<1>3. ASSUME NEW c \in Clients, PingOk(c) \/ PingFailed(c) \/ AnswerPing(c) PROVE TypeOK'
  <2>1. CASE PingOk(c)
    BY <1>3, <2>1 DEF PingOk
  <2>2. CASE PingFailed(c)
    <3>1. missed' \in [Clients -> 0..2]
      BY <1>3, <2>2 DEF PingFailed
    <3>2. QED
      BY <1>3, <2>2, <3>1 DEF PingFailed
  <2>3. CASE AnswerPing(c)
    BY <1>3, <2>3 DEF AnswerPing
  <2>4. QED
    BY <1>3, <2>1, <2>2, <2>3
<1>4. CASE BeginScan \/ WakeUp \/ WaitForRound \/ StopPing \/ JoinPing
  <2>1. CASE BeginScan \/ WakeUp
    <3>1. snext' = 1 /\ minClient' = 0 /\ mpc' = "scan"
      BY <2>1 DEF BeginScan, WakeUp, ResetScan
    <3>2. UNCHANGED <<alive, hbVars, m_hbcheck, g_ready, nRequests>>
      BY <2>1 DEF BeginScan, WakeUp
    <3>3. QED
      BY <3>1, <3>2
  <2>2. CASE WaitForRound
    BY <2>2 DEF WaitForRound
  <2>3. CASE StopPing
    BY <2>3 DEF StopPing
  <2>4. CASE JoinPing
    BY <2>4 DEF JoinPing
  <2>5. QED
    BY <1>4, <2>1, <2>2, <2>3, <2>4
<1>5. CASE ScanClient
  BY <1>5 DEF ScanClient
<1>6. CASE InvokeTask
  BY <1>6 DEF InvokeTask
<1>7. ASSUME NEW c \in Clients, WorkerDies(c) PROVE TypeOK'
  BY <1>7 DEF WorkerDies
<1>8. CASE UNCHANGED poolVars
  BY <1>8 DEF poolVars
<1>9. QED
  BY <1>1, <1>2, <1>3, <1>4, <1>5, <1>6, <1>7, <1>8
     DEF Next, Heartbeat, Main, Workers, JobOver

\* A round of pings leaves no client without a verdict.
LEMMA PingNext ==
    ASSUME TypeOK, PingInv, [Next]_poolVars
    PROVE  PingInv'
<1> USE DEF hbVars, scanVars, mainVars
<1>0. /\ DOMAIN pingStatus = Clients /\ DOMAIN pings = Clients
      /\ ppc = "send" /\ pnext <= NClients => pnext \in Clients
  BY PoolAssumption DEF TypeOK, Clients
<1>1. CASE SendPing
  BY <1>0, <1>1 DEF SendPing, PingInv
<1>2. ASSUME NEW c \in Clients, PingOk(c) \/ PingFailed(c) PROVE PingInv'
  BY <1>0, <1>2 DEF PingOk, PingFailed, PingInv
<1>3. ASSUME NEW c \in Clients, AnswerPing(c) PROVE PingInv'
  BY <1>0, <1>3 DEF AnswerPing, PingInv
<1>4. CASE RoundDone
  BY <1>4 DEF RoundDone, PingInv
<1>5. CASE StartPing \/ TestFlag \/ AllSent \/ EndSleep
  BY <1>5 DEF StartPing, TestFlag, AllSent, EndSleep, PingInv
<1>6. CASE UNCHANGED hbVars
  BY <1>6 DEF PingInv
<1>7. QED
  BY <1>1, <1>2, <1>3, <1>4, <1>5, <1>6 DEF Next, Heartbeat, Main, Workers, JobOver, poolVars,
     BeginScan, ScanClient, InvokeTask, WaitForRound, WakeUp, StopPing, JoinPing, WorkerDies

\* Only stop_ping lowers the flag, and afterwards the main thread does not wait.
LEMMA PingerNext ==
    ASSUME TypeOK, PingerRuns, [Next]_poolVars
    PROVE  PingerRuns'
<1> USE DEF hbVars, scanVars, mainVars
<1>1. CASE StartPing \/ TestFlag \/ SendPing \/ AllSent \/ RoundDone \/ EndSleep
  BY <1>1 DEF StartPing, TestFlag, SendPing, AllSent, RoundDone, EndSleep, PingerRuns
<1>2. CASE BeginScan \/ InvokeTask \/ WaitForRound \/ WakeUp \/ StopPing \/ JoinPing
  BY <1>2 DEF BeginScan, InvokeTask, WaitForRound, WakeUp, StopPing, JoinPing, PingerRuns
<1>3. CASE UNCHANGED <<ppc, m_hbcheck, mpc>>
  BY <1>3 DEF PingerRuns
<1>4. QED
  BY <1>1, <1>2, <1>3 DEF Next, Heartbeat, Main, Workers, JobOver, poolVars, ScanClient, PingOk,
     PingFailed, AnswerPing, WorkerDies

\* The invariant holds throughout the job.
LEMMA PoolInductive == Spec => []PoolInv
<1>1. PoolInv /\ [Next]_poolVars => PoolInv'
  BY PoolTypes, PingNext, PingerNext DEF PoolInv
<1>2. QED
  BY <1>1, PoolInit, PTL DEF Spec

\* No client is left in PING_CHECK between two rounds.
THEOREM VerdictCorrect == Spec => []VerdictBetweenRounds
<1>1. PoolInv => VerdictBetweenRounds
  BY DEF PoolInv, PingInv, VerdictBetweenRounds
<1>2. QED
  BY <1>1, PoolInductive, PTL

\* A main thread that waits on g_cond_ has a running heartbeat thread to wake it.
THEOREM WaiterCorrect == Spec => []WaiterHasPinger
<1>1. PoolInv => WaiterHasPinger
  BY DEF PoolInv, PingerRuns, WaiterHasPinger
<1>2. QED
  BY <1>1, PoolInductive, PTL
-------------------------------------------------------------------------------
(* The client a task goes to.                                                *)

\* A client with PING_SUCCESS has just answered.  A candidate that has failed a ping
\* since the scan passed it has done so in the round that is being collected or has
\* just ended, and the next one does not begin before the scan is over.
ChoiceInv ==
    /\ \A c \in Clients : pingStatus[c] = "SUCCESS" => missed[c] = 0
    /\ mpc = "scan" /\ minClient # NoClient =>
           \/ missed[minClient] = 0
           \/ missed[minClient] = 1 /\ ppc = "recv" /\ pings[minClient] = "none"
           \/ missed[minClient] = 1 /\ ppc = "sleep"

\* No step of the two threads or of a worker breaks this.
LEMMA ChoiceNext ==
    ASSUME TypeOK, ChoiceInv, [Next /\ Prompt]_poolVars
    PROVE  ChoiceInv'
<1> USE DEF hbVars, scanVars, mainVars
<1>0. /\ DOMAIN pingStatus = Clients /\ DOMAIN pings = Clients /\ DOMAIN missed = Clients
      /\ minClient # NoClient => minClient \in Clients
      /\ ppc = "send" /\ pnext <= NClients => pnext \in Clients
      /\ mpc = "scan" /\ snext <= NClients => snext \in Clients
  BY PoolAssumption DEF TypeOK, Clients, NoClient
<1>1. CASE SendPing
  BY <1>0, <1>1 DEF SendPing, ChoiceInv
<1>2. ASSUME NEW c \in Clients, PingOk(c) PROVE ChoiceInv'
  BY <1>0, <1>2 DEF PingOk, ChoiceInv
<1>3. ASSUME NEW c \in Clients, PingFailed(c) PROVE ChoiceInv'
  <2>1. /\ ppc = "recv" /\ pings[c] = "sent"
        /\ pingStatus' = [pingStatus EXCEPT ![c] = "FAIL"]
        /\ missed' = [missed EXCEPT ![c] = IF missed[c] < 2 THEN missed[c] + 1 ELSE missed[c]]
        /\ pings' = [pings EXCEPT ![c] = "none"]
        /\ UNCHANGED <<ppc, mpc, minClient>>
    BY <1>3 DEF PingFailed
  <2>2. \A d \in Clients : pingStatus'[d] = "SUCCESS" => missed'[d] = 0
    BY <1>0, <2>1 DEF ChoiceInv
  <2>3. ASSUME mpc = "scan", minClient # NoClient
        PROVE  \/ missed'[minClient] = 0
               \/ missed'[minClient] = 1 /\ ppc = "recv" /\ pings'[minClient] = "none"
    <3>1. CASE minClient = c
      <4>1. missed[c] = 0
        BY <2>1, <2>3, <3>1 DEF ChoiceInv
      <4>2. QED
        BY <1>0, <2>1, <2>3, <3>1, <4>1
    <3>2. CASE minClient # c
      BY <1>0, <2>1, <2>3, <3>2 DEF ChoiceInv
    <3>3. QED
      BY <3>1, <3>2
  <2>4. QED
    BY <2>1, <2>2, <2>3 DEF ChoiceInv
<1>4. ASSUME NEW c \in Clients, AnswerPing(c) PROVE ChoiceInv'
  BY <1>0, <1>4 DEF AnswerPing, ChoiceInv
<1>5. CASE StartPing \/ TestFlag \/ AllSent \/ RoundDone
  BY <1>5 DEF StartPing, TestFlag, AllSent, RoundDone, ChoiceInv
<1>6. CASE EndSleep /\ Prompt
  BY <1>6 DEF EndSleep, Prompt, Searching, ChoiceInv
<1>7. CASE ScanClient
  BY <1>0, <1>7 DEF ScanClient, ChoiceInv
<1>8. CASE BeginScan \/ WakeUp
  BY <1>8 DEF BeginScan, WakeUp, ResetScan, ChoiceInv
<1>9. CASE InvokeTask \/ WaitForRound \/ StopPing \/ JoinPing
  BY <1>9 DEF InvokeTask, WaitForRound, StopPing, JoinPing, ChoiceInv
<1>10. CASE UNCHANGED <<hbVars, mpc, minClient>>
  BY <1>10 DEF ChoiceInv
<1>11. QED
  BY <1>1, <1>2, <1>3, <1>4, <1>5, <1>6, <1>7, <1>8, <1>9, <1>10
     DEF Next, Heartbeat, Main, Workers, JobOver, poolVars, WorkerDies

\* However the rounds of pings and the scans interleave, a task goes to a client that
\* answered one of its last two pings, provided that a scan takes less time than the
\* heartbeat thread sleeps.
THEOREM ChoiceCorrect == Init /\ [][Next /\ Prompt]_poolVars => []ChosenAnswered
<1>1. Init => PoolInv /\ ChoiceInv
  <2>1. Init => ChoiceInv
    BY DEF Init, ChoiceInv
  <2>2. QED
    BY <2>1, PoolInit
<1>2. PoolInv /\ ChoiceInv /\ [Next /\ Prompt]_poolVars => (PoolInv /\ ChoiceInv)'
  <2> SUFFICES ASSUME PoolInv, ChoiceInv, [Next /\ Prompt]_poolVars PROVE (PoolInv /\ ChoiceInv)'
    OBVIOUS
  <2>1. [Next]_poolVars
    OBVIOUS
  <2>2. PoolInv'
    BY <2>1, PoolTypes, PingNext, PingerNext DEF PoolInv
  <2>3. ChoiceInv'
    BY ChoiceNext DEF PoolInv
  <2>4. QED
    BY <2>2, <2>3
<1>3. PoolInv /\ ChoiceInv => ChosenAnswered
  BY DEF ChoiceInv, ChosenAnswered
<1>4. QED
  BY <1>1, <1>2, <1>3, PTL
================================================================================
