-------------------------- MODULE ReduceDispatchProofs --------------------------
(***************************************************************************)
(* Proofs about ReduceDispatch for any number of partitions, clients and   *)
(* failed calls, and for any assignment at which the master fails.         *)
(***************************************************************************)
EXTENDS ReduceDispatch, SequenceTheorems, FiniteSetTheorems, TLAPS

--------------------------------------------------------------------------------
(* What adding to a list and taking from it do to its elements.               *)

\* job_q.push, resList.emplace_back and the like add one element.
LEMMA AppendList ==
    ASSUME NEW S, NEW q \in Seq(S), NEW e \in S
    PROVE  /\ Append(q, e) \in Seq(S)
           /\ Elements(Append(q, e)) = Elements(q) \cup {e}
           /\ Distinct(q) /\ e \notin Elements(q) => Distinct(Append(q, e))
<1>1. /\ Append(q, e) \in Seq(S)
      /\ Len(Append(q, e)) = Len(q) + 1
      /\ \A i \in 1..Len(q) : Append(q, e)[i] = q[i]
      /\ Append(q, e)[Len(q) + 1] = e
  BY AppendProperties
<1>2. DOMAIN q = 1..Len(q) /\ DOMAIN Append(q, e) = 1..Len(q) + 1 /\ Len(q) \in Nat
  BY <1>1, LenProperties
<1>3. Elements(Append(q, e)) = Elements(q) \cup {e}
  BY <1>1, <1>2 DEF Elements
<1>4. ASSUME Distinct(q), e \notin Elements(q) PROVE Distinct(Append(q, e))
  BY <1>1, <1>2, <1>4 DEF Elements, Distinct
<1>5. QED
  BY <1>1, <1>3, <1>4

\* job_q.pop and responseList.erase take the first element.
LEMMA TailList ==
    ASSUME NEW S, NEW q \in Seq(S), q # <<>>
    PROVE  /\ Head(q) \in S
           /\ Head(q) \in Elements(q)
           /\ Tail(q) \in Seq(S)
           /\ Len(Tail(q)) = Len(q) - 1
           /\ Elements(q) = Elements(Tail(q)) \cup {Head(q)}
           /\ Distinct(q) => Distinct(Tail(q)) /\ Head(q) \notin Elements(Tail(q))
<1>1. /\ Head(q) \in S
      /\ Tail(q) \in Seq(S)
      /\ Len(Tail(q)) = Len(q) - 1
      /\ \A i \in 1..Len(Tail(q)) : Tail(q)[i] = q[i + 1]
  BY HeadTailProperties
<1>2. /\ Len(q) \in Nat \ {0}
      /\ DOMAIN q = 1..Len(q)
      /\ DOMAIN Tail(q) = 1..Len(q) - 1
  BY <1>1, LenProperties, EmptySeq
<1>3. Head(q) = q[1]
  BY <1>2
<1>4. Elements(q) = Elements(Tail(q)) \cup {Head(q)}
  <2>1. ASSUME NEW x \in Elements(q) PROVE x \in Elements(Tail(q)) \cup {Head(q)}
    <3>1. PICK i \in DOMAIN q : q[i] = x
      BY <2>1 DEF Elements
    <3>2. CASE i = 1
      BY <3>1, <3>2, <1>3
    <3>3. CASE i # 1
      <4>1. i - 1 \in 1..Len(Tail(q)) /\ Tail(q)[i - 1] = x
        BY <3>1, <3>3, <1>1, <1>2
      <4>2. QED
        BY <4>1, <1>1, <1>2 DEF Elements
    <3>4. QED
      BY <3>2, <3>3
  <2>2. ASSUME NEW x \in Elements(Tail(q)) \cup {Head(q)} PROVE x \in Elements(q)
    BY <2>2, <1>1, <1>2, <1>3 DEF Elements
  <2>3. QED
    BY <2>1, <2>2
<1>5. ASSUME Distinct(q) PROVE Distinct(Tail(q)) /\ Head(q) \notin Elements(Tail(q))
  BY <1>1, <1>2, <1>3, <1>5 DEF Elements, Distinct
<1>6. QED
  BY <1>1, <1>4, <1>5

\* responseList.erase(itr) takes the element at itr.
LEMMA EraseList ==
    ASSUME NEW S, NEW q \in Seq(S), NEW i \in 1..Len(q)
    PROVE  /\ Erase(q, i) \in Seq(S)
           /\ Len(Erase(q, i)) = Len(q) - 1
           /\ Elements(q) = Elements(Erase(q, i)) \cup {q[i]}
<1>1. Len(q) \in Nat \ {0} /\ DOMAIN q = 1..Len(q) /\ q \in [1..Len(q) -> S]
  BY LenProperties
<1>2. Erase(q, i) \in [1..Len(q) - 1 -> S]
  BY <1>1 DEF Erase
<1>3. Erase(q, i) \in Seq(S) /\ Len(Erase(q, i)) = Len(q) - 1
  <2>1. Len(q) - 1 \in Nat
    BY <1>1
  <2>2. Erase(q, i) \in Seq(S)
    BY <1>2, <2>1, SeqDef
  <2>3. QED
    BY <1>2, <2>1, <2>2, LenProperties
<1>4. ASSUME NEW x \in Elements(q) PROVE x \in Elements(Erase(q, i)) \cup {q[i]}
  <2>1. PICK j \in 1..Len(q) : q[j] = x
    BY <1>1, <1>4 DEF Elements
  <2>2. CASE j < i
    <3>1. j \in 1..Len(q) - 1 /\ Erase(q, i)[j] = x
      BY <1>1, <2>1, <2>2 DEF Erase
    <3>2. QED
      BY <1>2, <3>1 DEF Elements
  <2>3. CASE j > i
    <3>1. j - 1 \in 1..Len(q) - 1 /\ Erase(q, i)[j - 1] = x
      BY <1>1, <2>1, <2>3 DEF Erase
    <3>2. QED
      BY <1>2, <3>1 DEF Elements
  <2>4. QED
    BY <1>1, <2>1, <2>2, <2>3
<1>5. ASSUME NEW x \in Elements(Erase(q, i)) \cup {q[i]} PROVE x \in Elements(q)
  <2>1. CASE x = q[i]
    BY <1>1, <2>1 DEF Elements
  <2>2. CASE x \in Elements(Erase(q, i))
    <3>1. PICK j \in 1..Len(q) - 1 : Erase(q, i)[j] = x
      BY <1>2, <2>2 DEF Elements
    <3>2. j \in 1..Len(q) /\ j + 1 \in 1..Len(q) /\ (x = q[j] \/ x = q[j + 1])
      BY <1>1, <3>1 DEF Erase
    <3>3. QED
      BY <1>1, <3>2 DEF Elements
  <2>3. QED
    BY <1>5, <2>1, <2>2
<1>6. QED
  BY <1>3, <1>4, <1>5

--------------------------------------------------------------------------------
(* Lists of results.                                                          *)

DistinctJobs(list) == \A i, j \in DOMAIN list : i # j => list[i].jobid # list[j].jobid
JobsOf(list) == {r.jobid : r \in Elements(list)}

\* Pushing the result of a job that has none keeps one result per job.
LEMMA PushJob ==
    ASSUME NEW list \in Seq(Result), NEW r \in Result,
           DistinctJobs(list), r.jobid \notin JobsOf(list)
    PROVE  DistinctJobs(Append(list, r)) /\ JobsOf(Append(list, r)) = JobsOf(list) \cup {r.jobid}
<1>1. /\ Len(Append(list, r)) = Len(list) + 1
      /\ \A i \in 1..Len(list) : Append(list, r)[i] = list[i]
      /\ Append(list, r)[Len(list) + 1] = r
      /\ DOMAIN list = 1..Len(list)
      /\ DOMAIN Append(list, r) = 1..Len(list) + 1
      /\ Len(list) \in Nat
  BY AppendProperties, LenProperties
<1>2. \A i \in DOMAIN list : list[i].jobid # r.jobid
  BY DEF JobsOf, Elements
<1>3. DistinctJobs(Append(list, r))
  BY <1>1, <1>2 DEF DistinctJobs
<1>4. Elements(Append(list, r)) = Elements(list) \cup {r}
  BY AppendList
<1>5. QED
  BY <1>3, <1>4 DEF JobsOf

\* Erasing a result takes its job out of the list.
LEMMA EraseJob ==
    ASSUME NEW list \in Seq(Result), NEW i \in 1..Len(list), DistinctJobs(list)
    PROVE  /\ DistinctJobs(Erase(list, i))
           /\ JobsOf(list) = JobsOf(Erase(list, i)) \cup {list[i].jobid}
           /\ list[i].jobid \notin JobsOf(Erase(list, i))
<1> DEFINE e == Erase(list, i)
           from(k) == IF k < i THEN k ELSE k + 1
<1>1. Len(list) \in Nat \ {0} /\ DOMAIN list = 1..Len(list)
  BY LenProperties
<1>2. DOMAIN e = 1..Len(list) - 1
  BY DEF Erase
<1>3. \A k \in DOMAIN e : from(k) \in DOMAIN list /\ from(k) # i /\ e[k] = list[from(k)]
  BY <1>1, <1>2 DEF Erase
<1>4. \A k, l \in DOMAIN e : k # l => from(k) # from(l)
  BY <1>2
<1>5. DistinctJobs(e)
  <2> SUFFICES ASSUME NEW k \in DOMAIN e, NEW l \in DOMAIN e, k # l
               PROVE  e[k].jobid # e[l].jobid
    BY DEF DistinctJobs
  <2>1. from(k) # from(l)
    BY <1>4
  <2> HIDE DEF from
  <2>2. QED
    BY <1>3, <2>1 DEF DistinctJobs
<1>6. list[i].jobid \notin JobsOf(e)
  <2> SUFFICES ASSUME NEW k \in DOMAIN e PROVE e[k].jobid # list[i].jobid
    BY DEF JobsOf, Elements
  <2> HIDE DEF from
  <2>1. i \in DOMAIN list
    BY <1>1
  <2>2. QED
    BY <1>3, <2>1 DEF DistinctJobs
<1>7. Elements(list) = Elements(e) \cup {list[i]}
  BY EraseList
<1>8. QED
  BY <1>5, <1>6, <1>7 DEF JobsOf

--------------------------------------------------------------------------------
(* Types.                                                                     *)

\* What the types need to be preserved: the job being counted is still at the head
\* of job_q, a re-queued one is in it, the walk through responseList stays inside
\* it, and the completion thread holds the result of a partition.
Control ==
    /\ pc \in {"invoked", "failed", "erased"} => job_q # <<>>
    /\ pc \in {"collect", "erased"} => itr \in 1..Len(responseList) + 1
    /\ tpc = "push" => got.jobid \in Jobs

TypeInv == TypeOK /\ Control

\* The phase starts with its variables of the right types.
LEMMA TypeInit == Init => TypeInv
<1> SUFFICES ASSUME Init PROVE TypeInv
  OBVIOUS
<1> USE ReduceAssumption DEF Init, TypeInv, TypeOK, Control
<1>1. AllJobs \in Seq(Jobs)
  <2>1. AllJobs \in [1..m_nreducers -> Jobs]
    BY DEF AllJobs, Jobs
  <2>2. QED
    BY <2>1, SeqDef
<1>2. responseList \in Seq(Result)
  BY EmptySeq
<1>3. got \in [jobid : Nat, ok : BOOLEAN] /\ done \in BOOLEAN
  OBVIOUS
<1>4. QED
  BY <1>1, <1>2, <1>3

\* Every step of the two threads keeps them so.
LEMMA TypeNext == TypeInv /\ QuietCollect /\ [Next]_vars => TypeInv'
<1> SUFFICES ASSUME TypeInv, QuietCollect, [Next]_vars PROVE TypeInv'
  OBVIOUS
<1> USE ReduceAssumption DEF TypeInv, TypeOK, Control, threadVars
<1>0. Jobs \subseteq Nat /\ Len(responseList) \in Nat
  BY LenProperties DEF Jobs
<1>1. CASE InvokeTask
  <2>1. Head(job_q) \in Jobs
    BY <1>1, HeadTailProperties DEF InvokeTask
  <2>2. calls' \subseteq [id : 0..ncalls' - 1, jobid : Jobs]
    BY <1>1, <2>1 DEF InvokeTask
  <2>3. QED
    BY <1>1, <2>2 DEF InvokeTask
<1>2. CASE CountTask
  <2>1. Tail(job_q) \in Seq(Jobs)
    BY <1>2, HeadTailProperties DEF CountTask
  <2>2. m_until_fail' \in Int
    BY <1>2 DEF CountTask
  <2>3. \/ pc' = "failed" /\ job_q' = job_q
        \/ pc' = "dispatch" /\ job_q' = Tail(job_q)
    BY <1>2 DEF CountTask
  <2>4. job_q' \in Seq(Jobs) /\ (pc' = "failed" => job_q' # <<>>)
    BY <1>2, <2>1, <2>3 DEF CountTask
  <2>5. pc' \in {"failed", "dispatch"}
    BY <2>3
  <2>6. QED
    BY <1>2, <2>2, <2>4, <2>5 DEF CountTask
<1>3. CASE AllSent
  BY <1>3 DEF AllSent
<1>4. CASE SeeResponses
  BY <1>0, <1>4 DEF SeeResponses
<1>5. CASE CollectOk
  BY <1>0, <1>5 DEF CollectOk
<1>6. CASE CollectFailed
  <2>1. itr \in 1..Len(responseList)
    BY <1>0, <1>6 DEF CollectFailed
  <2>2. responseList[itr].jobid \in Jobs
    <3>1. responseList[itr] \in Result
      BY <2>1, LenProperties
    <3>2. QED
      BY <3>1 DEF Result
  <2>3. responseList' \in Seq(Result) /\ Len(responseList') = Len(responseList) - 1
    BY <1>6, <2>1, EraseList DEF CollectFailed
  <2>4. job_q' \in Seq(Jobs) /\ job_q' # <<>>
    <3>1. job_q' = Append(job_q, responseList[itr].jobid)
      BY <1>6 DEF CollectFailed, Requeue
    <3>2. QED
      BY <2>2, <3>1, AppendProperties
  <2>5. itr' \in 1..Len(responseList') + 1
    BY <1>0, <1>6, <2>1, <2>3 DEF CollectFailed
  <2>6. QED
    BY <1>6, <2>3, <2>4, <2>5 DEF CollectFailed
<1>7. CASE CountDown
  BY <1>7 DEF CountDown
<1>8. CASE EndCollect
  BY <1>8 DEF EndCollect
<1>9. CASE Return
  <2>1. Succeeded \subseteq Jobs
    <3>1. Elements(responseList) \subseteq Result
      BY LenProperties DEF Elements
    <3>2. QED
      BY <3>1 DEF Succeeded, Result
  <2>2. QED
    BY <1>9, <2>1 DEF Return
<1>10. CASE Join
  BY <1>10 DEF Join
<1>11. CASE TestDone
  BY <1>11 DEF TestDone
<1>12. CASE CompareCount
  BY <1>12 DEF CompareCount
<1>13. CASE ReadDeadLocals
  BY <1>13 DEF ReadDeadLocals
<1>14. ASSUME NEW c \in calls, TakeCall(c) PROVE TypeInv'
  <2>1. c.jobid \in Jobs
    OBVIOUS
  <2>2. got' \in [jobid : Nat, ok : BOOLEAN] /\ got'.jobid = c.jobid
    <3>1. PICK ok \in BOOLEAN : got' = [jobid |-> c.jobid, ok |-> ok]
      BY <1>14 DEF TakeCall
    <3>2. c.jobid \in Nat
      BY <1>0, <2>1
    <3>3. QED
      BY <3>1, <3>2
  <2>3. failures' \in 0..MaxFailures
    BY <1>14 DEF TakeCall
  <2>4. QED
    BY <1>14, <2>1, <2>2, <2>3 DEF TakeCall
<1>15. CASE PushResponse
  <2>1. got \in Result
    BY <1>15 DEF PushResponse, Result
  <2>2. Append(responseList, got) \in Seq(Result)
    BY <2>1, AppendProperties
  <2>3. pc \notin {"collect", "erased"}
    BY <1>15 DEF PushResponse, QuietCollect
  <2>4. QED
    BY <1>15, <2>2, <2>3 DEF PushResponse
<1>16. CASE UNCHANGED vars
  BY <1>16 DEF vars
<1>17. QED
  BY <1>1, <1>2, <1>3, <1>4, <1>5, <1>6, <1>7, <1>8, <1>9, <1>10, <1>11, <1>12, <1>13, <1>14,
     <1>15, <1>16 DEF Next, Main, Thread, Over

--------------------------------------------------------------------------------
(* Where the jobs are.                                                        *)

\* At first every partition is queued.
LEMMA PlacesInit == Init => OnePlace
<1> SUFFICES ASSUME Init PROVE OnePlace
  OBVIOUS
<1>1. Elements(job_q) = Jobs /\ Distinct(job_q)
  <2>1. job_q = [i \in 1..m_nreducers |-> i - 1]
    BY DEF Init, AllJobs
  <2>2. Distinct(job_q)
    BY <2>1, ReduceAssumption DEF Distinct
  <2>3. ASSUME NEW j \in Jobs PROVE j \in Elements(job_q)
    <3>1. j + 1 \in 1..m_nreducers /\ job_q[j + 1] = j
      BY <2>1, ReduceAssumption DEF Jobs
    <3>2. QED
      BY <2>1, <3>1 DEF Elements
  <2>4. Elements(job_q) \subseteq Jobs
    BY <2>1, ReduceAssumption DEF Elements, Jobs
  <2>5. QED
    BY <2>2, <2>3, <2>4
<1>2. Elements(<<>>) = {} /\ DOMAIN <<>> = {}
  BY DEF Elements
<1>3. Waiting = Jobs /\ Called = {} /\ Held = {} /\ Answered = {}
  BY <1>1, <1>2 DEF Init, Waiting, Called, Held, Answered
<1>4. QED
  BY <1>1, <1>2, <1>3 DEF Init, OnePlace, NoJobLost, NoJobTwice

\* A step that moves no job.
LEMMA PlacesQuiet ==
    ASSUME OnePlace, UNCHANGED <<job_q, calls, responseList>>,
           (pc \in {"invoked", "failed"}) <=> (pc' \in {"invoked", "failed"}), Held' = Held
    PROVE  OnePlace'
<1>1. Waiting' = Waiting /\ Called' = Called /\ Answered' = Answered
  BY DEF Waiting, Called, Answered
<1>2. QED
  BY <1>1 DEF OnePlace, NoJobLost, NoJobTwice

\* Every step moves a job to the next place, in one piece, or moves none.
LEMMA PlacesNext ==
    ASSUME TypeInv, OnePlace, [Next]_vars
    PROVE  OnePlace'
<1> USE DEF threadVars
<1>0. /\ job_q \in Seq(Jobs)
      /\ responseList \in Seq(Result)
      /\ DistinctJobs(responseList)
      /\ Answered = JobsOf(responseList)
  BY DEF TypeInv, TypeOK, OnePlace, NoJobTwice, DistinctJobs, Answered, JobsOf
<1>1. CASE InvokeTask
  <2> DEFINE j == Head(job_q)
  <2>1. Waiting = Elements(job_q) /\ Waiting' = Elements(Tail(job_q))
    BY <1>1 DEF InvokeTask, Waiting
  <2>2. Elements(job_q) = Elements(Tail(job_q)) \cup {j} /\ j \notin Elements(Tail(job_q))
    BY <1>0, <1>1, TailList DEF InvokeTask, OnePlace, NoJobTwice
  <2>3. Called' = Called \cup {j}
    <3>1. PICK c : c = [id |-> ncalls, jobid |-> j]
      OBVIOUS
    <3>2. calls' = calls \cup {c} /\ c.jobid = j
      BY <1>1, <3>1 DEF InvokeTask
    <3>3. QED
      BY <3>2, Zenon DEF Called
  <2>4. Held' = Held /\ Answered' = Answered
    BY <1>1 DEF InvokeTask, Held, Answered
  <2>5. NoJobLost'
    BY <1>1, <2>1, <2>2, <2>3, <2>4 DEF InvokeTask, OnePlace, NoJobLost
  <2>6. \A c, d \in calls' : c # d => c.jobid # d.jobid
    <3>1. \A c \in calls : c.jobid # j
      BY <2>1, <2>2 DEF OnePlace, NoJobTwice, Called
    <3>2. QED
      BY <1>1, <3>1 DEF InvokeTask, OnePlace, NoJobTwice
  <2>7. NoJobTwice'
    BY <1>1, <2>1, <2>2, <2>3, <2>4, <2>6 DEF InvokeTask, OnePlace, NoJobTwice
  <2>8. QED
    BY <2>5, <2>7 DEF OnePlace
<1>2. CASE CountTask
  <2>1. /\ pc = "invoked"
        /\ \/ pc' = "failed" /\ job_q' = job_q
           \/ pc' = "dispatch" /\ job_q' = Tail(job_q)
    BY <1>2 DEF CountTask
  <2>2. Waiting' = Waiting /\ Called' = Called /\ Held' = Held /\ Answered' = Answered
    BY <1>2, <2>1 DEF CountTask, Waiting, Called, Held, Answered
  <2>3. Distinct(job_q')
    <3>1. Distinct(job_q) /\ job_q # <<>>
      BY <2>1 DEF TypeInv, Control, OnePlace, NoJobTwice
    <3>2. Distinct(Tail(job_q))
      BY <1>0, <3>1, TailList
    <3>3. QED
      BY <2>1, <3>1, <3>2
  <2>4. QED
    BY <1>2, <2>2, <2>3 DEF CountTask, OnePlace, NoJobLost, NoJobTwice
<1>3. CASE CollectFailed
  <2> DEFINE j == responseList[itr].jobid
  <2>1. itr \in 1..Len(responseList) /\ j \in Jobs
    <3>1. itr \in 1..Len(responseList)
      BY <1>3, LenProperties DEF CollectFailed, TypeInv, TypeOK, Control
    <3>2. responseList[itr] \in Result
      BY <1>0, <3>1, LenProperties
    <3>3. QED
      BY <3>1, <3>2 DEF Result
  <2>2. responseList' = Erase(responseList, itr) /\ job_q' = Append(job_q, j)
    BY <1>3 DEF CollectFailed, Requeue
  <2>3. /\ DistinctJobs(responseList')
        /\ Answered = Answered' \cup {j}
        /\ j \notin Answered'
    BY <1>0, <2>1, <2>2, EraseJob DEF Answered, JobsOf
  <2>4. Waiting = Elements(job_q) /\ Waiting' = Elements(job_q')
    BY <1>3 DEF CollectFailed, Waiting
  <2>5. j \notin Elements(job_q)
    BY <2>3, <2>4 DEF OnePlace, NoJobTwice
  <2>6. Elements(job_q') = Elements(job_q) \cup {j} /\ Distinct(job_q')
    BY <1>0, <2>1, <2>2, <2>5, AppendList DEF OnePlace, NoJobTwice
  <2>7. Called' = Called /\ Held' = Held /\ calls' = calls
    BY <1>3 DEF CollectFailed, Called, Held
  <2>8. NoJobLost'
    BY <2>3, <2>4, <2>6, <2>7 DEF OnePlace, NoJobLost
  <2>9. NoJobTwice'
    BY <2>3, <2>4, <2>6, <2>7 DEF OnePlace, NoJobTwice, DistinctJobs
  <2>10. QED
    BY <2>8, <2>9 DEF OnePlace
<1>4. ASSUME NEW c \in calls, TakeCall(c) PROVE OnePlace'
  <2>1. Called = Called' \cup {c.jobid} /\ c.jobid \notin Called'
    BY <1>4 DEF TakeCall, Called, OnePlace, NoJobTwice
  <2>2. Held = {} /\ Held' = {c.jobid}
    BY <1>4 DEF TakeCall, Held
  <2>3. Waiting' = Waiting /\ Answered' = Answered
    BY <1>4 DEF TakeCall, Waiting, Answered
  <2>4. NoJobLost'
    BY <1>4, <2>1, <2>2, <2>3 DEF TakeCall, OnePlace, NoJobLost
  <2>5. NoJobTwice'
    BY <1>4, <2>1, <2>2, <2>3 DEF TakeCall, OnePlace, NoJobTwice
  <2>6. QED
    BY <2>4, <2>5 DEF OnePlace
<1>5. CASE PushResponse
  <2>1. got \in Result /\ responseList' = Append(responseList, got)
    BY <1>5 DEF PushResponse, TypeInv, TypeOK, Control, Result
  <2>2. Held = {got.jobid} /\ Held' = {}
    BY <1>5 DEF PushResponse, Held
  <2>3. got.jobid \notin JobsOf(responseList)
    BY <1>0, <2>2 DEF OnePlace, NoJobTwice
  <2>4. DistinctJobs(responseList') /\ Answered' = Answered \cup {got.jobid}
    BY <1>0, <2>1, <2>3, PushJob DEF Answered, JobsOf
  <2>5. Waiting' = Waiting /\ Called' = Called
    BY <1>5 DEF PushResponse, Waiting, Called
  <2>6. QED
    BY <1>5, <2>2, <2>4, <2>5 DEF PushResponse, OnePlace, NoJobLost, NoJobTwice, DistinctJobs
<1>6. CASE AllSent \/ SeeResponses \/ CollectOk \/ CountDown \/ EndCollect \/ Return \/ Join
  <2>1. /\ UNCHANGED <<job_q, calls, responseList, tpc, got>>
        /\ pc \notin {"invoked", "failed"} /\ pc' \notin {"invoked", "failed"}
    BY <1>6 DEF AllSent, SeeResponses, CollectOk, CountDown, EndCollect, Return, Join
  <2>2. QED
    BY <2>1, PlacesQuiet DEF Held
<1>7. CASE TestDone \/ CompareCount \/ ReadDeadLocals
  <2>1. /\ UNCHANGED <<job_q, calls, responseList>>
        /\ pc' = pc \/ (pc = "returned" /\ pc' = "crashed")
        /\ tpc # "push" /\ tpc' # "push"
    BY <1>7 DEF TestDone, CompareCount, ReadDeadLocals
  <2>2. QED
    BY <2>1, PlacesQuiet DEF Held
<1>8. CASE UNCHANGED vars
  BY <1>8, PlacesQuiet DEF Held, vars
<1>9. QED
  BY <1>1, <1>2, <1>3, <1>4, <1>5, <1>6, <1>7, <1>8 DEF Next, Main, Thread, Over

--------------------------------------------------------------------------------
(* How many calls are under way.                                              *)

\* nrpcs counts the calls under way and the responses there are: one less between
\* invokeReduceTaskAsync and nrpcs++, one more between erase and nrpcs--.
CountInv ==
    /\ IsFiniteSet(calls)
    /\ nrpcs = Cardinality(calls) + (IF tpc = "push" THEN 1 ELSE 0) + Len(responseList)
               + (IF pc = "erased" THEN 1 ELSE 0) - (IF pc = "invoked" THEN 1 ELSE 0)
    /\ ClientLimit

\* Nothing is under way at first.
LEMMA CountInit == Init => CountInv
<1> SUFFICES ASSUME Init PROVE CountInv
  OBVIOUS
<1>1. IsFiniteSet(calls) /\ Cardinality(calls) = 0 /\ Len(responseList) = 0
  BY FS_EmptySet, EmptySeq DEF Init
<1>2. QED
  BY <1>1, ReduceAssumption DEF Init, CountInv, ClientLimit

\* nrpcs follows the calls and the responses through every step.
LEMMA CountNext ==
    ASSUME TypeInv, CountInv, [Next]_vars
    PROVE  CountInv'
<1> USE ReduceAssumption DEF threadVars
<1>0. /\ nrpcs \in Int
      /\ Len(responseList) \in Nat
      /\ IsFiniteSet(calls)
      /\ Cardinality(calls) \in Nat
  BY LenProperties, FS_CardinalityType DEF TypeInv, TypeOK, CountInv
<1>1. CASE InvokeTask
  <2>1. [id |-> ncalls, jobid |-> Head(job_q)] \notin calls
    BY DEF TypeInv, TypeOK
  <2>2. IsFiniteSet(calls') /\ Cardinality(calls') = Cardinality(calls) + 1
    BY <1>0, <1>1, <2>1, FS_AddElement DEF InvokeTask
  <2>3. QED
    <3>1. /\ pc = "dispatch" /\ pc' = "invoked" /\ ~(nrpcs - Len(responseList) > NClients)
          /\ UNCHANGED <<nrpcs, tpc, responseList>>
      BY <1>1 DEF InvokeTask, CanSend
    <3>2. /\ nrpcs = Cardinality(calls) + (IF tpc = "push" THEN 1 ELSE 0) + Len(responseList)
          /\ NClients \in Nat
      BY <1>0, <3>1 DEF CountInv
    <3>3. ClientLimit'
      BY <1>0, <2>2, <3>1, <3>2 DEF ClientLimit
    <3>4. nrpcs' = (Cardinality(calls') + (IF tpc' = "push" THEN 1 ELSE 0) + Len(responseList')) - 1
      <4> DEFINE x == IF tpc = "push" THEN 1 ELSE 0
                 l == Len(responseList)
                 c == Cardinality(calls)
      <4>1. x \in Nat /\ l \in Nat /\ c \in Nat /\ nrpcs = c + x + l
        BY <1>0, <3>2
      <4>2. /\ nrpcs' = nrpcs /\ Cardinality(calls') = c + 1
            /\ (IF tpc' = "push" THEN 1 ELSE 0) = x /\ Len(responseList') = l
        BY <2>2, <3>1, Zenon
      <4> HIDE DEF x, l, c
      <4>3. nrpcs = ((c + 1) + x + l) - 1
        BY <4>1
      <4>4. QED
        BY <4>2, <4>3
    <3>5. /\ (IF pc' = "erased" THEN 1 ELSE 0) = 0
          /\ (IF pc' = "invoked" THEN 1 ELSE 0) = 1
      BY <3>1
    <3> DEFINE sum == Cardinality(calls') + (IF tpc' = "push" THEN 1 ELSE 0) + Len(responseList')
    <3>6. sum \in Int /\ nrpcs' = sum - 1
      <4>1. Cardinality(calls') \in Int /\ Len(responseList') \in Int
        BY <1>0, <2>2, <3>1
      <4>2. sum \in Int
        BY <4>1
      <4>3. nrpcs' = sum - 1
        BY <3>4
      <4>4. QED
        BY <4>2, <4>3
    <3> HIDE DEF sum
    <3>7. nrpcs' = sum + (0 - 1)
      BY <3>6
    <3>8. nrpcs' = sum + ((IF pc' = "erased" THEN 1 ELSE 0) - (IF pc' = "invoked" THEN 1 ELSE 0))
      BY <3>5, <3>7, Zenon
    <3>9. QED
      BY <2>2, <3>3, <3>8, Zenon DEF CountInv, sum
<1>2. CASE CountTask
  <2>1. /\ pc = "invoked" /\ pc' \in {"dispatch", "failed"} /\ nrpcs' = nrpcs + 1
        /\ UNCHANGED <<calls, responseList, tpc>>
    BY <1>2 DEF CountTask
  <2>2. pc' # "invoked" /\ pc' # "erased" /\ pc # "erased"
    BY <2>1
  <2>3. nrpcs + 1 = Cardinality(calls) + (IF tpc = "push" THEN 1 ELSE 0) + Len(responseList)
    BY <1>0, <2>1, <2>2 DEF CountInv
  <2>4. QED
    BY <1>0, <2>1, <2>2, <2>3 DEF CountInv, ClientLimit
<1>3. CASE CollectFailed
  <2>1. itr \in 1..Len(responseList)
    BY <1>0, <1>3 DEF CollectFailed, TypeInv, TypeOK, Control
  <2>2. Len(responseList') = Len(responseList) - 1
    BY <1>3, <2>1, EraseList DEF CollectFailed, TypeInv, TypeOK
  <2>3. QED
    BY <1>0, <1>3, <2>2 DEF CollectFailed, CountInv, ClientLimit
<1>4. CASE CountDown
  BY <1>0, <1>4 DEF CountDown, CountInv, ClientLimit
<1>5. ASSUME NEW c \in calls, TakeCall(c) PROVE CountInv'
  <2>1. IsFiniteSet(calls') /\ Cardinality(calls') = Cardinality(calls) - 1
    BY <1>0, <1>5, FS_RemoveElement DEF TakeCall
  <2>2. QED
    BY <1>0, <1>5, <2>1 DEF TakeCall, CountInv, ClientLimit
<1>6. CASE PushResponse
  <2>1. got \in Result
    BY <1>6 DEF PushResponse, TypeInv, TypeOK, Control, Result
  <2>2. Len(responseList') = Len(responseList) + 1
    BY <1>6, <2>1, AppendProperties DEF PushResponse, TypeInv, TypeOK
  <2>3. QED
    BY <1>0, <1>6, <2>2 DEF PushResponse, CountInv, ClientLimit
<1>7. CASE AllSent \/ SeeResponses \/ CollectOk \/ EndCollect \/ Return \/ Join
  <2>1. /\ UNCHANGED <<nrpcs, calls, responseList, tpc>>
        /\ pc \notin {"invoked", "erased"} /\ pc' \notin {"invoked", "erased"}
    BY <1>7 DEF AllSent, SeeResponses, CollectOk, EndCollect, Return, Join
  <2>2. QED
    BY <1>0, <2>1 DEF CountInv, ClientLimit
<1>8. CASE TestDone \/ CompareCount \/ ReadDeadLocals
  <2>1. /\ UNCHANGED <<nrpcs, calls, responseList>>
        /\ pc' = pc \/ (pc = "returned" /\ pc' = "crashed")
        /\ tpc # "push" /\ tpc' # "push"
    BY <1>8 DEF TestDone, CompareCount, ReadDeadLocals
  <2>2. QED
    BY <1>0, <2>1 DEF CountInv, ClientLimit
<1>9. CASE UNCHANGED vars
  BY <1>0, <1>9 DEF vars, CountInv, ClientLimit
<1>10. QED
  BY <1>1, <1>2, <1>3, <1>4, <1>5, <1>6, <1>7, <1>8, <1>9 DEF Next, Main, Thread, Over

\* When the responses there are make up nrpcs, no call is under way.
LEMMA NoneUnderWay ==
    ASSUME TypeInv, CountInv, pc \notin {"invoked", "erased"}, nrpcs = Len(responseList)
    PROVE  calls = {} /\ tpc # "push"
<1>1. Len(responseList) \in Nat /\ Cardinality(calls) \in Nat
  BY LenProperties, FS_CardinalityType DEF TypeInv, TypeOK, CountInv
<1>2. Cardinality(calls) = 0 /\ tpc # "push"
  BY <1>1 DEF CountInv
<1>3. QED
  BY <1>2, FS_EmptySet DEF CountInv

--------------------------------------------------------------------------------
(* The walk through the responses, and the end of the phase.                  *)

\* A completion thread that waits in cq.Next has a call to wait for, or will have
\* one: it went there between erase and nrpcs--, and the erased job is sent again.
Parked == tpc = "next" /\ calls = {} => job_q # <<>> /\ pc # "invoked"

\* Behind itr there are only successful responses, and at the end no others.
Collected ==
    /\ pc \in {"collect", "erased"} => \A i \in 1..itr - 1 : responseList[i].ok
    /\ pc \in {"output", "returned", "joined", "crashed"} =>
          /\ \A i \in 1..Len(responseList) : responseList[i].ok
          /\ job_q = <<>>
          /\ nrpcs = Len(responseList)

\* QuietCollect goes on to the end of the phase.
Quiet ==
    pc \in {"collect", "erased", "output", "returned", "joined", "crashed"} =>
        calls = {} /\ tpc # "push"

\* The walk starts when no call is under way, and none is started before it ends.
LEMMA QuietNext ==
    ASSUME TypeInv, CountInv, Quiet, [Next]_vars
    PROVE  Quiet'
<1> USE DEF threadVars
<1>1. CASE SeeResponses
  <2>1. pc = "spin" /\ nrpcs = Len(responseList) /\ UNCHANGED <<calls, tpc>>
    BY <1>1 DEF SeeResponses, AllThere
  <2>2. calls = {} /\ tpc # "push"
    BY <2>1, NoneUnderWay
  <2>3. QED
    BY <2>1, <2>2 DEF Quiet
<1>2. CASE InvokeTask \/ CountTask \/ AllSent
  <2>1. pc' \in {"invoked", "failed", "dispatch", "spin"}
    BY <1>2 DEF InvokeTask, CountTask, AllSent
  <2>2. QED
    BY <2>1 DEF Quiet
<1>3. CASE CollectOk \/ CollectFailed \/ CountDown \/ EndCollect \/ Return \/ Join
  <2>1. pc \in {"collect", "erased", "output", "returned"} /\ UNCHANGED <<calls, tpc>>
    BY <1>3 DEF CollectOk, CollectFailed, CountDown, EndCollect, Return, Join
  <2>2. QED
    BY <2>1 DEF Quiet
<1>4. CASE TestDone \/ CompareCount \/ ReadDeadLocals
  <2>1. calls' = calls /\ tpc' # "push" /\ (pc' = pc \/ pc = "returned")
    BY <1>4 DEF TestDone, CompareCount, ReadDeadLocals
  <2>2. QED
    BY <2>1 DEF Quiet
<1>5. ASSUME NEW c \in calls, TakeCall(c) PROVE Quiet'
  BY <1>5 DEF TakeCall, Quiet
<1>6. CASE PushResponse
  BY <1>6 DEF PushResponse, Quiet
<1>7. CASE UNCHANGED vars
  BY <1>7 DEF vars, Quiet
<1>8. QED
  BY <1>1, <1>2, <1>3, <1>4, <1>5, <1>6, <1>7 DEF Next, Main, Thread, Over

\* The thread goes to cq.Next when a call is under way, or is about to be again.
LEMMA ParkedNext ==
    ASSUME TypeInv, CountInv, Quiet, Collected, Parked, [Next]_vars
    PROVE  Parked'
<1> USE DEF threadVars
<1>1. CASE CompareCount
  <2>1. UNCHANGED <<pc, calls, job_q>> /\ tpc = "count"
    BY <1>1 DEF CompareCount
  <2>2. CASE ~MoreToCome
    BY <1>1, <2>2 DEF CompareCount, Parked
  <2>3. CASE MoreToCome
    <3>1. Len(responseList) \in Nat /\ nrpcs \in Int
      BY LenProperties DEF TypeInv, TypeOK
    <3>2. nrpcs > Len(responseList)
      BY <2>3 DEF MoreToCome
    <3>3. calls = {} => pc = "erased"
      <4>1. calls = {} => Cardinality(calls) = 0
        BY FS_EmptySet
      <4>2. QED
        BY <2>1, <3>1, <3>2, <4>1 DEF CountInv
    <3>4. pc = "erased" => job_q # <<>>
      BY DEF TypeInv, Control
    <3>5. QED
      BY <2>1, <3>3, <3>4 DEF Parked
  <2>4. QED
    BY <2>2, <2>3
<1>2. CASE InvokeTask
  <2>1. calls' # {}
    BY <1>2 DEF InvokeTask
  <2>2. QED
    BY <2>1 DEF Parked
<1>3. CASE CountTask
  <2>1. pc = "invoked" /\ UNCHANGED <<calls, tpc>>
    BY <1>3 DEF CountTask
  <2>2. QED
    BY <2>1 DEF Parked
<1>4. CASE CollectFailed
  <2>1. job_q' # <<>> /\ pc' # "invoked"
    <3>1. TypeInv'
      BY <1>4, TypeNext DEF Next, Main, Quiet, QuietCollect
    <3>2. pc' = "erased"
      BY <1>4 DEF CollectFailed
    <3>3. QED
      BY <3>1, <3>2 DEF TypeInv, Control
  <2>2. QED
    BY <2>1 DEF Parked
<1>5. CASE AllSent \/ SeeResponses \/ CollectOk \/ CountDown \/ EndCollect \/ Return \/ Join
  <2>1. UNCHANGED <<calls, tpc, job_q>> /\ pc' # "invoked"
    BY <1>5 DEF AllSent, SeeResponses, CollectOk, CountDown, EndCollect, Return, Join
  <2>2. QED
    BY <2>1 DEF Parked
<1>6. CASE TestDone \/ ReadDeadLocals
  <2>1. tpc' # "next"
    BY <1>6 DEF TestDone, ReadDeadLocals
  <2>2. QED
    BY <2>1 DEF Parked
<1>7. ASSUME NEW c \in calls, TakeCall(c) PROVE Parked'
  BY <1>7 DEF TakeCall, Parked
<1>8. CASE PushResponse
  BY <1>8 DEF PushResponse, Parked
<1>9. CASE UNCHANGED vars
  BY <1>9 DEF vars, Parked
<1>10. QED
  BY <1>1, <1>2, <1>3, <1>4, <1>5, <1>6, <1>7, <1>8, <1>9 DEF Next, Main, Thread, Over

\* Failed responses are erased on the way; the walk ends behind the last response.
LEMMA CollectedNext ==
    ASSUME TypeInv, CountInv, Quiet, Collected, [Next]_vars
    PROVE  Collected'
<1> USE DEF threadVars
<1>0. Len(responseList) \in Nat /\ itr \in Nat /\ nrpcs \in Int
  BY LenProperties DEF TypeInv, TypeOK
<1>1. CASE SeeResponses
  <2>1. pc' = "collect" /\ itr' = 1
    BY <1>1 DEF SeeResponses
  <2>2. 1..itr' - 1 = {}
    BY <2>1
  <2>3. QED
    BY <2>1, <2>2 DEF Collected
<1>2. CASE CollectOk
  <2>1. /\ pc = "collect" /\ pc' = "collect" /\ responseList' = responseList
        /\ itr' = itr + 1 /\ responseList[itr].ok
    BY <1>2 DEF CollectOk
  <2>2. \A i \in 1..itr' - 1 : i \in 1..itr - 1 \/ i = itr
    BY <1>0, <2>1
  <2>3. QED
    BY <2>1, <2>2 DEF Collected
<1>3. CASE CollectFailed
  <2>1. /\ pc = "collect" /\ pc' = "erased" /\ itr' = itr
        /\ responseList' = Erase(responseList, itr) /\ itr <= Len(responseList)
    BY <1>3 DEF CollectFailed
  <2>2. \A i \in 1..itr - 1 : responseList'[i] = responseList[i]
    BY <1>0, <2>1 DEF Erase
  <2>3. QED
    BY <2>1, <2>2 DEF Collected
<1>4. CASE CountDown
  BY <1>4 DEF CountDown, Collected
<1>5. CASE EndCollect
  <2>1. CASE job_q # <<>>
    <3>1. pc' = "dispatch"
      BY <1>5, <2>1 DEF EndCollect, NothingFailed
    <3>2. QED
      BY <3>1 DEF Collected
  <2>2. CASE job_q = <<>>
    <3>1. /\ pc = "collect" /\ pc' = "output" /\ itr = Len(responseList) + 1
          /\ UNCHANGED <<job_q, nrpcs, responseList>>
      BY <1>5, <2>2 DEF EndCollect, NothingFailed
    <3>2. itr - 1 = Len(responseList)
      BY <1>0, <3>1
    <3>3. nrpcs = Len(responseList)
      <4>1. calls = {} /\ tpc # "push" /\ Cardinality({}) = 0
        BY <3>1, FS_EmptySet DEF Quiet
      <4>2. QED
        BY <1>0, <3>1, <4>1 DEF CountInv
    <3>4. QED
      BY <2>2, <3>1, <3>2, <3>3 DEF Collected
  <2>3. QED
    BY <2>1, <2>2
<1>6. CASE Return \/ Join
  <2>1. /\ pc \in {"output", "returned"} /\ pc' \in {"returned", "joined"}
        /\ UNCHANGED <<job_q, nrpcs, responseList>>
    BY <1>6 DEF Return, Join
  <2>2. QED
    BY <2>1 DEF Collected
<1>7. CASE InvokeTask \/ CountTask \/ AllSent
  <2>1. pc' \in {"invoked", "failed", "dispatch", "spin"}
    BY <1>7 DEF InvokeTask, CountTask, AllSent
  <2>2. QED
    BY <2>1 DEF Collected
<1>8. CASE TestDone \/ CompareCount \/ ReadDeadLocals
  <2>1. /\ UNCHANGED <<job_q, nrpcs, responseList, itr>>
        /\ pc' = pc \/ (pc = "returned" /\ pc' = "crashed")
    BY <1>8 DEF TestDone, CompareCount, ReadDeadLocals
  <2>2. QED
    BY <2>1 DEF Collected
<1>9. ASSUME NEW c \in calls, TakeCall(c) PROVE Collected'
  BY <1>9 DEF TakeCall, Collected
<1>10. CASE PushResponse
  <2>1. pc \notin {"collect", "erased", "output", "returned", "joined", "crashed"} /\ pc' = pc
    BY <1>10 DEF PushResponse, Quiet
  <2>2. QED
    BY <2>1 DEF Collected
<1>11. CASE UNCHANGED vars
  BY <1>11 DEF vars, Collected
<1>12. QED
  BY <1>1, <1>2, <1>3, <1>4, <1>5, <1>6, <1>7, <1>8, <1>9, <1>10, <1>11
     DEF Next, Main, Thread, Over

\* With no failed response and no other place for a job, every partition succeeded.
LEMMA AllSucceeded ==
    ASSUME TypeInv, OnePlace, Quiet, pc \in {"collect", "output"}, job_q = <<>>,
           \A i \in 1..Len(responseList) : responseList[i].ok
    PROVE  Succeeded = Jobs
<1>1. Waiting = {} /\ Called = {} /\ Held = {}
  BY DEF Quiet, Waiting, Called, Held, Elements
<1>2. Answered = Jobs
  BY <1>1 DEF OnePlace, NoJobLost
<1>3. \A r \in Elements(responseList) : r.ok
  <2>1. DOMAIN responseList = 1..Len(responseList)
    BY LenProperties DEF TypeInv, TypeOK
  <2>2. QED
    BY <2>1 DEF Elements
<1>4. QED
  BY <1>2, <1>3 DEF Succeeded, Answered

\* m_OutputResultMap is complete when dispatchReduceTasks returns, and stays so.
LEMMA OutputNext ==
    ASSUME TypeInv, OnePlace, Quiet, Collected, Parked, CompleteOutput, [Next]_vars, Quiet'
    PROVE  CompleteOutput'
<1> USE DEF threadVars
<1>1. CASE Return
  <2>1. pc = "output" /\ outputs' = outputs \cup Succeeded /\ UNCHANGED <<calls, tpc>>
    BY <1>1 DEF Return
  <2>2. outputs' = Jobs
    BY <2>1, AllSucceeded DEF TypeInv, TypeOK, Collected
  <2>3. tpc # "next"
    BY <2>1 DEF Parked, Quiet, Collected
  <2>4. QED
    BY <2>1, <2>2, <2>3 DEF CompleteOutput, Quiet
<1>2. CASE Join
  BY <1>2 DEF Join, CompleteOutput
<1>3. CASE CompareCount
  <2>1. pc' = pc /\ UNCHANGED <<outputs, calls>>
    BY <1>3 DEF CompareCount
  <2>2. pc \in {"returned", "joined", "crashed"} => tpc' = "test"
    <3>1. pc \in {"returned", "joined", "crashed"} => ~MoreToCome
      <4>1. Len(responseList) \in Nat
        BY LenProperties DEF TypeInv, TypeOK
      <4>2. QED
        BY <4>1 DEF Collected, MoreToCome
    <3>2. QED
      BY <1>3, <3>1 DEF CompareCount
  <2>3. QED
    BY <2>1, <2>2 DEF CompleteOutput
<1>4. CASE TestDone \/ ReadDeadLocals
  <2>1. /\ pc' = pc \/ (pc = "returned" /\ pc' = "crashed")
        /\ UNCHANGED <<outputs, calls>>
        /\ tpc' \notin {"next", "push"}
    BY <1>4 DEF TestDone, ReadDeadLocals
  <2>2. QED
    BY <2>1 DEF CompleteOutput
<1>5. ASSUME NEW c \in calls, TakeCall(c) PROVE CompleteOutput'
  BY <1>5 DEF TakeCall, CompleteOutput
<1>6. CASE PushResponse
  BY <1>6 DEF PushResponse, CompleteOutput
<1>7. CASE InvokeTask \/ CountTask \/ AllSent \/ SeeResponses \/ CollectOk \/ CollectFailed
           \/ CountDown \/ EndCollect
  <2>1. pc' \notin {"returned", "joined", "crashed"}
    BY <1>7 DEF InvokeTask, CountTask, AllSent, SeeResponses, CollectOk, CollectFailed,
                CountDown, EndCollect
  <2>2. QED
    BY <2>1 DEF CompleteOutput
<1>8. CASE UNCHANGED vars
  BY <1>8 DEF vars, CompleteOutput
<1>9. QED
  BY <1>1, <1>2, <1>3, <1>4, <1>5, <1>6, <1>7, <1>8 DEF Next, Main, Thread, Over

\* The inductive invariant of the phase.
IInv ==
    /\ TypeInv
    /\ OnePlace
    /\ CountInv
    /\ Quiet
    /\ Collected
    /\ Parked
    /\ CompleteOutput

\* The invariant holds in every state of the phase.
LEMMA Inductive == Spec => []IInv
<1>1. Init => IInv
  <2>1. Init => Quiet /\ Collected /\ Parked /\ CompleteOutput
    BY DEF Init, Quiet, Collected, Parked, CompleteOutput
  <2>2. QED
    BY <2>1, TypeInit, PlacesInit, CountInit DEF IInv
<1>2. IInv /\ [Next]_vars => IInv'
  <2> SUFFICES ASSUME IInv, [Next]_vars PROVE IInv'
    OBVIOUS
  <2> USE DEF IInv
  <2>1. QuietCollect
    BY DEF Quiet, QuietCollect
  <2>2. TypeInv'
    BY <2>1, TypeNext
  <2>3. OnePlace' /\ CountInv' /\ Quiet' /\ Collected' /\ Parked'
    BY PlacesNext, CountNext, QuietNext, CollectedNext, ParkedNext
  <2>4. CompleteOutput'
    BY <2>3, OutputNext
  <2>5. QED
    BY <2>2, <2>3, <2>4
<1>3. QED
  BY <1>1, <1>2, PTL DEF Spec

--------------------------------------------------------------------------------
(* What the phase guarantees.                                                 *)

\* The variables of dispatchReduceTasks and AsyncCompleteReduceRpc keep their types;
\* in particular itr never leaves responseList.
THEOREM ReduceTypeCorrect == Spec => []TypeOK
<1>1. IInv => TypeOK
  BY DEF IInv, TypeInv
<1>2. QED
  BY <1>1, Inductive, PTL

\* Every partition is always queued, in a call, with the completion thread or
\* answered, and only one of these: no interleaving of dispatchReduceTasks with
\* AsyncCompleteReduceRpc and no failed call loses a reduce job or runs it twice.
THEOREM JobsConserved == Spec => []OnePlace
<1>1. IInv => OnePlace
  BY DEF IInv
<1>2. QED
  BY <1>1, Inductive, PTL

\* The walk through responseList, which the lock does not cover, is never disturbed:
\* the spin ends only when no call can add a response.
THEOREM WalkUndisturbed == Spec => []QuietCollect
<1>1. IInv => QuietCollect
  BY DEF IInv, Quiet, QuietCollect
<1>2. QED
  BY <1>1, Inductive, PTL

\* The unsigned difference nrpcs - responseList.size() never wraps around, and the
\* test on it keeps at most one call more than there are clients under way.
THEOREM DifferenceSafe == Spec => [](NoUnderflow /\ ClientLimit)
<1>1. IInv => NoUnderflow /\ ClientLimit
  <2> SUFFICES ASSUME IInv PROVE NoUnderflow /\ ClientLimit
    OBVIOUS
  <2>1. Len(responseList) \in Nat /\ Cardinality(calls) \in Nat
    BY LenProperties, FS_CardinalityType DEF IInv, TypeInv, TypeOK, CountInv
  <2>2. NoUnderflow
    BY <2>1 DEF IInv, CountInv, NoUnderflow
  <2>3. QED
    BY <2>2 DEF IInv, CountInv
<1>2. QED
  BY <1>1, Inductive, PTL

\* dispatchReduceTasks returns with the output of every partition, and the
\* completion thread is then neither in the queue nor pushing.
THEOREM OutputComplete == Spec => []CompleteOutput
<1>1. IInv => CompleteOutput
  BY DEF IInv
<1>2. QED
  BY <1>1, Inductive, PTL

--------------------------------------------------------------------------------
(* Refinement.                                                                *)

\* Every step of the two threads adds one partition's result, finishes the phase with
\* every partition, abandons it, or changes neither.
LEMMA PhaseStep ==
    ASSUME IInv, IInv', [Next]_vars
    PROVE  [Abstract!Next]_<<Succeeded, Phase>>
<1> USE DEF threadVars, Abstract!Next, Abstract!Record, Abstract!Finish, Abstract!Abandon
<1>0. responseList \in Seq(Result)
  BY DEF IInv, TypeInv, TypeOK
<1>1. CASE PushResponse
  <2>1. got \in Result /\ got.jobid \in Jobs /\ got.jobid \notin Answered
    BY <1>1 DEF PushResponse, IInv, TypeInv, TypeOK, Control, Result, OnePlace, NoJobTwice, Held
  <2>2. Elements(responseList') = Elements(responseList) \cup {got}
    BY <1>0, <1>1, <2>1, AppendList DEF PushResponse
  <2>3. got.jobid \notin Succeeded
    BY <2>1 DEF Succeeded, Answered
  <2>4. \/ Succeeded' = Succeeded
        \/ Succeeded' = Succeeded \cup {got.jobid}
    <3>1. CASE got.ok
      BY <2>2, <3>1 DEF Succeeded
    <3>2. CASE ~got.ok
      BY <2>2, <3>2 DEF Succeeded
    <3>3. QED
      BY <3>1, <3>2
  <2>5. Phase = "running" /\ Phase' = "running"
    <3>1. pc' = pc /\ pc \notin {"output", "returned", "joined", "crashed"}
      BY <1>1 DEF PushResponse, IInv, Quiet
    <3>2. QED
      BY <3>1 DEF Phase
  <2>6. QED
    BY <2>1, <2>3, <2>4, <2>5
<1>2. CASE CollectFailed
  <2>1. itr \in 1..Len(responseList)
    BY <1>0, <1>2, LenProperties DEF CollectFailed, IInv, TypeInv, TypeOK, Control
  <2>2. Elements(responseList) = Elements(responseList') \cup {responseList[itr]}
    BY <1>0, <1>2, <2>1, EraseList DEF CollectFailed
  <2>3. Succeeded' = Succeeded
    BY <1>2, <2>2 DEF CollectFailed, Succeeded
  <2>4. Phase' = Phase
    BY <1>2 DEF CollectFailed, Phase
  <2>5. QED
    BY <2>3, <2>4
<1>3. CASE EndCollect
  <2>1. Succeeded' = Succeeded /\ pc = "collect" /\ pc' \in {"output", "dispatch"}
    BY <1>3 DEF EndCollect, Succeeded
  <2>2. CASE pc' = "dispatch"
    BY <2>1, <2>2 DEF Phase
  <2>3. CASE pc' = "output"
    <3>1. Phase = "running" /\ Phase' = "finished"
      BY <2>1, <2>3 DEF Phase
    <3>2. Succeeded = Jobs
      <4>1. job_q = <<>> /\ itr = Len(responseList) + 1
        BY <1>3, <2>3 DEF EndCollect, NothingFailed
      <4>2. itr - 1 = Len(responseList)
        BY <1>0, <4>1, LenProperties
      <4>3. QED
        BY <2>1, <4>1, <4>2, AllSucceeded DEF IInv, Collected
    <3>3. QED
      BY <2>1, <3>1, <3>2
  <2>4. QED
    BY <2>1, <2>2, <2>3
<1>4. CASE CountTask
  <2>1. pc = "invoked" /\ pc' \in {"dispatch", "failed"} /\ Succeeded' = Succeeded
    BY <1>4 DEF CountTask, Succeeded
  <2>2. QED
    BY <2>1 DEF Phase
<1>5. CASE /\ UNCHANGED responseList
           /\ pc' = pc \/ (pc = "returned" /\ pc' = "crashed")
  <2>1. Succeeded' = Succeeded
    BY <1>5 DEF Succeeded
  <2>2. Phase' = Phase \/ (Phase # "abandoned" /\ Phase' = "abandoned")
    BY <1>5 DEF Phase
  <2>3. QED
    BY <2>1, <2>2
<1>6. CASE InvokeTask \/ AllSent \/ SeeResponses \/ CountDown
  <2>1. Succeeded' = Succeeded /\ Phase = "running" /\ Phase' = "running"
    BY <1>6 DEF InvokeTask, AllSent, SeeResponses, CountDown, Phase, Succeeded
  <2>2. QED
    BY <2>1
<1>7. CASE Return \/ Join
  <2>1. Succeeded' = Succeeded /\ Phase = "finished" /\ Phase' = "finished"
    BY <1>7 DEF Return, Join, Phase, Succeeded
  <2>2. QED
    BY <2>1
<1>8. QED
  BY <1>1, <1>2, <1>3, <1>4, <1>5, <1>6, <1>7 DEF Next, Main, Thread, Over, vars, CollectOk,
     TestDone, CompareCount, ReadDeadLocals, TakeCall

\* dispatchReduceTasks implements TaskPhase: whatever its threads do, a caller sees
\* one result per partition and the phase finished only with all of them.
THEOREM ReduceImplementsTaskPhase == Spec => ImplementsTaskPhase
<1>1. Init => Abstract!Init
  <2>1. Init => Succeeded \subseteq Jobs /\ Phase = "running"
    BY DEF Init, Succeeded, Elements, Phase
  <2>2. QED
    BY <2>1 DEF Abstract!Init
<1>2. IInv /\ IInv' /\ [Next]_vars => [Abstract!Next]_<<Succeeded, Phase>>
  BY PhaseStep
<1>3. QED
  BY <1>1, <1>2, Inductive, PTL DEF Spec, ImplementsTaskPhase, Abstract!Spec
================================================================================
