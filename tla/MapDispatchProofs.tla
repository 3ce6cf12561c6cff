--------------------------- MODULE MapDispatchProofs ---------------------------
(***************************************************************************)
(* Proofs about MapDispatch for any number of shards, any limit on the     *)
(* calls under way, any checkpoint and any number of failed calls.  The    *)
(* one hypothesis on the job is that it has no more shards than mappers    *)
(* (EnoughMappers); create_sharding_data does not ensure it, see Sharding. *)
(***************************************************************************)
EXTENDS MapDispatch, SequenceTheorems, FiniteSetTheorems, TLAPS

--------------------------------------------------------------------------------
(* What adding to a list and taking from it do to its elements.               *)

\* job_q.push, resList.emplace_back and the like add one element.
LEMMA AppendList ==
    ASSUME NEW S, NEW q \in Seq(S), NEW e \in S
    PROVE  /\ Append(q, e) \in Seq(S)
           /\ Elements(Append(q, e)) = Elements(q) \cup {e}
           /\ Distinct(q) /\ e \notin Elements(q) => Distinct(Append(q, e))
<1>1. /\ Append(q, e) \in Seq(S)
      /\ Len(Append(q, e)) = Len(q) + 1
      /\ \A i \in 1..Len(q) : Append(q, e)[i] = q[i]
      /\ Append(q, e)[Len(q) + 1] = e
  BY AppendProperties
<1>2. DOMAIN q = 1..Len(q) /\ DOMAIN Append(q, e) = 1..Len(q) + 1 /\ Len(q) \in Nat
  BY <1>1, LenProperties
<1>3. Elements(Append(q, e)) = Elements(q) \cup {e}
  BY <1>1, <1>2 DEF Elements
<1>4. ASSUME Distinct(q), e \notin Elements(q) PROVE Distinct(Append(q, e))
  BY <1>1, <1>2, <1>4 DEF Elements, Distinct
<1>5. QED
  BY <1>1, <1>3, <1>4

\* job_q.pop and responseList.erase take the first element.
LEMMA TailList ==
    ASSUME NEW S, NEW q \in Seq(S), q # <<>>
    PROVE  /\ Head(q) \in S
           /\ Head(q) \in Elements(q)
           /\ Tail(q) \in Seq(S)
           /\ Len(Tail(q)) = Len(q) - 1
           /\ Elements(q) = Elements(Tail(q)) \cup {Head(q)}
           /\ Distinct(q) => Distinct(Tail(q)) /\ Head(q) \notin Elements(Tail(q))
<1>1. /\ Head(q) \in S
      /\ Tail(q) \in Seq(S)
      /\ Len(Tail(q)) = Len(q) - 1
      /\ \A i \in 1..Len(Tail(q)) : Tail(q)[i] = q[i + 1]
  BY HeadTailProperties
<1>2. /\ Len(q) \in Nat \ {0}
      /\ DOMAIN q = 1..Len(q)
      /\ DOMAIN Tail(q) = 1..Len(q) - 1
  BY <1>1, LenProperties, EmptySeq
<1>3. Head(q) = q[1]
  BY <1>2
<1>4. Elements(q) = Elements(Tail(q)) \cup {Head(q)}
  <2>1. ASSUME NEW x \in Elements(q) PROVE x \in Elements(Tail(q)) \cup {Head(q)}
    <3>1. PICK i \in DOMAIN q : q[i] = x
      BY <2>1 DEF Elements
    <3>2. CASE i = 1
      BY <3>1, <3>2, <1>3
    <3>3. CASE i # 1
      <4>1. i - 1 \in 1..Len(Tail(q)) /\ Tail(q)[i - 1] = x
        BY <3>1, <3>3, <1>1, <1>2
      <4>2. QED
        BY <4>1, <1>1, <1>2 DEF Elements
    <3>4. QED
      BY <3>2, <3>3
  <2>2. ASSUME NEW x \in Elements(Tail(q)) \cup {Head(q)} PROVE x \in Elements(q)
    BY <2>2, <1>1, <1>2, <1>3 DEF Elements
  <2>3. QED
    BY <2>1, <2>2
<1>5. ASSUME Distinct(q) PROVE Distinct(Tail(q)) /\ Head(q) \notin Elements(Tail(q))
  BY <1>1, <1>2, <1>3, <1>5 DEF Elements, Distinct
<1>6. QED
  BY <1>1, <1>4, <1>5

EnoughMappers == NShards <= m_nmappers

--------------------------------------------------------------------------------
(* Lists of results.                                                          *)

\* The shards of a list of results change with the list.
LEMMA ShardIdsList ==
    ASSUME NEW S, NEW list \in Seq([shardId : S, ok : BOOLEAN])
    PROVE  /\ ShardIds(list) \in Seq(S)
           /\ Len(ShardIds(list)) = Len(list)
           /\ \A r \in [shardId : S, ok : BOOLEAN] :
                 ShardIds(Append(list, r)) = Append(ShardIds(list), r.shardId)
           /\ list # <<>> =>
                 /\ ShardIds(list) # <<>>
                 /\ Head(ShardIds(list)) = Head(list).shardId
                 /\ ShardIds(Tail(list)) = Tail(ShardIds(list))
<1> DEFINE R == [shardId : S, ok : BOOLEAN]
<1>1. ASSUME NEW l \in Seq(R)
      PROVE  /\ ShardIds(l) \in Seq(S)
             /\ Len(ShardIds(l)) = Len(l)
             /\ \A i \in 1..Len(l) : ShardIds(l)[i] = l[i].shardId
  <2>1. DOMAIN l = 1..Len(l) /\ Len(l) \in Nat /\ \A i \in 1..Len(l) : l[i].shardId \in S
    <3>1. l \in [1..Len(l) -> R] /\ DOMAIN l = 1..Len(l) /\ Len(l) \in Nat
      BY LenProperties
    <3>2. QED
      BY <3>1
  <2>2. ShardIds(l) \in [1..Len(l) -> S]
    BY <2>1 DEF ShardIds
  <2>3. ShardIds(l) \in Seq(S)
    BY <2>1, <2>2, SeqDef
  <2>4. QED
    BY <2>1, <2>2, <2>3, LenProperties DEF ShardIds
<1>2. ASSUME NEW r \in R
      PROVE  ShardIds(Append(list, r)) = Append(ShardIds(list), r.shardId)
  <2>1. /\ Append(list, r) \in Seq(R)
        /\ Len(Append(list, r)) = Len(list) + 1
        /\ \A i \in 1..Len(list) : Append(list, r)[i] = list[i]
        /\ Append(list, r)[Len(list) + 1] = r
    BY AppendProperties
  <2>2. /\ Append(ShardIds(list), r.shardId) \in Seq(S)
        /\ Len(Append(ShardIds(list), r.shardId)) = Len(list) + 1
        /\ \A i \in 1..Len(list) : Append(ShardIds(list), r.shardId)[i] = list[i].shardId
        /\ Append(ShardIds(list), r.shardId)[Len(list) + 1] = r.shardId
    <3>1. r.shardId \in S /\ ShardIds(list) \in Seq(S) /\ Len(ShardIds(list)) = Len(list)
      BY <1>1
    <3>2. /\ Append(ShardIds(list), r.shardId) \in Seq(S)
          /\ Len(Append(ShardIds(list), r.shardId)) = Len(ShardIds(list)) + 1
          /\ \A i \in 1..Len(ShardIds(list)) :
                Append(ShardIds(list), r.shardId)[i] = ShardIds(list)[i]
          /\ Append(ShardIds(list), r.shardId)[Len(ShardIds(list)) + 1] = r.shardId
      BY <3>1, AppendProperties
    <3>3. QED
      BY <1>1, <3>1, <3>2
  <2>3. Len(list) \in Nat
    BY LenProperties
  <2>4. /\ ShardIds(Append(list, r)) \in Seq(S)
        /\ Len(ShardIds(Append(list, r))) = Len(list) + 1
        /\ \A i \in 1..Len(list) : ShardIds(Append(list, r))[i] = list[i].shardId
        /\ ShardIds(Append(list, r))[Len(list) + 1] = r.shardId
    <3>1. /\ ShardIds(Append(list, r)) \in Seq(S)
          /\ Len(ShardIds(Append(list, r))) = Len(Append(list, r))
          /\ \A i \in 1..Len(Append(list, r)) :
                ShardIds(Append(list, r))[i] = Append(list, r)[i].shardId
      BY <1>1, <2>1
    <3>2. QED
      BY <2>1, <2>3, <3>1
  <2>5. \A i \in 1..Len(list) + 1 :
           ShardIds(Append(list, r))[i] = Append(ShardIds(list), r.shardId)[i]
    BY <2>2, <2>3, <2>4
  <2>6. QED
    BY <2>2, <2>4, <2>5, SeqEqual
<1>3. ASSUME list # <<>>
      PROVE  /\ ShardIds(list) # <<>>
             /\ Head(ShardIds(list)) = Head(list).shardId
             /\ ShardIds(Tail(list)) = Tail(ShardIds(list))
  <2>1. Len(list) \in Nat \ {0}
    BY <1>3, EmptySeq
  <2>0. /\ ShardIds(list) \in Seq(S)
        /\ Len(ShardIds(list)) = Len(list)
        /\ \A i \in 1..Len(list) : ShardIds(list)[i] = list[i].shardId
    BY <1>1
  <2>2. ShardIds(list) # <<>>
    BY <2>0, <2>1, EmptySeq
  <2>3. Head(ShardIds(list)) = Head(list).shardId
    <3>1. Head(ShardIds(list)) = ShardIds(list)[1] /\ Head(list) = list[1]
      BY <1>3, <2>0, <2>1, <2>2
    <3>2. QED
      BY <2>0, <2>1, <3>1
  <2>4. /\ Tail(list) \in Seq(R)
        /\ Len(Tail(list)) = Len(list) - 1
        /\ \A i \in 1..Len(list) - 1 : Tail(list)[i] = list[i + 1]
    BY <1>3, HeadTailProperties
  <2>5. /\ Tail(ShardIds(list)) \in Seq(S)
        /\ Len(Tail(ShardIds(list))) = Len(list) - 1
        /\ \A i \in 1..Len(list) - 1 : Tail(ShardIds(list))[i] = list[i + 1].shardId
    <3>1. /\ Tail(ShardIds(list)) \in Seq(S)
          /\ Len(Tail(ShardIds(list))) = Len(list) - 1
          /\ \A i \in 1..Len(Tail(ShardIds(list))) : Tail(ShardIds(list))[i] = ShardIds(list)[i + 1]
      BY <2>0, <2>2, HeadTailProperties
    <3>2. ASSUME NEW i \in 1..Len(list) - 1
          PROVE  Tail(ShardIds(list))[i] = list[i + 1].shardId
      <4>1. i + 1 \in 1..Len(list) /\ i \in 1..Len(Tail(ShardIds(list)))
        BY <2>0, <2>1, <3>1
      <4>2. QED
        BY <2>0, <3>1, <4>1
    <3>3. QED
      BY <2>0, <3>1, <3>2
  <2>6. ShardIds(Tail(list)) = Tail(ShardIds(list))
    <3>1. /\ ShardIds(Tail(list)) \in Seq(S)
          /\ Len(ShardIds(Tail(list))) = Len(list) - 1
          /\ \A i \in 1..Len(list) - 1 : ShardIds(Tail(list))[i] = list[i + 1].shardId
      <4>1. /\ ShardIds(Tail(list)) \in Seq(S)
            /\ Len(ShardIds(Tail(list))) = Len(Tail(list))
            /\ \A i \in 1..Len(Tail(list)) : ShardIds(Tail(list))[i] = Tail(list)[i].shardId
        BY <1>1, <2>4
      <4>2. QED
        BY <2>4, <4>1
    <3>2. QED
      BY <2>5, <3>1, SeqEqual
  <2>7. QED
    BY <2>2, <2>3, <2>6
<1>4. QED
  BY <1>1, <1>2, <1>3

--------------------------------------------------------------------------------
(* Types.                                                                     *)

\* What the types need to be preserved: a task being counted is still at the head
\* of job_q, and the completion thread works on the result of a shard.
Control ==
    /\ pc = "invoked" => job_q # <<>>
    /\ tpc \in {"push", "repl"} => got.shardId \in Shards

TypeInv == TypeOK /\ Control

\* The phase starts with its variables of the right types.
LEMMA TypeInit == Init => TypeInv
<1> SUFFICES ASSUME Init PROVE TypeInv
  OBVIOUS
<1> USE DispatchAssumption DEF Init, TypeInv, TypeOK, Control, Shards, Result
<1>1. ASSUME NEW T \in SUBSET Shards, NEW q \in Listings(T) PROVE q \in Seq(Shards)
  <2>1. IsFiniteSet(Shards)
    BY FS_Interval
  <2>2. Cardinality(T) \in Nat
    BY <2>1, FS_Subset, FS_CardinalityType
  <2>3. q \in [1..Cardinality(T) -> Shards]
    BY <1>1 DEF Listings
  <2>4. QED
    BY <2>2, <2>3, SeqDef
<1>2. job_q \in Seq(Shards) /\ m_IntblobList \in Seq(Shards) /\ results \subseteq Shards
  <2>1. PICK done \in Checkpoints :
           /\ results = done
           /\ m_IntblobList \in Listings(done)
           /\ job_q \in Listings(Shards \ done)
    OBVIOUS
  <2>2. done \in SUBSET Shards /\ Shards \ done \in SUBSET Shards
    OBVIOUS
  <2>3. QED
    BY <1>1, <2>1, <2>2
<1>3. responseList \in Seq(Result) /\ g_repl_list \in Seq(Shards)
  BY EmptySeq
<1>4. got \in [shardId : Nat, ok : BOOLEAN] /\ stale \in BOOLEAN /\ m_map_done \in BOOLEAN
  OBVIOUS
<1>5. QED
  BY <1>2, <1>3, <1>4

\* Every step of the two threads keeps them so.
LEMMA TypeNext == TypeInv /\ [Next]_vars => TypeInv'
<1> SUFFICES ASSUME TypeInv, [Next]_vars PROVE TypeInv'
  OBVIOUS
<1> USE DispatchAssumption DEF TypeInv, TypeOK, Control, mainVars, listVars, threadVars
<1>0. Shards \subseteq Nat
  BY DEF Shards
<1>1. CASE InvokeTask
  <2>1. Head(job_q) \in Shards
    BY <1>1, HeadTailProperties DEF InvokeTask
  <2>2. calls' \subseteq [id : 0..ncalls' - 1, shardId : Shards]
    BY <1>1, <2>1 DEF InvokeTask
  <2>3. QED
    BY <1>1, <2>2 DEF InvokeTask
<1>2. CASE CountTask
  <2>1. Tail(job_q) \in Seq(Shards)
    BY <1>2, HeadTailProperties DEF CountTask
  <2>2. /\ pc' \in {"dispatch", "failed"}
        /\ m_until_fail' \in Int
        /\ m_map_done' \in BOOLEAN
    <3>1. CASE FailAfter = 0
      BY <1>2, <3>1 DEF CountTask, CheckFail
    <3>2. CASE FailAfter # 0
      <4>1. m_until_fail' = m_until_fail - 1
        BY <1>2, <3>2 DEF CountTask, CheckFail
      <4>2. \/ pc' = "failed" /\ m_map_done' = TRUE
            \/ pc' = "dispatch" /\ m_map_done' = m_map_done
        BY <1>2, <3>2, Zenon DEF CountTask, CheckFail
      <4>3. m_until_fail' \in Int
        BY <4>1
      <4>4. m_map_done' \in BOOLEAN
        BY <4>2, Zenon
      <4>5. QED
        BY <4>2, <4>3, <4>4
    <3>3. QED
      BY <3>1, <3>2
  <2>3. QED
    BY <1>2, <2>1, <2>2 DEF CountTask
<1>3. CASE AllSent
  BY <1>3 DEF AllSent
<1>4. CASE SeeResponse
  BY <1>4 DEF SeeResponse
<1>5. CASE CollectResponse
  <2>1. Head(responseList) \in Result /\ Tail(responseList) \in Seq(Result)
    BY <1>5, HeadTailProperties DEF CollectResponse
  <2>2. Head(responseList).shardId \in Shards
    BY <2>1 DEF Result
  <2>3. /\ Append(job_q, Head(responseList).shardId) \in Seq(Shards)
        /\ Append(m_IntblobList, Head(responseList).shardId) \in Seq(Shards)
    BY <2>2, AppendProperties
  <2>4. QED
    BY <1>5, <2>1, <2>2, <2>3 DEF CollectResponse, RecordResult, Requeue
<1>6. CASE CountDown
  BY <1>6 DEF CountDown
<1>7. CASE UseStaleIterator
  BY <1>7 DEF UseStaleIterator
<1>8. CASE EndCollect
  BY <1>8 DEF EndCollect
<1>9. CASE Return
  BY <1>9, EmptySeq DEF Return
<1>10. CASE TestDone
  BY <1>10 DEF TestDone
<1>11. CASE CompareCount
  BY <1>11 DEF CompareCount
<1>12. CASE UseDeadLocals
  BY <1>12 DEF UseDeadLocals
<1>13. ASSUME NEW c \in calls, TakeCall(c) PROVE TypeInv'
  <2>1. c.shardId \in Shards
    OBVIOUS
  <2>2. got' \in [shardId : Nat, ok : BOOLEAN] /\ got'.shardId = c.shardId
    <3>1. PICK ok \in BOOLEAN : got' = [shardId |-> c.shardId, ok |-> ok]
      BY <1>13 DEF TakeCall
    <3>2. c.shardId \in Nat
      BY <1>0, <2>1
    <3>3. QED
      BY <3>1, <3>2
  <2>3. failures' \in 0..MaxFailures
    BY <1>13 DEF TakeCall
  <2>4. QED
    BY <1>13, <2>1, <2>2, <2>3 DEF TakeCall
<1>14. CASE QueueShutdown
  BY <1>14 DEF QueueShutdown
<1>15. CASE PushResponse
  <2>1. got \in Result
    BY <1>15 DEF PushResponse, Result
  <2>2. Append(responseList, got) \in Seq(Result)
    BY <2>1, AppendProperties
  <2>3. Grown \in Nat
    BY DEF Grown
  <2>4. QED
    BY <1>15, <2>2, <2>3 DEF PushResponse, AfterPush
<1>16. CASE OfferResult
  <2>1. Append(g_repl_list, got.shardId) \in Seq(Shards)
    BY <1>16, AppendProperties DEF OfferResult
  <2>2. QED
    BY <1>16, <2>1 DEF OfferResult
<1>17. CASE UNCHANGED vars
  BY <1>17 DEF vars
<1>18. QED
  BY <1>1, <1>2, <1>3, <1>4, <1>5, <1>6, <1>7, <1>8, <1>9, <1>10, <1>11, <1>12, <1>13,
     <1>14, <1>15, <1>16, <1>17 DEF Next, Main, Thread, Over

\* The variables of dispatchMapTasks and AsyncCompleteMapRpc keep their types for
\* every number of shards, limit, checkpoint and failure.
THEOREM TypeCorrect == Spec => []TypeOK
<1>1. Spec => []TypeInv
  BY TypeInit, TypeNext, PTL DEF Spec
<1>2. TypeInv => TypeOK
  BY DEF TypeInv
<1>3. QED
  BY <1>1, <1>2, PTL

--------------------------------------------------------------------------------
(* Where the tasks are.                                                       *)

\* At first every shard is either recorded in the checkpoint or queued.
LEMMA PlacesInit == Init => OnePlace
<1> SUFFICES ASSUME Init PROVE OnePlace
  OBVIOUS
<1>1. /\ pc = "dispatch" /\ tpc = "test" /\ calls = {} /\ responseList = <<>>
      /\ Distinct(job_q) /\ Elements(job_q) = Shards \ results /\ results \subseteq Shards
  BY DispatchAssumption DEF Init, Listings, Shards
<1>2. ShardIds(responseList) = <<>> /\ Elements(<<>>) = {} /\ Distinct(<<>>)
  BY <1>1 DEF ShardIds, Elements, Distinct
<1>3. Waiting = Shards \ results /\ Called = {} /\ Held = {} /\ Answered = {}
  BY <1>1, <1>2 DEF Waiting, Called, Held, Answered
<1>4. QED
  BY <1>1, <1>2, <1>3 DEF OnePlace, NoTaskLost, NoTaskTwice

\* A step that moves no task.
LEMMA PlacesQuiet ==
    ASSUME OnePlace, UNCHANGED <<job_q, calls, responseList, results>>,
           (pc = "invoked") <=> (pc' = "invoked"), Held' = Held
    PROVE  OnePlace'
<1>1. Waiting' = Waiting /\ Called' = Called /\ Answered' = Answered
  BY DEF Waiting, Called, Answered
<1>2. QED
  BY <1>1 DEF OnePlace, NoTaskLost, NoTaskTwice

\* Every step moves a task to the next place, in one piece, or moves none.
LEMMA PlacesNext ==
    ASSUME TypeInv, OnePlace, SafeReturn, [Next]_vars
    PROVE  OnePlace'
<1> USE DEF mainVars, listVars, threadVars
<1>0. /\ job_q \in Seq(Shards)
      /\ responseList \in Seq(Result)
      /\ ShardIds(responseList) \in Seq(Shards)
      /\ \A r \in Result :
            ShardIds(Append(responseList, r)) = Append(ShardIds(responseList), r.shardId)
  BY ShardIdsList DEF TypeInv, TypeOK, Result
<1>1. CASE InvokeTask
  <2> DEFINE s == Head(job_q)
  <2>1. Waiting = Elements(job_q) /\ Waiting' = Elements(Tail(job_q))
    BY <1>1 DEF InvokeTask, Waiting
  <2>2. Elements(job_q) = Elements(Tail(job_q)) \cup {s} /\ s \notin Elements(Tail(job_q))
    BY <1>0, <1>1, TailList DEF InvokeTask, OnePlace, NoTaskTwice
  <2>3. Called' = Called \cup {s}
    <3>1. PICK c : c = [id |-> ncalls, shardId |-> s]
      OBVIOUS
    <3>2. calls' = calls \cup {c} /\ c.shardId = s
      BY <1>1, <3>1 DEF InvokeTask
    <3>3. QED
      BY <3>2, Zenon DEF Called
  <2>4. Held' = Held /\ Answered' = Answered
    BY <1>1 DEF InvokeTask, Held, Answered
  <2>5. NoTaskLost'
    BY <1>1, <2>1, <2>2, <2>3, <2>4 DEF InvokeTask, OnePlace, NoTaskLost
  <2>6. \A c, d \in calls' : c # d => c.shardId # d.shardId
    <3>1. \A c \in calls : c.shardId # s
      BY <2>1, <2>2 DEF OnePlace, NoTaskTwice, Called
    <3>2. QED
      BY <1>1, <3>1 DEF InvokeTask, OnePlace, NoTaskTwice
  <2>7. NoTaskTwice'
    BY <1>1, <2>1, <2>2, <2>3, <2>4, <2>6 DEF InvokeTask, OnePlace, NoTaskTwice
  <2>8. QED
    BY <2>5, <2>7 DEF OnePlace
<1>2. CASE CountTask
  <2>1. pc = "invoked" /\ pc' # "invoked" /\ job_q' = Tail(job_q)
    BY <1>2 DEF CountTask, CheckFail
  <2>2. Waiting' = Waiting /\ Called' = Called /\ Held' = Held /\ Answered' = Answered
    BY <1>2, <2>1 DEF CountTask, Waiting, Called, Held, Answered
  <2>3. Distinct(job_q')
    BY <1>0, <2>1, TailList DEF TypeInv, Control, OnePlace, NoTaskTwice
  <2>4. QED
    BY <1>2, <2>2, <2>3 DEF CountTask, OnePlace, NoTaskLost, NoTaskTwice
<1>3. CASE CollectResponse
  <2> DEFINE res == Head(responseList)
  <2>1. /\ res \in Result
        /\ res.shardId \in Shards
        /\ ShardIds(responseList) # <<>>
        /\ Head(ShardIds(responseList)) = res.shardId
        /\ ShardIds(responseList') = Tail(ShardIds(responseList))
    BY <1>0, <1>3, ShardIdsList, HeadTailProperties DEF CollectResponse, Result
  <2>2. /\ Answered = Answered' \cup {res.shardId}
        /\ res.shardId \notin Answered'
        /\ Distinct(ShardIds(responseList'))
    BY <1>0, <2>1, TailList DEF Answered, OnePlace, NoTaskTwice
  <2>3. Called' = Called /\ Held' = Held
    BY <1>3 DEF CollectResponse, Called, Held
  <2>4. Waiting = Elements(job_q) /\ Waiting' = Elements(job_q')
    BY <1>3 DEF CollectResponse, Waiting
  <2>5. CASE res.ok
    <3>1. results' = results \cup {res.shardId} /\ job_q' = job_q
      BY <1>3, <2>5 DEF CollectResponse, RecordResult, Requeue
    <3>2. QED
      BY <1>3, <2>2, <2>3, <2>4, <3>1 DEF CollectResponse, OnePlace, NoTaskLost, NoTaskTwice
  <2>6. CASE ~res.ok
    <3>1. results' = results /\ job_q' = Append(job_q, res.shardId)
      BY <1>3, <2>6 DEF CollectResponse, Requeue
    <3>2. res.shardId \notin Elements(job_q)
      BY <2>2, <2>4 DEF OnePlace, NoTaskTwice
    <3>3. Elements(job_q') = Elements(job_q) \cup {res.shardId} /\ Distinct(job_q')
      BY <1>0, <2>1, <3>1, <3>2, AppendList DEF OnePlace, NoTaskTwice
    <3>4. QED
      BY <1>3, <2>2, <2>3, <2>4, <3>1, <3>3 DEF CollectResponse, OnePlace, NoTaskLost, NoTaskTwice
  <2>7. QED
    BY <2>5, <2>6
<1>4. ASSUME NEW c \in calls, TakeCall(c) PROVE OnePlace'
  <2>1. Called = Called' \cup {c.shardId} /\ c.shardId \notin Called'
    BY <1>4 DEF TakeCall, Called, OnePlace, NoTaskTwice
  <2>2. Held = {} /\ Held' = {c.shardId}
    BY <1>4 DEF TakeCall, Held
  <2>3. Waiting' = Waiting /\ Answered' = Answered
    BY <1>4 DEF TakeCall, Waiting, Answered
  <2>4. NoTaskLost'
    BY <1>4, <2>1, <2>2, <2>3 DEF TakeCall, OnePlace, NoTaskLost
  <2>5. NoTaskTwice'
    BY <1>4, <2>1, <2>2, <2>3 DEF TakeCall, OnePlace, NoTaskTwice
  <2>6. QED
    BY <2>4, <2>5 DEF OnePlace
<1>5. CASE PushResponse
  <2>1. got \in Result /\ got.shardId \in Shards
    BY <1>5 DEF PushResponse, TypeInv, TypeOK, Control, Result
  <2>2. ShardIds(responseList') = Append(ShardIds(responseList), got.shardId)
    BY <1>0, <1>5, <2>1 DEF PushResponse
  <2>3. Held = {got.shardId} /\ Held' = {}
    BY <1>5 DEF PushResponse, AfterPush, Held
  <2>4. Answered' = Answered \cup {got.shardId} /\ Distinct(ShardIds(responseList'))
    <3>1. got.shardId \notin Elements(ShardIds(responseList))
      BY <2>3 DEF OnePlace, NoTaskTwice, Answered
    <3>2. QED
      BY <1>0, <2>1, <2>2, <3>1, AppendList DEF Answered, OnePlace, NoTaskTwice
  <2>5. Waiting' = Waiting /\ Called' = Called
    BY <1>5 DEF PushResponse, Waiting, Called
  <2>6. QED
    BY <1>5, <2>3, <2>4, <2>5 DEF PushResponse, OnePlace, NoTaskLost, NoTaskTwice
<1>6. CASE Return
  <2>1. responseList' = responseList
    BY <1>6 DEF Return, SafeReturn
  <2>2. QED
    BY <1>6, <2>1, PlacesQuiet DEF Return, Held
<1>7. CASE AllSent \/ SeeResponse \/ CountDown \/ UseStaleIterator \/ EndCollect
  <2>1. /\ UNCHANGED <<job_q, calls, responseList, results, tpc, got>>
        /\ pc # "invoked" /\ pc' # "invoked"
    BY <1>7 DEF AllSent, SeeResponse, CountDown, UseStaleIterator, EndCollect
  <2>2. QED
    BY <2>1, PlacesQuiet DEF Held
<1>8. CASE TestDone \/ CompareCount \/ QueueShutdown \/ OfferResult
           \/ (UseDeadLocals /\ tpc = "count")
  <2>1. /\ UNCHANGED <<job_q, calls, responseList, results>>
        /\ (pc = "invoked") <=> (pc' = "invoked")
        /\ tpc # "push" /\ tpc' # "push"
    BY <1>8 DEF TestDone, CompareCount, UseDeadLocals, QueueShutdown, OfferResult
  <2>2. QED
    BY <2>1, PlacesQuiet DEF Held
<1>9. CASE (UseDeadLocals /\ tpc = "push") \/ UNCHANGED vars
  <2>1. /\ UNCHANGED <<job_q, calls, responseList, results, tpc, got>>
        /\ (pc = "invoked") <=> (pc' = "invoked")
    BY <1>9 DEF vars, UseDeadLocals
  <2>2. QED
    BY <2>1, PlacesQuiet DEF Held
<1>10. QED
  BY <1>1, <1>2, <1>3, <1>4, <1>5, <1>6, <1>7, <1>8, <1>9 DEF Next, Main, Thread, Over, UseDeadLocals

--------------------------------------------------------------------------------
(* How many tasks are under way.                                              *)

\* NrpcsExact with what it needs to be preserved, and the limit on nrpcs.
CountInv ==
    /\ IsFiniteSet(calls)
    /\ NrpcsExact
    /\ nrpcs <= MaxRpcs + 1
    /\ pc = "invoked" => nrpcs <= MaxRpcs

\* Nothing is under way at first.
LEMMA CountInit == Init => CountInv
<1> SUFFICES ASSUME Init PROVE CountInv
  OBVIOUS
<1>1. IsFiniteSet(calls) /\ Cardinality(calls) = 0 /\ Len(responseList) = 0
  BY FS_EmptySet, EmptySeq DEF Init
<1>2. QED
  BY <1>1, DispatchAssumption DEF Init, CountInv, NrpcsExact

\* nrpcs follows the tasks under way through every step.
LEMMA CountNext ==
    ASSUME TypeInv, CountInv, SafeReturn, [Next]_vars
    PROVE  CountInv'
<1> USE DispatchAssumption DEF mainVars, listVars, threadVars
<1>0. /\ nrpcs \in Int
      /\ Len(responseList) \in Nat
      /\ IsFiniteSet(calls)
      /\ Cardinality(calls) \in Nat
  BY LenProperties, FS_CardinalityType DEF TypeInv, TypeOK, CountInv
<1>1. CASE InvokeTask
  <2>1. [id |-> ncalls, shardId |-> Head(job_q)] \notin calls
    BY DEF TypeInv, TypeOK
  <2>2. IsFiniteSet(calls') /\ Cardinality(calls') = Cardinality(calls) + 1
    BY <1>0, <1>1, <2>1, FS_AddElement DEF InvokeTask
  <2>3. QED
    BY <1>0, <1>1, <2>2 DEF InvokeTask, CanSend, CountInv, NrpcsExact
<1>2. CASE CountTask
  <2>1. pc = "invoked" /\ pc' # "invoked" /\ pc' # "erased" /\ nrpcs' = nrpcs + 1
    BY <1>2 DEF CountTask, CheckFail
  <2>2. UNCHANGED <<calls, responseList, tpc>>
    BY <1>2 DEF CountTask, listVars, threadVars
  <2>3. NrpcsExact'
    BY <1>0, <2>1, <2>2 DEF CountInv, NrpcsExact
  <2>4. QED
    BY <1>0, <2>1, <2>2, <2>3 DEF CountInv
<1>3. CASE CollectResponse
  <2>1. Len(responseList') = Len(responseList) - 1
    BY <1>3, HeadTailProperties DEF CollectResponse, TypeInv, TypeOK
  <2>2. QED
    BY <1>0, <1>3, <2>1 DEF CollectResponse, CountInv, NrpcsExact
<1>4. CASE CountDown
  BY <1>0, <1>4 DEF CountDown, CountInv, NrpcsExact
<1>5. ASSUME NEW c \in calls, TakeCall(c) PROVE CountInv'
  <2>1. IsFiniteSet(calls') /\ Cardinality(calls') = Cardinality(calls) - 1
    BY <1>0, <1>5, FS_RemoveElement DEF TakeCall
  <2>2. QED
    BY <1>0, <1>5, <2>1 DEF TakeCall, CountInv, NrpcsExact
<1>6. CASE PushResponse
  <2>1. Len(responseList') = Len(responseList) + 1
    <3>1. got \in Result
      BY <1>6 DEF PushResponse, TypeInv, TypeOK, Control, Result
    <3>2. QED
      BY <1>6, <3>1, AppendProperties DEF PushResponse, TypeInv, TypeOK
  <2>2. tpc = "push" /\ tpc' # "push"
    BY <1>6 DEF PushResponse, AfterPush
  <2>3. QED
    BY <1>0, <1>6, <2>1, <2>2 DEF PushResponse, CountInv, NrpcsExact
<1>7. CASE Return
  <2>1. responseList' = responseList
    BY <1>7 DEF Return, SafeReturn
  <2>2. QED
    BY <1>0, <1>7, <2>1 DEF Return, CountInv, NrpcsExact
<1>8. CASE AllSent \/ SeeResponse \/ UseStaleIterator \/ EndCollect
  <2>1. /\ UNCHANGED <<nrpcs, calls, responseList, tpc>>
        /\ pc \notin {"invoked", "erased"} /\ pc' \notin {"invoked", "erased"}
    BY <1>8 DEF AllSent, SeeResponse, UseStaleIterator, EndCollect
  <2>2. QED
    BY <1>0, <2>1 DEF CountInv, NrpcsExact
<1>9. CASE TestDone \/ CompareCount \/ QueueShutdown \/ OfferResult
           \/ (UseDeadLocals /\ tpc = "count")
  <2>1. /\ UNCHANGED <<nrpcs, calls, responseList>>
        /\ (pc' = pc \/ (pc = "returned" /\ pc' = "crashed"))
        /\ tpc # "push" /\ tpc' # "push"
    BY <1>9 DEF TestDone, CompareCount, UseDeadLocals, QueueShutdown, OfferResult
  <2>2. QED
    BY <1>0, <2>1 DEF CountInv, NrpcsExact
<1>10. CASE (UseDeadLocals /\ tpc = "push") \/ UNCHANGED vars
  <2>1. /\ UNCHANGED <<nrpcs, calls, responseList, tpc>>
        /\ (pc' = pc \/ (pc = "returned" /\ pc' = "crashed"))
    BY <1>10 DEF vars, UseDeadLocals
  <2>2. QED
    BY <1>0, <2>1 DEF CountInv, NrpcsExact
<1>11. QED
  BY <1>1, <1>2, <1>3, <1>4, <1>5, <1>6, <1>7, <1>8, <1>9, <1>10 DEF Next, Main, Thread, Over, UseDeadLocals

--------------------------------------------------------------------------------
(* The end of the phase.                                                      *)

\* With as many results as shards, every shard has one: this is all that the test
\* m_IntermediateResultMap.size() == m_nmappers can tell, given EnoughMappers.
LEMMA AllRecorded ==
    ASSUME EnoughMappers, NEW S \in SUBSET Shards, Cardinality(S) = m_nmappers
    PROVE  S = Shards
<1>1. IsFiniteSet(Shards) /\ Cardinality(Shards) = NShards
  BY FS_Interval, DispatchAssumption DEF Shards
<1>2. Cardinality(S) <= NShards /\ (Cardinality(S) = NShards => S = Shards)
  BY <1>1, FS_Subset
<1>3. QED
  BY <1>2, DispatchAssumption DEF EnoughMappers

\* dispatchMapTasks breaks out of its loop with nothing left behind, and nothing
\* comes back before it returns or afterwards.
LEMMA SafeNext ==
    ASSUME EnoughMappers, TypeInv, OnePlace, SafeReturn, [Next]_vars
    PROVE  SafeReturn'
<1> USE DEF mainVars, listVars, threadVars
<1>1. CASE EndCollect
  <2>1. CASE Cardinality(results) # m_nmappers
    BY <1>1, <2>1 DEF EndCollect, AllDone, SafeReturn
  <2>2. CASE Cardinality(results) = m_nmappers
    <3>1. results = Shards
      BY <2>2, AllRecorded DEF TypeInv, TypeOK
    <3>2. Waiting = {} /\ Called = {} /\ Held = {}
      BY <3>1 DEF OnePlace, NoTaskLost, NoTaskTwice
    <3>3. Elements(job_q) = {} /\ calls = {} /\ tpc # "push"
      BY <1>1, <3>2 DEF EndCollect, Waiting, Called, Held
    <3>4. job_q = <<>>
      <4>1. job_q \in Seq(Shards)
        BY DEF TypeInv, TypeOK
      <4>2. QED
        BY <3>3, <4>1, TailList
    <3>5. QED
      BY <1>1, <3>1, <3>3, <3>4 DEF EndCollect, AllDone, SafeReturn
  <2>3. QED
    BY <2>1, <2>2
<1>2. CASE Return
  BY <1>2 DEF Return, SafeReturn
<1>3. CASE InvokeTask \/ CountTask \/ AllSent \/ SeeResponse \/ CollectResponse
           \/ CountDown \/ UseStaleIterator
  <2>1. pc' \notin {"clear", "returned"}
    BY <1>3 DEF InvokeTask, CountTask, CheckFail, AllSent, SeeResponse, CollectResponse,
                CountDown, UseStaleIterator
  <2>2. QED
    BY <2>1 DEF SafeReturn
<1>4. ASSUME NEW c \in calls, TakeCall(c) PROVE SafeReturn'
  BY <1>4 DEF TakeCall, SafeReturn
<1>5. CASE PushResponse
  BY <1>5 DEF PushResponse, SafeReturn
<1>6. CASE TestDone \/ CompareCount \/ QueueShutdown \/ OfferResult
           \/ (UseDeadLocals /\ tpc = "count")
  <2>1. /\ UNCHANGED <<job_q, calls, responseList, results>>
        /\ pc' = pc \/ pc' = "crashed"
        /\ tpc' # "push"
    BY <1>6 DEF TestDone, CompareCount, UseDeadLocals, QueueShutdown, OfferResult
  <2>2. QED
    BY <2>1 DEF SafeReturn
<1>7. CASE (UseDeadLocals /\ tpc = "push") \/ UNCHANGED vars
  BY <1>7 DEF vars, UseDeadLocals, SafeReturn
<1>8. QED
  BY <1>1, <1>2, <1>3, <1>4, <1>5, <1>6, <1>7 DEF Next, Main, Thread, Over, UseDeadLocals

\* The inductive invariant of the phase.  None of its parts is inductive alone: a
\* task stays in one place only because nothing is cleared by the return, and the
\* return finds nothing only because every task is in some place.
IInv ==
    /\ TypeInv
    /\ OnePlace
    /\ CountInv
    /\ SafeReturn

\* The invariant holds in every state of the phase.
LEMMA Inductive ==
    ASSUME EnoughMappers
    PROVE  Spec => []IInv
<1>1. Init => IInv
  <2>1. Init => SafeReturn
    BY DEF Init, SafeReturn
  <2>2. QED
    BY <2>1, TypeInit, PlacesInit, CountInit DEF IInv
<1>2. IInv /\ [Next]_vars => IInv'
  BY TypeNext, PlacesNext, CountNext, SafeNext DEF IInv
<1>3. QED
  BY <1>1, <1>2, PTL DEF Spec

\* Every shard is always queued, in a call, with the completion thread, answered or
\* recorded, and only one of these: no interleaving of dispatchMapTasks with
\* AsyncCompleteMapRpc, no failed call and no takeover loses a task or runs it twice.
THEOREM TasksConserved ==
    ASSUME EnoughMappers
    PROVE  Spec => []OnePlace
<1>1. IInv => OnePlace
  BY DEF IInv
<1>2. QED
  BY <1>1, Inductive, PTL

\* nrpcs, which both threads use without a lock, counts the tasks under way, and
\* so at most MaxRpcs + 1 calls are started on the completion queue.
THEOREM RpcsCounted ==
    ASSUME EnoughMappers
    PROVE  Spec => [](NrpcsExact /\ RpcLimit)
<1>1. IInv => NrpcsExact /\ RpcLimit
  <2> SUFFICES ASSUME IInv PROVE RpcLimit
    BY DEF IInv, CountInv
  <2>1. Cardinality(calls) \in Nat /\ Len(responseList) \in Nat /\ nrpcs \in Int
    BY LenProperties, FS_CardinalityType DEF IInv, TypeInv, TypeOK, CountInv
  <2>2. QED
    BY <2>1, DispatchAssumption DEF IInv, CountInv, NrpcsExact, RpcLimit
<1>2. QED
  BY <1>1, Inductive, PTL

\* dispatchMapTasks returns only when every shard has a result, and then no call,
\* no response and no push refers to the locals its return destroys.
THEOREM ReturnIsSafe ==
    ASSUME EnoughMappers
    PROVE  Spec => []SafeReturn
<1>1. IInv => SafeReturn
  BY DEF IInv
<1>2. QED
  BY <1>1, Inductive, PTL

--------------------------------------------------------------------------------
(* The blobs of the intermediate results.                                     *)

\* m_IntblobList gets the blobs of a result with the result, and never again.
LEMMA BlobsNext ==
    ASSUME TypeInv, BlobsOfResults, [Next]_vars
    PROVE  BlobsOfResults'
<1> USE DEF mainVars, listVars, threadVars
<1>1. CASE CollectResponse
  <2> DEFINE s == Head(responseList).shardId
  <2>1. s \in Shards /\ m_IntblobList \in Seq(Shards)
    <3>1. Head(responseList) \in Result
      BY <1>1, HeadTailProperties DEF CollectResponse, TypeInv, TypeOK
    <3>2. QED
      BY <3>1 DEF Result, TypeInv, TypeOK
  <2>2. \/ UNCHANGED <<results, m_IntblobList>>
        \/ /\ s \notin results
           /\ results' = results \cup {s}
           /\ m_IntblobList' = Append(m_IntblobList, s)
    BY <1>1 DEF CollectResponse, RecordResult, Requeue
  <2>3. /\ Elements(Append(m_IntblobList, s)) = Elements(m_IntblobList) \cup {s}
        /\ s \notin results => Distinct(Append(m_IntblobList, s))
    <3>1. /\ Elements(Append(m_IntblobList, s)) = Elements(m_IntblobList) \cup {s}
          /\ Distinct(m_IntblobList) /\ s \notin Elements(m_IntblobList)
                => Distinct(Append(m_IntblobList, s))
      BY <2>1, AppendList
    <3>2. QED
      BY <3>1 DEF BlobsOfResults
  <2>4. QED
    BY <2>2, <2>3 DEF BlobsOfResults
<1>2. CASE UNCHANGED <<results, m_IntblobList>>
  BY <1>2 DEF BlobsOfResults
<1>3. QED
  BY <1>1, <1>2 DEF Next, Main, Thread, Over, vars, InvokeTask, CountTask, AllSent, SeeResponse,
     CountDown, UseStaleIterator, EndCollect, Return, TestDone, CompareCount, UseDeadLocals,
     TakeCall, QueueShutdown, PushResponse, OfferResult

\* The reduce phase gets the intermediate blobs of every recorded shard once, even
\* on a leader that took over a checkpoint, and even with too few mappers.
THEOREM BlobsCorrect == Spec => []BlobsOfResults
<1>1. Init => BlobsOfResults
  BY DEF Init, BlobsOfResults, Listings
<1>2. TypeInv /\ BlobsOfResults /\ [Next]_vars => BlobsOfResults'
  BY BlobsNext
<1>3. QED
  BY <1>1, <1>2, TypeInit, TypeNext, PTL DEF Spec

--------------------------------------------------------------------------------
(* What is offered for replication.                                           *)

\* OfferedOnce with the result the completion thread is about to offer.
OfferInv ==
    /\ OfferedOnce
    /\ tpc = "repl" => HasResult(got.shardId) /\ got.shardId \notin Elements(g_repl_list)

\* A result that the main thread has, or will find, stays so.
LEMMA ResultKept ==
    ASSUME IInv, [Next]_vars, NEW s, HasResult(s)
    PROVE  HasResult(s)'
<1> USE DEF mainVars, listVars, threadVars
<1>1. CASE CollectResponse
  <2>1. /\ responseList \in Seq(Result)
        /\ Elements(responseList) = Elements(responseList') \cup {Head(responseList)}
    BY <1>1, TailList DEF CollectResponse, IInv, TypeInv, TypeOK
  <2>2. Head(responseList).ok => Head(responseList).shardId \in results'
    BY <1>1 DEF CollectResponse, RecordResult, Requeue
  <2>3. results \subseteq results'
    BY <1>1 DEF CollectResponse, RecordResult, Requeue
  <2>4. QED
    BY <2>1, <2>2, <2>3 DEF HasResult
<1>2. CASE PushResponse
  <2>1. got \in Result
    BY <1>2 DEF PushResponse, IInv, TypeInv, TypeOK, Control, Result
  <2>2. Elements(responseList') = Elements(responseList) \cup {got} /\ results' = results
    BY <1>2, <2>1, AppendList DEF PushResponse, IInv, TypeInv, TypeOK
  <2>3. QED
    BY <2>2 DEF HasResult
<1>3. CASE Return
  <2>1. UNCHANGED <<responseList, results>>
    BY <1>3 DEF Return, IInv, SafeReturn
  <2>2. QED
    BY <2>1 DEF HasResult
<1>4. CASE UNCHANGED <<responseList, results>>
  BY <1>4 DEF HasResult
<1>5. QED
  BY <1>1, <1>2, <1>3, <1>4 DEF Next, Main, Thread, Over, vars, InvokeTask, CountTask, AllSent,
     SeeResponse, CountDown, UseStaleIterator, EndCollect, TestDone, CompareCount,
     UseDeadLocals, TakeCall, QueueShutdown, OfferResult

\* A result is offered after it is pushed, and a shard is pushed with a result once.
LEMMA OfferNext ==
    ASSUME IInv, OfferInv, [Next]_vars
    PROVE  OfferInv'
<1> USE DEF mainVars, listVars, threadVars
<1>1. CASE PushResponse
  <2>1. got \in Result /\ responseList \in Seq(Result)
    BY <1>1 DEF PushResponse, IInv, TypeInv, TypeOK, Control, Result
  <2>2. got.shardId \notin results /\ got.shardId \notin Answered
    BY <1>1 DEF PushResponse, IInv, OnePlace, NoTaskTwice, Held
  <2>3. got.shardId \notin Elements(g_repl_list)
    <3>1. ~HasResult(got.shardId)
      <4>1. ASSUME NEW r \in Elements(responseList) PROVE r.shardId \in Answered
        BY <2>1 DEF Answered, Elements, ShardIds
      <4>2. QED
        BY <2>2, <4>1 DEF HasResult
    <3>2. QED
      BY <3>1 DEF OfferInv, OfferedOnce
  <2>4. got.ok => HasResult(got.shardId)'
    <3>1. got \in Elements(responseList')
      BY <1>1, <2>1, AppendList DEF PushResponse
    <3>2. got' = got
      BY <1>1 DEF PushResponse
    <3>3. QED
      BY <3>1, <3>2 DEF HasResult
  <2>5. g_repl_list' = g_repl_list /\ got' = got /\ (tpc' = "repl" => got.ok)
    BY <1>1 DEF PushResponse, AfterPush
  <2>6. \A s \in Elements(g_repl_list) : HasResult(s)'
    BY ResultKept DEF OfferInv, OfferedOnce
  <2>7. OfferedOnce'
    BY <2>5, <2>6 DEF OfferInv, OfferedOnce
  <2>8. QED
    BY <2>3, <2>4, <2>5, <2>7 DEF OfferInv, HasResult
<1>2. CASE OfferResult
  <2>1. got.shardId \in Shards /\ g_repl_list \in Seq(Shards)
    BY <1>2 DEF OfferResult, IInv, TypeInv, TypeOK, Control
  <2>2. /\ Elements(g_repl_list') = Elements(g_repl_list) \cup {got.shardId}
        /\ Distinct(g_repl_list')
    BY <1>2, <2>1, AppendList DEF OfferResult, OfferInv, OfferedOnce
  <2>3. \A s \in Elements(g_repl_list') : HasResult(s)
    BY <1>2, <2>2 DEF OfferResult, OfferInv, OfferedOnce
  <2>4. responseList' = responseList /\ results' = results /\ tpc' # "repl"
    BY <1>2 DEF OfferResult
  <2>5. QED
    BY <2>2, <2>3, <2>4 DEF OfferInv, OfferedOnce, HasResult
<1>3. CASE /\ g_repl_list' = g_repl_list
           /\ tpc' = "repl" => tpc = "repl" /\ got' = got
  <2>1. \A s \in Elements(g_repl_list) : HasResult(s)'
    BY ResultKept DEF OfferInv, OfferedOnce
  <2>2. tpc' = "repl" => HasResult(got.shardId)'
    BY <1>3, ResultKept DEF OfferInv, HasResult
  <2>3. QED
    BY <1>3, <2>1, <2>2 DEF OfferInv, OfferedOnce
<1>4. QED
  BY <1>1, <1>2, <1>3 DEF Next, Main, Thread, Over, vars, InvokeTask, CountTask, AllSent,
     SeeResponse, CollectResponse, CountDown, UseStaleIterator, EndCollect, Return, TestDone,
     CompareCount, UseDeadLocals, TakeCall, QueueShutdown

\* Each result is offered for replication at most once, and only when the main
\* thread has recorded it or will find it in responseList.
THEOREM OffersCorrect ==
    ASSUME EnoughMappers
    PROVE  Spec => []OfferedOnce
<1>1. Init => OfferInv
  BY DEF Init, OfferInv, OfferedOnce, Elements, Distinct
<1>2. IInv /\ OfferInv /\ [Next]_vars => OfferInv'
  BY OfferNext
<1>3. OfferInv => OfferedOnce
  BY DEF OfferInv
<1>4. QED
  BY <1>1, <1>2, <1>3, Inductive, PTL DEF Spec

--------------------------------------------------------------------------------
(* Refinement.                                                                *)

\* Every step of dispatchMapTasks and its completion thread records one new result,
\* finishes the phase with every shard recorded, abandons it, or changes neither.
LEMMA PhaseStep ==
    ASSUME EnoughMappers, IInv, IInv', [Next]_vars
    PROVE  [Abstract!Next]_<<results, Phase>>
<1> USE DEF mainVars, listVars, threadVars, Abstract!Next, Abstract!Record, Abstract!Finish,
            Abstract!Abandon
<1>1. CASE CollectResponse
  <2> DEFINE s == Head(responseList).shardId
  <2>1. s \in Shards
    <3>1. Head(responseList) \in Result
      BY <1>1, HeadTailProperties DEF CollectResponse, IInv, TypeInv, TypeOK
    <3>2. QED
      BY <3>1 DEF Result
  <2>2. Phase = "running" /\ Phase' = "running"
    BY <1>1 DEF CollectResponse, Phase
  <2>3. \/ results' = results
        \/ s \notin results /\ results' = results \cup {s}
    BY <1>1 DEF CollectResponse, RecordResult, Requeue
  <2>4. QED
    BY <2>1, <2>2, <2>3
<1>2. CASE EndCollect
  <2>1. Phase = "running" /\ results' = results
    BY <1>2 DEF EndCollect, Phase
  <2>2. CASE Cardinality(results) = m_nmappers
    <3>1. pc' = "clear"
      BY <1>2, <2>2 DEF EndCollect, AllDone
    <3>2. results = Shards
      BY <2>1, <3>1 DEF IInv, SafeReturn
    <3>3. Phase' = "finished"
      BY <3>1 DEF Phase
    <3>4. QED
      BY <2>1, <3>2, <3>3
  <2>3. CASE Cardinality(results) # m_nmappers
    BY <1>2, <2>1, <2>3 DEF EndCollect, AllDone, Phase
  <2>4. QED
    BY <2>2, <2>3
<1>3. CASE CountTask
  <2>1. pc = "invoked" /\ pc' \in {"dispatch", "failed"} /\ results' = results
    BY <1>3 DEF CountTask, CheckFail
  <2>2. QED
    BY <2>1 DEF Phase
<1>4. CASE UNCHANGED results /\ (pc' = pc \/ (pc # "failed" /\ pc # "crashed" /\ pc' = "crashed"))
  <2>1. Phase' = Phase \/ (Phase # "abandoned" /\ Phase' = "abandoned")
    BY <1>4 DEF Phase, IInv, TypeInv, TypeOK
  <2>2. QED
    BY <1>4, <2>1
<1>5. CASE InvokeTask \/ AllSent \/ SeeResponse \/ CountDown
  <2>1. results' = results /\ Phase = "running" /\ Phase' = "running"
    BY <1>5 DEF InvokeTask, AllSent, SeeResponse, CountDown, Phase
  <2>2. QED
    BY <2>1
<1>6. CASE Return
  <2>1. results' = results /\ Phase = "finished" /\ Phase' = "finished"
    BY <1>6 DEF Return, Phase
  <2>2. QED
    BY <2>1
<1>7. QED
  BY <1>1, <1>2, <1>3, <1>4, <1>5, <1>6 DEF Next, Main, Thread, Over, vars, UseStaleIterator,
     TestDone, CompareCount, UseDeadLocals, TakeCall, QueueShutdown, PushResponse,
     OfferResult

\* dispatchMapTasks implements TaskPhase: whatever its threads do, a caller sees
\* results recorded once per shard and the phase finished only with all of them.
THEOREM DispatchImplementsTaskPhase ==
    ASSUME EnoughMappers
    PROVE  Spec => ImplementsTaskPhase
<1>1. Init => Abstract!Init
  <2>1. Init => results \subseteq Shards /\ Phase = "running"
    BY DispatchAssumption DEF Init, Shards, Phase
  <2>2. QED
    BY <2>1 DEF Abstract!Init
<1>2. IInv /\ IInv' /\ [Next]_vars => [Abstract!Next]_<<results, Phase>>
  BY PhaseStep
<1>3. QED
  BY <1>1, <1>2, Inductive, PTL DEF Spec, ImplementsTaskPhase, Abstract!Spec
================================================================================
