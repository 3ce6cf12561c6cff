--------------------------- MODULE ReplicationProofs ---------------------------
(***************************************************************************)
(* Proofs about Replication.  For every number of shards and jobs the      *)
(* replication thread ends only with its leader, and, when no read of      *)
(* freed memory gives garbage, checkpoints only grow and hold the results  *)
(* in the order of their offers.                                           *)
(***************************************************************************)
EXTENDS Replication, SequenceTheorems, TLAPS

--------------------------------------------------------------------------------
(* The replication thread.                                                    *)

\* g_repl_data is false only while the thread waits: Lock clears it and goes on to
\* wait, and the predicate lets the thread go on only when it is set again.
FlagInv ==
    /\ rpc \notin {"wait", "ended"} => g_repl_data
    /\ ReplicationNeverStops

\* Every step of the threads keeps the flag so.
LEMMA FlagNext == FlagInv /\ [Next]_vars => FlagInv'
<1> SUFFICES ASSUME FlagInv, [Next]_vars PROVE FlagInv'
  OBVIOUS
<1> USE DEF FlagInv, ReplicationNeverStops, listVars, threadVars, followerVars
<1>1. CASE StartClient
  BY <1>1 DEF StartClient
<1>2. ASSUME NEW s \in Shards, Offer(s) PROVE FlagInv'
  BY <1>2 DEF Offer
<1>3. CASE Request \/ EndJob \/ Fail \/ Die \/ Register \/ StartServer \/ TakeOver
  BY <1>3 DEF Request, EndJob, Fail, Die, Register, StartServer, TakeOver
<1>4. CASE Lookup
  BY <1>4 DEF Lookup
<1>5. CASE Test
  BY <1>5 DEF Test
<1>6. CASE Serialize
  <2>1. rpc = "read" /\ rpc' \in {"read", "push"} /\ UNCHANGED <<g_repl_data, m_stop_repl_as_leader>>
    BY <1>6 DEF Serialize
  <2>2. QED
    BY <2>1
<1>7. CASE PushFails \/ Deliver
  BY <1>7 DEF PushFails, Deliver
<1>8. CASE Lock
  BY <1>8 DEF Lock
<1>9. CASE WakeUp
  BY <1>9 DEF WakeUp, Woken
<1>10. CASE UNCHANGED vars
  BY <1>10 DEF vars
<1>11. QED
  BY <1>1, <1>2, <1>3, <1>4, <1>5, <1>6, <1>7, <1>8, <1>9, <1>10 DEF Next, Thread

\* Other than in its fail state the leader never stops replication: the condition
\* of start_repl_client's loop holds whenever the thread returns to it, whatever is
\* offered meanwhile.
THEOREM ThreadStays == Spec => []ReplicationNeverStops
<1>1. Init => FlagInv
  BY DEF Init, FlagInv, ReplicationNeverStops, DataAtFirst
<1>2. FlagInv => ReplicationNeverStops
  BY DEF FlagInv
<1>3. QED
  BY <1>1, <1>2, FlagNext, PTL DEF Spec

--------------------------------------------------------------------------------
(* The checkpoints.                                                           *)

Prefix(s, t) == Len(s) <= Len(t) /\ \A i \in 1..Len(s) : s[i] = t[i]

ResultType == [shardId : Shards, job : Nat]

\* g_repl_list is only ever added to, so each list made of it is a beginning of the
\* next one: the follower's of the one to be pushed, that one of g_repl_list, and
\* the ends serialize_data has taken are not before those of the last time.
PrefixInv ==
    /\ m_rid \in Nat
    /\ g_repl_list \in Seq(ResultType)
    /\ msg.list \in Seq(ResultType)
    /\ chk.list \in Seq(ResultType)
    /\ Prefix(chk.list, msg.list)
    /\ Prefix(msg.list, g_repl_list)
    /\ toRead \in 0..Len(g_repl_list)
    /\ rpc = "read" => Len(msg.list) <= toRead

\* No step breaks this, unless freed memory gives garbage.
LEMMA PrefixNext ==
    ASSUME "garbage" \notin FreedReads, PrefixInv, [Next]_vars
    PROVE  PrefixInv'
<1> USE ReplicationAssumption DEF listVars, threadVars, followerVars
<1>0. /\ Len(g_repl_list) \in Nat /\ Len(msg.list) \in Nat /\ Len(chk.list) \in Nat
      /\ toRead \in Nat /\ toRead <= Len(g_repl_list)
      /\ m_rid \in Nat
  BY LenProperties DEF PrefixInv
<1>1. CASE Request
  BY <1>0, <1>1 DEF Request, PrefixInv
<1>2. CASE StartClient
  BY <1>2 DEF StartClient, PrefixInv
<1>3. ASSUME NEW s \in Shards, Offer(s) PROVE PrefixInv'
  <2> DEFINE r == [shardId |-> s, job |-> m_rid]
  <2>1. r \in ResultType
    BY <1>0 DEF ResultType
  <2>2. /\ g_repl_list' \in Seq(ResultType)
        /\ Len(g_repl_list') = Len(g_repl_list) + 1
        /\ \A i \in 1..Len(g_repl_list) : g_repl_list'[i] = g_repl_list[i]
    <3>1. g_repl_list' = Append(g_repl_list, r)
      BY <1>3 DEF Offer
    <3> HIDE DEF r
    <3>2. QED
      BY <2>1, <3>1, AppendProperties DEF PrefixInv
  <2>3. Prefix(msg.list, g_repl_list') /\ toRead \in 0..Len(g_repl_list')
    <3> HIDE DEF r
    <3>1. Prefix(msg.list, g_repl_list) /\ toRead \in 0..Len(g_repl_list)
      BY DEF PrefixInv
    <3>2. QED
      BY <1>0, <2>2, <3>1 DEF Prefix
  <2>4. QED
    BY <1>3, <2>2, <2>3 DEF Offer, PrefixInv
<1>4. CASE EndJob \/ Fail \/ Die \/ Register \/ StartServer \/ TakeOver
  BY <1>4 DEF EndJob, Fail, Die, Register, StartServer, TakeOver, PrefixInv
<1>5. CASE Lookup \/ PushFails \/ Lock \/ WakeUp
  <2>1. UNCHANGED <<m_rid, g_repl_list, toRead, msg, chk>> /\ rpc' # "read"
    BY <1>5 DEF Lookup, PushFails, Lock, WakeUp
  <2>2. QED
    BY <2>1 DEF PrefixInv
<1>6. CASE Test
  <2>1. UNCHANGED <<m_rid, g_repl_list, msg, chk>> /\ toRead' = Len(g_repl_list)
    BY <1>6 DEF Test
  <2>2. Len(msg.list) <= toRead' /\ toRead' \in 0..Len(g_repl_list)
    BY <1>0, <2>1 DEF PrefixInv, Prefix
  <2>3. QED
    BY <2>1, <2>2 DEF PrefixInv
<1>7. CASE Serialize
  <2>1. /\ UNCHANGED <<m_rid, g_repl_list, toRead, chk>>
        /\ rpc = "read"
        /\ \/ msg' = [rid |-> m_rid, shards |-> m_shards, list |-> ReadList] /\ rpc' = "push"
           \/ UNCHANGED <<msg, rpc>>
    BY <1>7 DEF Serialize
  <2>2. /\ ReadList \in Seq(ResultType)
        /\ Len(ReadList) = toRead
        /\ \A i \in 1..toRead : ReadList[i] = g_repl_list[i]
    <3>1. \A i \in 1..toRead : g_repl_list[i] \in ResultType
      BY <1>0, LenProperties DEF PrefixInv
    <3> HIDE DEF ResultType
    <3>2. /\ SubSeq(g_repl_list, 1, toRead) \in Seq(ResultType)
          /\ Len(SubSeq(g_repl_list, 1, toRead)) = (IF 1 <= toRead THEN toRead - 1 + 1 ELSE 0)
          /\ \A i \in 1..toRead - 1 + 1 : SubSeq(g_repl_list, 1, toRead)[i] = g_repl_list[1 + i - 1]
      BY <1>0, <3>1, SubSeqProperties
    <3>3. QED
      BY <1>0, <3>2 DEF ReadList
  <2>3. Prefix(ReadList, g_repl_list) /\ Prefix(chk.list, ReadList)
    BY <1>0, <2>1, <2>2 DEF PrefixInv, Prefix
  <2>4. QED
    BY <2>1, <2>2, <2>3 DEF PrefixInv
<1>8. CASE Deliver
  <2>1. Prefix(msg.list, msg.list)
    BY <1>0 DEF Prefix
  <2>2. QED
    BY <1>8, <2>1 DEF Deliver, PrefixInv
<1>9. CASE UNCHANGED vars
  BY <1>9 DEF vars, PrefixInv
<1>10. QED
  BY <1>1, <1>2, <1>3, <1>4, <1>5, <1>6, <1>7, <1>8, <1>9 DEF Next, Thread

\* A list that continues another one records what that one records: a result is
\* the first one of its shard in both or in neither.
LEMMA PrefixRecorded ==
    ASSUME PrefixInv, chk' = chk \/ chk' = msg
    PROVE  Recorded \subseteq Recorded'
<1>1. CASE chk' = chk
  BY <1>1 DEF Recorded, m_IntermediateResultMap, Kept
<1>2. CASE chk' = msg
  <2>1. /\ DOMAIN chk.list = 1..Len(chk.list) /\ Len(chk.list) \in Nat
        /\ DOMAIN msg.list = 1..Len(msg.list) /\ Len(msg.list) \in Nat
    BY LenProperties DEF PrefixInv
  <2>2. ASSUME NEW i \in Kept PROVE i \in Kept' /\ chk.list[i] = chk'.list[i]
    <3>1. i \in 1..Len(chk.list) /\ \A j \in 1..i - 1 : chk.list[j].shardId # chk.list[i].shardId
      BY <2>1 DEF Kept
    <3>2. i \in 1..Len(msg.list) /\ \A j \in 1..i : chk.list[j] = msg.list[j]
      BY <2>1, <3>1 DEF PrefixInv, Prefix
    <3>3. \A j \in 1..i - 1 : msg.list[j].shardId # msg.list[i].shardId
      BY <2>1, <3>1, <3>2
    <3>4. QED
      BY <1>2, <2>1, <3>1, <3>2, <3>3 DEF Kept
  <2>3. QED
    BY <2>2 DEF Recorded, m_IntermediateResultMap
<1>3. QED
  BY <1>1, <1>2

\* The lists stay so throughout.
LEMMA PrefixInductive ==
    ASSUME "garbage" \notin FreedReads
    PROVE  Spec => []PrefixInv
<1>1. Init => PrefixInv
  <2> SUFFICES ASSUME Init PROVE PrefixInv
    OBVIOUS
  <2>1. <<>> \in Seq(ResultType) /\ Len(<<>>) = 0
    BY EmptySeq
  <2>2. QED
    BY <2>1 DEF Init, PrefixInv, Prefix, NoData
<1>2. PrefixInv /\ [Next]_vars => PrefixInv'
  BY PrefixNext
<1>3. QED
  BY <1>1, <1>2, PTL DEF Spec

\* Whatever is offered while serialize_data reads, however many jobs are posted and
\* wherever calls fail or the leader dies, the follower has the first results that
\* were offered, in the order of the offers.
THEOREM CheckpointsInOrder ==
    ASSUME "garbage" \notin FreedReads
    PROVE  Spec => []CheckpointInOrder
<1>1. PrefixInv => CheckpointInOrder
  <2> SUFFICES ASSUME PrefixInv PROVE CheckpointInOrder
    OBVIOUS
  <2>1. /\ DOMAIN chk.list = 1..Len(chk.list) /\ Len(chk.list) \in Nat
        /\ Len(msg.list) \in Nat /\ Len(g_repl_list) \in Nat
    BY LenProperties DEF PrefixInv
  <2>2. QED
    BY <2>1 DEF PrefixInv, Prefix, CheckpointInOrder
<1>2. QED
  BY <1>1, PrefixInductive, PTL

\* Under the same conditions a checkpoint never takes a result away from the follower.
THEOREM CheckpointsGrow ==
    ASSUME "garbage" \notin FreedReads
    PROVE  Spec => CheckpointGrows
<1>1. PrefixInv /\ [Next]_vars => [Recorded \subseteq Recorded']_vars
  <2> SUFFICES ASSUME PrefixInv, Next PROVE Recorded \subseteq Recorded'
    BY DEF vars
  <2>1. chk' = chk \/ chk' = msg
    BY DEF Next, Thread, Request, StartClient, Offer, EndJob, Fail, Die, Lookup, Test, Serialize,
           PushFails, Lock, WakeUp, Register, StartServer, Deliver, TakeOver,
           listVars, threadVars, followerVars
  <2>2. QED
    BY <2>1, PrefixRecorded
<1>2. QED
  BY <1>1, PrefixInductive, PTL DEF Spec, CheckpointGrows
================================================================================
