-------------------------- MODULE LeaderElectionProofs --------------------------
(***************************************************************************)
(* Safety of the election for any number of masters, any interleaving of   *)
(* their ZooKeeper calls and any stops and expirations of sessions.        *)
(*                                                                         *)
(* elect_leader checks the result of neither create nor setData.  The      *)
(* argument is that it need not: sequence numbers only grow, so a master   *)
(* that saw itself smallest stays smallest while its session lives; hence  *)
(* two live masters are never both past the test, and the create and the   *)
(* setData of the one that is cannot meet another master's node.           *)
(***************************************************************************)
EXTENDS LeaderElection, TLAPS

\* A master with a live session that has passed elect_leader's test is smallest.
WinnerIsSmallest ==
    \A m \in masters : pc[m] \in {"create", "set", "leader"} => Smallest(m)

\* /leader belongs to a live master that has created it.
OwnerCreated ==
    leaderNode # None => leaderNode \in masters /\ pc[leaderNode] \in {"set", "leader"}

\* A live master past the create owns /leader.
CreatorOwns ==
    \A m \in masters : pc[m] \in {"set", "leader"} => leaderNode = m

\* A live master past the setData has its name there.
LeaderNamed ==
    \A m \in masters : pc[m] = "leader" => leaderData = m

ElectionInv ==
    /\ TypeOK
    /\ WinnerIsSmallest
    /\ OwnerCreated
    /\ CreatorOwns
    /\ DataNamesOwner
    /\ LeaderNamed

\* No master is registered at first.
LEMMA ElectionInit == Init => ElectionInv
  BY ElectionAssumption DEF Init, ElectionInv, TypeOK, WinnerIsSmallest, OwnerCreated, CreatorOwns,
     DataNamesOwner, LeaderNamed, Masters, None

\* Each step of a master keeps the types.
LEMMA ElectionTypes ==
    ASSUME TypeOK, [Next]_vars
    PROVE  TypeOK'
<1> USE ElectionAssumption DEF TypeOK, Masters, None, Goto, zkVars, watchVars
<1>1. CASE UNCHANGED vars
  BY <1>1 DEF vars
<1>2. ASSUME NEW m \in Masters, Register(m) PROVE TypeOK'
  BY <1>2 DEF Register
<1>3. ASSUME NEW m \in Masters, CheckExists(m) PROVE TypeOK'
  BY <1>3 DEF CheckExists
<1>4. ASSUME NEW m \in Masters, TryElect(m) \/ FollowElect(m) PROVE TypeOK'
  BY <1>4 DEF TryElect, FollowElect, ReadChildren
<1>5. ASSUME NEW m \in Masters, SkipElection(m) \/ ReadLeader(m) PROVE TypeOK'
  BY <1>5 DEF SkipElection, ReadLeader
<1>6. ASSUME NEW m \in Masters, CreateLeader(m) PROVE TypeOK'
  BY <1>6 DEF CreateLeader, FireWatches
<1>7. ASSUME NEW m \in Masters, SetLeaderData(m) PROVE TypeOK'
  BY <1>7 DEF SetLeaderData, FireWatches
<1>8. ASSUME NEW m \in Masters, RecheckExists(m) PROVE TypeOK'
  BY <1>8 DEF RecheckExists
<1>9. ASSUME NEW m \in Masters, WatcherStep(m) PROVE TypeOK'
  <2>1. CASE WatcherChecks(m)
    <3>1. watchTriggered' \in [Masters -> BOOLEAN]
      BY <2>1, Zenon DEF WatcherChecks
    <3>2. QED
      BY <2>1, <3>1 DEF WatcherChecks
  <2>2. CASE WatcherRearms(m)
    BY <2>2 DEF WatcherRearms
  <2>3. QED
    BY <1>9, <2>1, <2>2 DEF WatcherStep
<1>10. ASSUME NEW m \in Masters, Stop(m) PROVE TypeOK'
  BY <1>10 DEF Stop, EndSession
<1>11. ASSUME NEW m \in Masters, Expire(m) PROVE TypeOK'
  BY <1>11 DEF Expire, EndSession
<1>12. QED
  BY <1>1, <1>2, <1>3, <1>4, <1>5, <1>6, <1>7, <1>8, <1>9, <1>10, <1>11 DEF Next, MainStep

\* Every step of a master, of its watcher, and the end of a session keep the
\* invariant.
LEMMA ElectionNext == ElectionInv /\ [Next]_vars => ElectionInv'
<1> SUFFICES ASSUME ElectionInv, [Next]_vars PROVE ElectionInv'
  OBVIOUS
<1> USE ElectionAssumption DEF ElectionInv, WinnerIsSmallest, OwnerCreated, CreatorOwns,
                               DataNamesOwner, LeaderNamed, Smallest, Goto, zkVars, watchVars
<1>0. TypeOK'
  BY ElectionTypes
<1>t. /\ masters \subseteq 1..registered /\ registered \in Nat
      /\ masters \subseteq Masters
      /\ DOMAIN pc = Masters
      /\ leaderNode \in Nat /\ leaderData \in Nat
      /\ Masters \subseteq Int /\ None \notin Masters
  BY DEF TypeOK, Masters, None
<1>1. CASE UNCHANGED vars
  BY <1>0, <1>1 DEF vars
<1>2. ASSUME NEW m \in Masters, Register(m) PROVE ElectionInv'
  <2>1. /\ m \notin masters
        /\ masters' = masters \cup {m}
        /\ \A k \in masters : k < m /\ pc'[k] = pc[k]
        /\ pc'[m] = "exists"
        /\ UNCHANGED <<leaderNode, leaderData>>
    BY <1>2, <1>t DEF Register
  <2>2. QED
    BY <1>0, <1>t, <2>1
<1>3. ASSUME NEW m \in Masters,
             CheckExists(m) \/ SkipElection(m) \/ ReadLeader(m) \/ RecheckExists(m)
      PROVE  ElectionInv'
  <2>1. /\ UNCHANGED <<masters, leaderNode, leaderData>>
        /\ pc[m] \notin {"create", "set", "leader"}
        /\ pc'[m] \notin {"create", "set", "leader"}
        /\ \A k \in Masters \ {m} : pc'[k] = pc[k]
    BY <1>3, <1>t DEF CheckExists, SkipElection, ReadLeader, RecheckExists
  <2>2. QED
    BY <1>0, <1>t, <2>1
<1>4. ASSUME NEW m \in Masters, TryElect(m) \/ FollowElect(m) PROVE ElectionInv'
  <2>1. /\ UNCHANGED <<masters, leaderNode, leaderData>>
        /\ pc[m] \notin {"create", "set", "leader"}
        /\ pc'[m] = "create" => Smallest(m)
        /\ pc'[m] \notin {"set", "leader"}
        /\ \A k \in Masters \ {m} : pc'[k] = pc[k]
    BY <1>4, <1>t DEF TryElect, FollowElect, ReadChildren
  <2>2. QED
    BY <1>0, <1>t, <2>1
<1>5. ASSUME NEW m \in Masters, CreateLeader(m) PROVE ElectionInv'
  <2>1. /\ pc[m] = "create" /\ pc'[m] = "set" /\ masters' = masters
        /\ \A k \in Masters \ {m} : pc'[k] = pc[k]
    BY <1>5, <1>t DEF CreateLeader
  <2>2. CASE m \in masters
    \* Another live owner of /leader would be smallest too.
    <3>1. leaderNode = None
      BY <1>t, <2>1, <2>2
    <3>2. leaderNode' = m /\ leaderData' = None
      BY <1>5, <2>2, <3>1 DEF CreateLeader
    <3>3. \A k \in masters \ {m} : pc[k] \notin {"set", "leader"}
      BY <1>t, <3>1
    <3>4. QED
      BY <1>0, <1>t, <2>1, <2>2, <3>2, <3>3
  <2>3. CASE m \notin masters
    <3>1. UNCHANGED <<leaderNode, leaderData>>
      BY <1>5, <2>3 DEF CreateLeader
    <3>2. QED
      BY <1>0, <1>t, <2>1, <2>3, <3>1
  <2>4. QED
    BY <2>2, <2>3
<1>6. ASSUME NEW m \in Masters, SetLeaderData(m) PROVE ElectionInv'
  <2>1. /\ pc[m] = "set" /\ pc'[m] = "leader" /\ UNCHANGED <<masters, leaderNode>>
        /\ \A k \in Masters \ {m} : pc'[k] = pc[k]
    BY <1>6, <1>t DEF SetLeaderData
  <2>2. CASE m \in masters
    <3>1. leaderNode = m /\ leaderData' = m
      BY <1>6, <1>t, <2>1, <2>2 DEF SetLeaderData
    <3>2. QED
      BY <1>0, <1>t, <2>1, <2>2, <3>1
  <2>3. CASE m \notin masters
    <3>1. UNCHANGED leaderData
      BY <1>6, <2>3 DEF SetLeaderData
    <3>2. QED
      BY <1>0, <1>t, <2>1, <2>3, <3>1
  <2>4. QED
    BY <2>2, <2>3
<1>7. ASSUME NEW m \in Masters, WatcherStep(m) PROVE ElectionInv'
  BY <1>0, <1>7 DEF WatcherStep, WatcherChecks, WatcherRearms
<1>8. ASSUME NEW m \in Masters, Stop(m) \/ Expire(m) PROVE ElectionInv'
  <2>1. /\ m \in masters /\ masters' = masters \ {m}
        /\ \A k \in Masters \ {m} : pc'[k] = pc[k]
        /\ \/ leaderNode = m /\ leaderNode' = None /\ leaderData' = None
           \/ leaderNode # m /\ UNCHANGED <<leaderNode, leaderData>>
    BY <1>8, <1>t DEF Stop, Expire, EndSession
  <2>2. QED
    BY <1>0, <1>t, <2>1
<1>9. QED
  BY <1>1, <1>2, <1>3, <1>4, <1>5, <1>6, <1>7, <1>8 DEF Next, MainStep

\* The invariant holds throughout.
LEMMA ElectionInductive == Spec => []ElectionInv
  BY ElectionInit, ElectionNext, PTL DEF Spec

\* At most one master with a live session acts as leader, it owns /leader, and its
\* name is in it, for any number of masters and whenever masters stop or expire.
THEOREM AtMostOneLeader == Spec => [](OneLeader /\ LeaderOwnsNode)
<1>1. ElectionInv => OneLeader /\ LeaderOwnsNode
  BY DEF ElectionInv, CreatorOwns, LeaderNamed, OneLeader, LeaderOwnsNode
<1>2. QED
  BY <1>1, ElectionInductive, PTL

\* /leader always belongs to the live master with the smallest number and names no
\* one else: the unchecked create and setData never touch another master's node.
THEOREM LeaderNodeCorrect == Spec => [](LeaderIsSmallest /\ DataNamesOwner)
<1>1. ElectionInv => LeaderIsSmallest /\ DataNamesOwner
  BY DEF ElectionInv, WinnerIsSmallest, OwnerCreated, LeaderIsSmallest, Smallest
<1>2. QED
  BY <1>1, ElectionInductive, PTL

\* The variables of the election keep their types.
THEOREM ElectionTypeCorrect == Spec => []TypeOK
<1>1. ElectionInv => TypeOK
  BY DEF ElectionInv
<1>2. QED
  BY <1>1, ElectionInductive, PTL
================================================================================
