----------------------------- MODULE ClusterProofs -----------------------------
(***************************************************************************)
(* Proofs about Cluster, for any workers, jobs, shards and faults:         *)
(*                                                                         *)
(*  - the registry and the clients (RegInv): after update_workers there is *)
(*    one client for each node that was listed, and it leads to the worker *)
(*    that has the node, if that one had written its address;              *)
(*  - the open calls (CallInv): wherever they are, in a queue of a worker  *)
(*    or in the hands of its thread, there is exactly one for each task    *)
(*    that was sent and is not over;                                       *)
(*  - the connections (ConnInv): while no call is late and no leader is    *)
(*    replaced, no task is handled in the connection of another job;       *)
(*  - the data (DataInv): the blobs that the map tasks wrote hold their    *)
(*    pieces, the master's list names every piece of a mapped shard once,  *)
(*    a reducer reads every piece of the input, and so the output of a job *)
(*    that was answered covers its input, whichever leader asked for it.   *)
(***************************************************************************)
EXTENDS Cluster, SequenceTheorems, FiniteSetTheorems, TLAPS

--------------------------------------------------------------------------------
(* Lists.                                                                     *)

\* A set of naturals has a least element.
LEMMA LeastNat ==
    ASSUME NEW S, S \subseteq Nat, S # {}
    PROVE  \E n \in S : \A m \in S : n <= m
<1> DEFINE R == OpToRel(<, Nat)
<1>1. \E n \in S : \A m \in S : ~(<<m, n>> \in R)
  <2> HIDE DEF R
  <2>1. IsWellFoundedOn(R, Nat)
    BY NatLessThanWellFounded, Zenon DEF R
  <2> QED BY <2>1, WFMin, Zenon
<1>2. \A m, n \in S : ~(<<m, n>> \in R) => n <= m
  BY DEF OpToRel
<1> HIDE DEF R
<1> QED BY <1>1, <1>2

\* What Sublist has collected when it has seen n elements.
Upto(q, S) ==
    CHOOSE upto : upto = [i \in 0..Len(q) |->
        IF i = 0 THEN <<>>
        ELSE IF q[i] \in S THEN Append(upto[i - 1], q[i]) ELSE upto[i - 1]]

\* One more element.
Step(was, x, S) == IF x \in S THEN Append(was, x) ELSE was

\* There is such a function.
LEMMA UptoIs ==
    ASSUME NEW T, NEW q \in Seq(T), NEW S
    PROVE  /\ Sublist(q, S) = Upto(q, S)[Len(q)]
           /\ Upto(q, S)[0] = <<>>
           /\ \A i \in 1..Len(q) : Upto(q, S)[i] = Step(Upto(q, S)[i - 1], q[i], S)
<1> DEFINE n == Len(q)
           Fits(j, g) == /\ g = [i \in 0..j |-> g[i]]
                         /\ g[0] = <<>>
                         /\ \A i \in 1..j : g[i] = Step(g[i - 1], q[i], S)
           Bad == {j \in 0..n : ~\E g : Fits(j, g)}
<1>0. n \in Nat
  BY LenProperties
<1>1. Bad = {}
  <2>1. SUFFICES ASSUME Bad # {} PROVE FALSE
    OBVIOUS
  <2>2. PICK j \in Bad : \A m \in Bad : j <= m
    <3>1. Bad \subseteq Nat
      OBVIOUS
    <3> HIDE DEF Bad
    <3> QED BY <2>1, <3>1, LeastNat
  <2>3. j # 0
    <3>1. Fits(0, [i \in 0..0 |-> <<>>])
      OBVIOUS
    <3> QED BY <2>2, <3>1
  <2>4. j \in 1..n /\ j - 1 \in 0..n
    <3> HIDE DEF Fits, n
    <3> QED BY <1>0, <2>2, <2>3
  <2>5. PICK g : Fits(j - 1, g)
    <3> HIDE DEF Fits
    <3>1. j - 1 \notin Bad
      <4> HIDE DEF Bad
      <4> QED BY <1>0, <2>2, <2>4
    <3> QED BY <2>4, <3>1
  <2> DEFINE h == [i \in 0..j |-> IF i < j THEN g[i] ELSE Step(g[j - 1], q[j], S)]
  <2>6. Fits(j, h)
    <3>1. h[0] = <<>>
      BY <2>4, <2>5
    <3>2. ASSUME NEW i \in 1..j PROVE h[i] = Step(h[i - 1], q[i], S)
      <4>1. i - 1 \in 0..j /\ i - 1 < j /\ i \in 0..j
        BY <1>0, <2>4
      <4>2. h[i - 1] = g[i - 1]
        BY <4>1
      <4>3. CASE i = j
        BY <4>1, <4>2, <4>3
      <4>4. CASE i # j
        <5>1. i \in 1..j - 1 /\ i < j
          BY <1>0, <2>4, <4>4
        <5>2. g[i] = Step(g[i - 1], q[i], S)
          BY <2>5, <5>1
        <5> QED BY <4>1, <4>2, <5>1, <5>2
      <4> QED BY <4>3, <4>4
    <3>3. h = [i \in 0..j |-> h[i]]
      OBVIOUS
    <3> QED BY <3>1, <3>2, <3>3
  <2> QED BY <2>2, <2>6
<1>2. PICK g : Fits(n, g)
  <2> HIDE DEF Fits
  <2>1. n \in 0..n
    BY <1>0
  <2> QED BY <1>1, <2>1
<1> DEFINE F(g1) == [i \in 0..n |->
               IF i = 0 THEN <<>>
               ELSE IF q[i] \in S THEN Append(g1[i - 1], q[i]) ELSE g1[i - 1]]
<1>3. g = F(g)
  <2>1. ASSUME NEW i \in 0..n
        PROVE  g[i] = IF i = 0 THEN <<>>
                      ELSE IF q[i] \in S THEN Append(g[i - 1], q[i]) ELSE g[i - 1]
    <3>1. CASE i = 0
      BY <1>2, <3>1
    <3>2. CASE i # 0
      <4>1. i \in 1..n
        BY <1>0, <3>2
      <4>2. g[i] = Step(g[i - 1], q[i], S)
        BY <1>2, <4>1
      <4> QED BY <3>2, <4>2, Zenon DEF Step
    <3> QED BY <3>1, <3>2
  <2> QED BY <1>2, <2>1
<1>4. Upto(q, S) = F(Upto(q, S))
  <2>1. Upto(q, S) = CHOOSE f : f = F(f)
    BY Zenon DEF Upto
  <2> HIDE DEF F
  <2> QED BY <1>3, <2>1
<1>5. Upto(q, S)[0] = <<>> /\ \A i \in 1..n : Upto(q, S)[i] = Step(Upto(q, S)[i - 1], q[i], S)
  <2> DEFINE f == Upto(q, S)
  <2>1. f = F(f)
    BY <1>4
  <2> HIDE DEF f
  <2>2. f[0] = <<>> /\ \A i \in 1..n : f[i] = Step(f[i - 1], q[i], S)
    <3>1. f[0] = <<>>
      BY <1>0, <2>1
    <3>2. ASSUME NEW i \in 1..n PROVE f[i] = Step(f[i - 1], q[i], S)
      <4>1. i \in 0..n /\ i # 0
        BY <1>0
      <4>2. F(f)[i] = IF i = 0 THEN <<>>
                      ELSE IF q[i] \in S THEN Append(f[i - 1], q[i]) ELSE f[i - 1]
        BY <4>1, Zenon
      <4>3. f[i] = F(f)[i]
        <5> HIDE DEF F
        <5> QED BY <2>1
      <4> HIDE DEF F
      <4> QED BY <4>1, <4>2, <4>3, Zenon DEF Step
    <3> QED BY <3>1, <3>2
  <2> QED BY <2>2 DEF f
<1>6. Sublist(q, S) = Upto(q, S)[n]
  BY Zenon DEF Sublist, Upto
<1> QED BY <1>5, <1>6

\* Sublist takes each element of the list that is in S, from a place of its own.
LEMMA SublistIs ==
    ASSUME NEW T, NEW q \in Seq(T), NEW S
    PROVE  /\ Sublist(q, S) \in Seq(T)
           /\ Range(Sublist(q, S)) = Range(q) \cap S
           /\ \E f \in [1..Len(Sublist(q, S)) -> 1..Len(q)] :
                  /\ \A i, j \in 1..Len(Sublist(q, S)) : i < j => f[i] < f[j]
                  /\ \A i \in 1..Len(Sublist(q, S)) : Sublist(q, S)[i] = q[f[i]]
<1> DEFINE n == Len(q)
           g == Upto(q, S)
           Good(m) == /\ g[m] \in Seq(T)
                      /\ \A k \in 1..m : q[k] \in S => \E i \in 1..Len(g[m]) : g[m][i] = q[k]
                      /\ \A i \in 1..Len(g[m]) : g[m][i] \in S
                      /\ \E f \in [1..Len(g[m]) -> 1..m] :
                             /\ \A i, j \in 1..Len(g[m]) : i < j => f[i] < f[j]
                             /\ \A i \in 1..Len(g[m]) : g[m][i] = q[f[i]]
           Bad == {m \in 0..n : ~Good(m)}
<1>0. n \in Nat /\ DOMAIN q = 1..n /\ \A i \in 1..n : q[i] \in T
  BY LenProperties, ElementOfSeq
<1>1. /\ Sublist(q, S) = g[n]
      /\ g[0] = <<>>
      /\ \A i \in 1..n : g[i] = Step(g[i - 1], q[i], S)
  BY UptoIs
<1> HIDE DEF g
<1>2. Good(0)
  <2>1. <<>> \in Seq(T) /\ Len(<<>>) = 0 /\ 1..0 = {}
    BY EmptySeq
  <2>2. [i \in {} |-> i] \in [1..Len(g[0]) -> 1..0]
    BY <1>1, <2>1
  <2> QED BY <1>1, <2>1, <2>2
<1>3. ASSUME NEW m \in 1..n, Good(m - 1) PROVE Good(m)
  <2> DEFINE was == g[m - 1]
             new == g[m]
             l == Len(was)
  <2>0. m - 1 \in Nat /\ was \in Seq(T) /\ l \in Nat /\ m \in Nat
    BY <1>3, LenProperties
  <2>1. PICK f \in [1..l -> 1..m - 1] :
            /\ \A i, j \in 1..l : i < j => f[i] < f[j]
            /\ \A i \in 1..l : was[i] = q[f[i]]
    BY <1>3
  <2>2. /\ \A k \in 1..m - 1 : q[k] \in S => \E i \in 1..l : was[i] = q[k]
        /\ \A i \in 1..l : was[i] \in S
    BY <1>3
  <2>3. CASE q[m] \notin S
    <3>1. new = was
      BY <1>1, <2>3 DEF Step
    <3>2. f \in [1..l -> 1..m]
      BY <2>0, <2>1
    <3>3. \A k \in 1..m : q[k] \in S => \E i \in 1..l : was[i] = q[k]
      <4>1. \A k \in 1..m : k # m => k \in 1..m - 1
        BY <2>0
      <4> QED BY <2>2, <2>3, <4>1
    <3> HIDE DEF was
    <3> QED BY <2>0, <2>1, <2>2, <3>1, <3>2, <3>3
  <2>4. CASE q[m] \in S
    <3>1. new = Append(was, q[m])
      BY <1>1, <2>4 DEF Step
    <3>2. /\ new \in Seq(T) /\ Len(new) = l + 1
          /\ \A i \in 1..l : new[i] = was[i]
          /\ new[l + 1] = q[m]
      BY <1>0, <2>0, <3>1, AppendProperties
    <3> HIDE DEF new, was, l
    <3> DEFINE h == [i \in 1..l + 1 |-> IF i = l + 1 THEN m ELSE f[i]]
    <3>3. \A i \in 1..l + 1 : i # l + 1 => i \in 1..l
      BY <2>0
    <3>4. h \in [1..Len(new) -> 1..m]
      BY <2>0, <2>1, <3>2, <3>3
    <3>5. ASSUME NEW i \in 1..Len(new), NEW j \in 1..Len(new), i < j PROVE h[i] < h[j]
      <4>1. i \in 1..l /\ i # l + 1 /\ f[i] \in 1..m - 1 /\ h[i] = f[i]
        BY <2>0, <2>1, <3>2, <3>5
      <4>2. CASE j = l + 1
        BY <2>0, <3>2, <4>1, <4>2
      <4>3. CASE j # l + 1
        BY <2>0, <2>1, <3>2, <3>3, <3>5, <4>1, <4>3
      <4> QED BY <4>2, <4>3
    <3>6. ASSUME NEW i \in 1..Len(new) PROVE new[i] = q[h[i]] /\ new[i] \in S
      <4>1. CASE i = l + 1
        BY <2>0, <2>4, <3>2, <4>1
      <4>2. CASE i # l + 1
        BY <2>0, <2>1, <2>2, <3>2, <3>3, <4>2
      <4> QED BY <4>1, <4>2
    <3>7. ASSUME NEW k \in 1..m, q[k] \in S PROVE \E i \in 1..Len(new) : new[i] = q[k]
      <4>1. CASE k = m
        <5>1. l + 1 \in 1..Len(new)
          BY <2>0, <3>2
        <5> QED BY <3>2, <4>1, <5>1
      <4>2. CASE k # m
        <5>1. k \in 1..m - 1
          BY <2>0, <4>2
        <5>2. PICK i \in 1..l : was[i] = q[k]
          BY <2>2, <3>7, <5>1
        <5>3. i \in 1..Len(new)
          BY <2>0, <3>2
        <5> QED BY <3>2, <5>2, <5>3
      <4> QED BY <4>1, <4>2
    <3> HIDE DEF h
    <3> QED BY <3>2, <3>4, <3>5, <3>6, <3>7 DEF new
  <2> QED BY <2>3, <2>4
<1>4. Bad = {}
  <2>1. SUFFICES ASSUME Bad # {} PROVE FALSE
    OBVIOUS
  <2>2. PICK m \in Bad : \A k \in Bad : m <= k
    <3>1. Bad \subseteq Nat
      OBVIOUS
    <3> HIDE DEF Bad
    <3> QED BY <2>1, <3>1, LeastNat
  <2> HIDE DEF Good
  <2>3. m \in 1..n /\ m - 1 \in 0..n
    BY <1>0, <1>2, <2>2
  <2>4. Good(m - 1)
    <3>1. m - 1 \notin Bad
      <4> HIDE DEF Bad
      <4> QED BY <1>0, <2>2, <2>3
    <3> QED BY <2>3, <3>1
  <2> QED BY <1>3, <2>2, <2>3, <2>4
<1>5. Good(n)
  <2> HIDE DEF Good
  <2>1. n \in 0..n
    BY <1>0
  <2> QED BY <1>4, <2>1
<1>6. DOMAIN g[n] = 1..Len(g[n])
  BY <1>5, LenProperties
<1>7. Range(g[n]) = Range(q) \cap S
  <2>1. ASSUME NEW x \in Range(g[n]) PROVE x \in Range(q) \cap S
    BY <1>0, <1>5, <1>6 DEF Range
  <2>2. ASSUME NEW x \in Range(q), x \in S PROVE x \in Range(g[n])
    <3>1. PICK k \in 1..n : x = q[k]
      BY <1>0 DEF Range
    <3>2. \A j \in 1..n : q[j] \in S => \E i \in 1..Len(g[n]) : g[n][i] = q[j]
      BY <1>5, Zenon
    <3>3. PICK i \in 1..Len(g[n]) : g[n][i] = x
      BY <2>2, <3>1, <3>2, Zenon
    <3> QED BY <1>6, <3>3, Zenon DEF Range
  <2> QED BY <2>1, <2>2
<1> QED BY <1>1, <1>5, <1>7

--------------------------------------------------------------------------------
(* The registry and the clients.                                              *)

Phases == {"idle", "update", "exchange", "map", "spin", "reduce"}
Working == {"exchange", "map", "reduce"}

Addresses == Workers \cup {NoAddress}
Client == [nodeid : Nat, addr : Addresses]

RegType ==
    /\ nodes \in Nat
    /\ wpc \in [Workers -> {"down", "created", "addressed", "serving", "failed"}]
    /\ node \in [Workers -> Nat]
    /\ \A w \in Workers : node[w] <= nodes
    /\ DOMAIN znodes \subseteq 1..nodes
    /\ \A z \in DOMAIN znodes : znodes[z] \in Addresses
    /\ m_Clients \in Seq(Client)
    /\ \A i \in DOMAIN m_Clients : m_Clients[i].nodeid \in 1..nodes
    /\ wrkrs \subseteq 1..nodes
    /\ unread \subseteq wrkrs /\ due \subseteq wrkrs
    /\ phase \in Phases

\* A process that has a node is the only one that has it, and the node's data are
\* what the process has written.
NodesOwned ==
    \A w \in Workers :
        /\ node[w] # NoNode <=> wpc[w] \in {"created", "addressed", "serving"}
        /\ node[w] # NoNode => node[w] \in DOMAIN znodes
        /\ wpc[w] = "created" => znodes[node[w]] = NoAddress
        /\ wpc[w] \in {"addressed", "serving"} => znodes[node[w]] = w
        /\ \A v \in Workers : node[v] = node[w] /\ node[w] # NoNode => v = w

\* A node that had its address when it was listed keeps it.
DueAddressed ==
    /\ \A z \in due \cap DOMAIN znodes : znodes[z] # NoAddress
    /\ EarlyReads \/ due = wrkrs

\* No node has two clients.
ClientsOnce ==
    \A i, j \in DOMAIN m_Clients : m_Clients[i].nodeid = m_Clients[j].nodeid => i = j

\* The client of a node that belongs to a process leads to that process.
ClientsLead ==
    EarlyReads \/ \A i \in DOMAIN m_Clients, w \in Workers :
                      node[w] = m_Clients[i].nodeid => m_Clients[i].addr = w

\* The first loop of update_workers has seen to the nodes it has read; after the
\* second one the clients are those of the nodes listed.
ClientsRead ==
    /\ phase = "update" => wrkrs \ unread \subseteq ClientIds
    /\ phase \in Working => ClientIds = wrkrs

RegInv ==
    /\ RegType
    /\ NodesOwned
    /\ DueAddressed
    /\ ClientsOnce
    /\ ClientsLead
    /\ ClientsRead

\* A worker closes its session, and sleeps or ends.
Closes(w) == \E then \in {"failed", "down"} : CloseSession(w, then)

\* The steps, as far as the registry and the clients are concerned.
LEMMA RegSteps ==
    ASSUME phase \in Phases, [Next]_vars
    PROVE  \/ /\ UNCHANGED registryVars
              /\ \/ phase' = phase
                 \/ phase \in Working /\ phase' \in {"map", "spin", "reduce", "idle"}
           \/ /\ UNCHANGED registrationVars
              /\ ListWorkers
              /\ phase' = "update"
              /\ m_Clients' \in {m_Clients, <<>>}
           \/ /\ phase = "update" /\ phase' = phase
              /\ \E z \in unread : AddWorker(z)
           \/ /\ phase = "update" /\ phase' \in {"exchange", "idle"}
              /\ RemoveWorkers
           \/ /\ phase' = phase
              /\ \E w \in Workers :
                     Register(w) \/ LeaveNode(w) \/ Closes(w)
           \/ /\ phase' = phase
              /\ \E z \in DOMAIN znodes : SessionExpires(z)
<1>1. CASE MasterStep
  <2>1. CASE StartJob
    BY <2>1 DEF StartJob, EnterPhase, registrationVars
  <2>2. CASE phase = "update" /\ (\E z \in unread : AddWorker(z)) /\ UNCHANGED masterVars
    BY <2>2 DEF masterVars
  <2>3. CASE EndUpdate
    BY <2>3 DEF EndUpdate
  <2>4. CASE RejectJob
    BY <2>4 DEF RejectJob, EnterPhase
  <2>5. CASE EndPhase
    <3>1. UNCHANGED registryVars /\ phase \notin {"idle", "update", "spin"}
      BY <2>5 DEF EndPhase
    <3>2. phase \in Working /\ phase' \in {"map", "spin", "reduce", "idle"}
      BY <2>5 DEF EndPhase, EnterMap, EnterPhase, Phases, Working
    <3> QED BY <3>1, <3>2
  <2>6. CASE \E c \in Range(m_Clients) :
                 ExchangeUnreachable(c) \/ HeartbeatOk(c) \/ HeartbeatFails(c)
    BY <2>6 DEF ExchangeUnreachable, HeartbeatOk, HeartbeatFails
  <2>7. CASE \E c \in Range(m_Clients), t \in todo : Send(c, t)
    BY <2>7 DEF Send
  <2> QED BY <1>1, <2>1, <2>2, <2>3, <2>4, <2>5, <2>6, <2>7 DEF MasterStep
<1>2. ASSUME NEW w \in Workers, WorkerStep(w)
      PROVE  \/ UNCHANGED registryVars /\ phase' = phase
             \/ phase' = phase /\ (Register(w) \/ LeaveNode(w) \/ Closes(w))
  <2>1. CASE Work(w) /\ UNCHANGED <<registryVars, masterVars>>
    BY <2>1 DEF masterVars
  <2>2. CASE AnswerCall(w)
    BY <2>2 DEF AnswerCall
  <2>3. CASE WorkerStops(w)
    BY <2>3 DEF WorkerStops, FailCalls, Closes
  <2>4. CASE Register(w) /\ UNCHANGED masterVars
    BY <2>4 DEF masterVars
  <2> QED BY <1>2, <2>1, <2>2, <2>3, <2>4 DEF WorkerStep
<1>3. ASSUME NEW w \in Workers, Crash(w) PROVE phase' = phase /\ LeaveNode(w)
  BY <1>3 DEF Crash, FailCalls
<1>4. ASSUME NEW w \in Workers, NEW c \in LiveCallsAt(w), Expire(w, c)
      PROVE  UNCHANGED registryVars /\ phase' = phase
  BY <1>4 DEF Expire, FailCalls
<1>5. CASE (\E z \in DOMAIN znodes : SessionExpires(z)) /\ UNCHANGED masterVars
  BY <1>5 DEF masterVars
<1>6. CASE TakeOver
  <2>1. m_Clients' \in {m_Clients, <<>>}
    BY <1>6 DEF TakeOver
  <2> QED BY <1>6, <2>1 DEF TakeOver, EnterPhase, registrationVars
<1>7. ASSUME NEW w \in Workers, StraySend(w) PROVE UNCHANGED registryVars /\ phase' = phase
  BY <1>7 DEF StraySend
<1>8. CASE UNCHANGED vars
  BY <1>8 DEF vars, masterVars
<1> QED BY <1>1, <1>2, <1>3, <1>4, <1>5, <1>6, <1>7, <1>8 DEF Next, ZooKeeperStep

\* The workers that are not late have the nodes from 1 on.
LEMMA FirstNodes ==
    LET W == Workers \ Late
        n == Cardinality(W)
    IN  /\ n \in Nat
        /\ FirstNode \in [W -> 1..n]
        /\ \A v, w \in W : FirstNode[v] = FirstNode[w] => v = w
        /\ \A z \in 1..n : \E w \in W : FirstNode[w] = z
<1> DEFINE W == Workers \ Late
           n == Cardinality(W)
           P(f) == \A v, w \in W : f[v] = f[w] => v = w
<1>1. IsFiniteSet(W)
  BY WorkerAssumption, FS_Difference
<1>2. n \in Nat
  BY <1>1, FS_CardinalityType
<1>3. IsFiniteSet(1..n) /\ Cardinality(1..n) = n
  BY <1>2, FS_Interval
<1>4. PICK f \in Bijection(W, 1..n) : TRUE
  <2>1. ExistsBijection(W, 1..n)
    BY <1>1, <1>3, FS_SameCardinalityBij
  <2> QED BY <2>1 DEF ExistsBijection
<1>5. f \in [W -> 1..n] /\ P(f)
  BY <1>4 DEF Bijection, Injection, IsInjective
<1>6. FirstNode \in [W -> 1..n] /\ P(FirstNode)
  BY <1>5 DEF FirstNode
<1>7. FirstNode \in Injection(W, 1..n)
  BY <1>6 DEF Injection, IsInjective
<1>8. FirstNode \in Surjection(W, 1..n)
  BY <1>3, <1>7, FS_Injection
<1> QED BY <1>2, <1>6, <1>8 DEF Surjection

LEMMA RegInit == ClusterInit => RegInv
<1> SUFFICES ASSUME ClusterInit PROVE RegInv
  OBVIOUS
<1> DEFINE W == Workers \ Late
           n == Cardinality(W)
           owner == [z \in 1..n |-> CHOOSE w \in W : FirstNode[w] = z]
<1>1. /\ n \in Nat
      /\ FirstNode \in [W -> 1..n]
      /\ \A v, w \in W : FirstNode[v] = FirstNode[w] => v = w
      /\ \A z \in 1..n : \E w \in W : FirstNode[w] = z
  BY FirstNodes
<1>2. /\ wpc = [w \in Workers |-> IF w \in Late THEN "down" ELSE "serving"]
      /\ node = [w \in Workers |-> IF w \in Late THEN NoNode ELSE FirstNode[w]]
      /\ nodes = n
      /\ znodes = owner
      /\ m_Clients = [z \in 1..n |-> [nodeid |-> z, addr |-> owner[z]]]
      /\ wrkrs = {} /\ unread = {} /\ due = {}
      /\ phase = "idle"
  BY DEF ClusterInit, RegistryInit
<1>3. \A z \in 1..n : owner[z] \in W /\ FirstNode[owner[z]] = z
  BY <1>1
<1>4. DOMAIN owner = 1..n
  OBVIOUS
<1> HIDE DEF owner, n
<1>5. \A w \in W : FirstNode[w] \in 1..n /\ owner[FirstNode[w]] = w
  BY <1>1, <1>3
<1>6. /\ m_Clients \in Seq(Client) /\ DOMAIN m_Clients = 1..n
      /\ \A z \in 1..n : m_Clients[z].nodeid = z /\ m_Clients[z].addr = owner[z]
  <2>1. \A z \in 1..n : [nodeid |-> z, addr |-> owner[z]] \in Client
    BY <1>1, <1>3 DEF Client, Addresses
  <2>2. m_Clients \in [1..n -> Client]
    BY <1>2, <2>1
  <2>3. m_Clients \in Seq(Client)
    BY <1>1, <2>2, SeqDef
  <2> QED BY <1>2, <2>3
<1>7. RegType
  <2>1. node \in [Workers -> Nat] /\ \A w \in Workers : node[w] <= nodes
    BY <1>1, <1>2 DEF NoNode
  <2>2. wpc \in [Workers -> {"down", "created", "addressed", "serving", "failed"}]
    BY <1>2
  <2>3. DOMAIN znodes \subseteq 1..nodes /\ \A z \in DOMAIN znodes : znodes[z] \in Addresses
    BY <1>2, <1>3, <1>4 DEF Addresses
  <2>4. \A i \in DOMAIN m_Clients : m_Clients[i].nodeid \in 1..nodes
    BY <1>2, <1>6
  <2> QED BY <1>1, <1>2, <1>6, <2>1, <2>2, <2>3, <2>4 DEF RegType, Phases
<1>8. NodesOwned
  <2>1. ASSUME NEW w \in Workers
        PROVE  /\ node[w] # NoNode <=> wpc[w] \in {"created", "addressed", "serving"}
               /\ node[w] # NoNode => node[w] \in DOMAIN znodes
               /\ wpc[w] = "created" => znodes[node[w]] = NoAddress
               /\ wpc[w] \in {"addressed", "serving"} => znodes[node[w]] = w
               /\ \A v \in Workers : node[v] = node[w] /\ node[w] # NoNode => v = w
    <3>1. CASE w \in Late
      BY <1>2, <3>1
    <3>2. CASE w \notin Late
      <4>1. w \in W /\ node[w] = FirstNode[w] /\ wpc[w] = "serving"
        BY <1>2, <3>2
      <4>2. node[w] \in 1..n /\ node[w] # NoNode /\ znodes[node[w]] = w
        BY <1>1, <1>2, <1>5, <4>1 DEF NoNode
      <4>3. ASSUME NEW v \in Workers, node[v] = node[w] PROVE v = w
        BY <1>1, <1>2, <4>1, <4>2, <4>3
      <4> QED BY <1>2, <1>4, <4>1, <4>2, <4>3
    <3> QED BY <3>1, <3>2
  <2> QED BY <2>1 DEF NodesOwned
<1>9. ClientsOnce
  BY <1>6 DEF ClientsOnce
<1>10. ClientsLead
  <2>1. ASSUME NEW z \in 1..n, NEW w \in Workers, node[w] = z PROVE owner[z] = w
    <3>1. w \in W /\ node[w] = FirstNode[w]
      BY <1>2, <2>1 DEF NoNode
    <3> QED BY <1>5, <2>1, <3>1
  <2> QED BY <1>6, <2>1 DEF ClientsLead
<1>11. DueAddressed /\ ClientsRead
  BY <1>2 DEF DueAddressed, ClientsRead, Working
<1> QED BY <1>7, <1>8, <1>9, <1>10, <1>11 DEF RegInv

\* update_workers lists the nodes.
LEMMA RegListed ==
    ASSUME RegInv, UNCHANGED registrationVars, ListWorkers, phase' = "update",
           m_Clients' \in {m_Clients, <<>>}
    PROVE  RegInv'
<1>1. /\ nodes' = nodes /\ wpc' = wpc /\ node' = node /\ znodes' = znodes
      /\ EarlyReads \/ \A z \in DOMAIN znodes : znodes[z] # NoAddress
      /\ wrkrs' = DOMAIN znodes /\ unread' = wrkrs'
      /\ due' = {z \in wrkrs' : znodes[z] # NoAddress}
  BY DEF registrationVars, ListWorkers
<1>2. m_Clients' \in Seq(Client) /\ (m_Clients' = m_Clients \/ DOMAIN m_Clients' = {})
  <2>1. <<>> \in Seq(Client) /\ DOMAIN <<>> = {}
    BY EmptySeq
  <2> QED BY <2>1 DEF RegInv, RegType
<1>3. RegType'
  BY <1>1, <1>2 DEF RegInv, RegType, Phases
<1>4. NodesOwned'
  BY <1>1, Zenon DEF RegInv, NodesOwned
<1>5. DueAddressed'
  BY <1>1 DEF DueAddressed
<1>6. ClientsOnce'
  BY <1>2 DEF RegInv, ClientsOnce
<1>7. ClientsLead'
  BY <1>1, <1>2 DEF RegInv, ClientsLead
<1>8. ClientsRead'
  BY <1>1 DEF ClientsRead, Working
<1> QED BY <1>3, <1>4, <1>5, <1>6, <1>7, <1>8 DEF RegInv

\* ... makes a client for a node that has none,
LEMMA RegAdded ==
    ASSUME RegInv, phase = "update", phase' = phase, NEW z \in unread, AddWorker(z)
    PROVE  RegInv'
<1> DEFINE c == [nodeid |-> z, addr |-> DataOf(z)]
           l == Len(m_Clients)
<1>1. /\ nodes' = nodes /\ wpc' = wpc /\ node' = node /\ znodes' = znodes
      /\ wrkrs' = wrkrs /\ due' = due /\ unread' = unread \ {z}
      /\ m_Clients' = IF worker_client_already_added(z) THEN m_Clients
                      ELSE Append(m_Clients, c)
  BY DEF AddWorker, registrationVars
<1>2. /\ z \in 1..nodes /\ z \in wrkrs /\ c \in Client /\ c.nodeid = z /\ c.addr = DataOf(z)
      /\ m_Clients \in Seq(Client) /\ l \in Nat /\ DOMAIN m_Clients = 1..l
  <2>1. z \in 1..nodes /\ z \in wrkrs /\ nodes \in Nat
    BY DEF RegInv, RegType
  <2>2. DataOf(z) \in Addresses
    BY DEF RegInv, RegType, DataOf, Addresses
  <2>3. m_Clients \in Seq(Client)
    BY DEF RegInv, RegType
  <2> QED BY <2>1, <2>2, <2>3, LenProperties DEF Client
<1> HIDE DEF c, l
<1>3. NodesOwned' /\ DueAddressed'
  BY <1>1, Zenon DEF RegInv, NodesOwned, DueAddressed
<1>4. CASE worker_client_already_added(z)
  <2>1. m_Clients' = m_Clients
    BY <1>1, <1>4
  <2>2. RegType'
    BY <1>1, <2>1 DEF RegInv, RegType
  <2>3. ClientsOnce' /\ ClientsLead'
    BY <1>1, <2>1, Zenon DEF RegInv, ClientsOnce, ClientsLead
  <2>4. z \in ClientIds /\ ClientIds' = ClientIds
    BY <1>4, <2>1 DEF worker_client_already_added, ClientIds
  <2>5. ClientsRead'
    BY <1>1, <2>4 DEF RegInv, ClientsRead, Working
  <2> QED BY <1>3, <2>2, <2>3, <2>5 DEF RegInv
<1>5. CASE ~worker_client_already_added(z)
  <2>1. /\ m_Clients' \in Seq(Client) /\ DOMAIN m_Clients' = 1..l + 1
        /\ \A i \in 1..l : m_Clients'[i] = m_Clients[i]
        /\ m_Clients'[l + 1] = c
    <3>1. m_Clients' = Append(m_Clients, c)
      BY <1>1, <1>5
    <3> QED BY <1>2, <3>1, AppendProperties, LenProperties DEF l
  <2>2. \A i \in 1..l + 1 : i # l + 1 => i \in 1..l
    BY <1>2
  <2>3. \A i \in 1..l : m_Clients[i].nodeid # z
    BY <1>2, <1>5 DEF worker_client_already_added, Range
  <2>4. RegType'
    <3>1. \A i \in DOMAIN m_Clients' : m_Clients'[i].nodeid \in 1..nodes
      <4>1. \A i \in 1..l : m_Clients[i].nodeid \in 1..nodes
        BY <1>2 DEF RegInv, RegType
      <4> QED BY <1>2, <2>1, <2>2, <4>1
    <3> QED BY <1>1, <2>1, <3>1 DEF RegInv, RegType
  <2>5. ClientsOnce'
    <3>1. ASSUME NEW i \in 1..l + 1, NEW j \in 1..l + 1,
                 m_Clients'[i].nodeid = m_Clients'[j].nodeid
          PROVE  i = j
      <4>1. CASE i \in 1..l /\ j \in 1..l
        BY <1>2, <2>1, <3>1, <4>1 DEF RegInv, ClientsOnce
      <4>2. CASE i = l + 1 \/ j = l + 1
        BY <1>2, <2>1, <2>2, <2>3, <3>1, <4>2
      <4> QED BY <2>2, <4>1, <4>2
    <3> QED BY <2>1, <3>1 DEF ClientsOnce
  <2>6. ClientsLead'
    <3>1. ASSUME ~EarlyReads, NEW i \in 1..l + 1, NEW w \in Workers,
                 node[w] = m_Clients'[i].nodeid
          PROVE  m_Clients'[i].addr = w
      <4>1. CASE i \in 1..l
        BY <1>2, <2>1, <3>1, <4>1 DEF RegInv, ClientsLead
      <4>2. CASE i = l + 1
        <5>1. node[w] = z /\ z # NoNode
          BY <1>2, <2>1, <3>1, <4>2 DEF NoNode
        <5>2. z \in due
          BY <1>2, <3>1 DEF RegInv, DueAddressed
        <5>3. z \in DOMAIN znodes /\ znodes[z] # NoAddress /\ wpc[w] \in {"created", "addressed", "serving"}
          BY <5>1, <5>2 DEF RegInv, NodesOwned, DueAddressed
        <5>4. znodes[z] = w
          BY <5>1, <5>3 DEF RegInv, NodesOwned
        <5> QED BY <1>2, <2>1, <4>2, <5>3, <5>4 DEF DataOf
      <4> QED BY <2>2, <4>1, <4>2
    <3> QED BY <1>1, <2>1, <3>1 DEF ClientsLead
  <2>7. ClientsRead'
    <3>1. ClientIds' = ClientIds \cup {z}
      <4>1. ClientIds = {m_Clients[i].nodeid : i \in 1..l}
        BY <1>2 DEF ClientIds, Range
      <4>2. ClientIds' = {m_Clients'[i].nodeid : i \in 1..l + 1}
        BY <2>1 DEF ClientIds, Range
      <4>3. l + 1 \in 1..l + 1 /\ \A i \in 1..l : i \in 1..l + 1
        BY <1>2
      <4> QED BY <1>2, <2>1, <2>2, <4>1, <4>2, <4>3
    <3> QED BY <1>1, <3>1 DEF RegInv, ClientsRead, Working
  <2> QED BY <1>3, <2>4, <2>5, <2>6, <2>7 DEF RegInv
<1> QED BY <1>4, <1>5

\* ... and removes the clients of nodes that were not listed.
LEMMA RegRemoved ==
    ASSUME RegInv, phase = "update", phase' \in {"exchange", "idle"}, RemoveWorkers
    PROVE  RegInv'
<1> DEFINE S == {c \in Range(m_Clients) : c.nodeid \in wrkrs}
           new == Sublist(m_Clients, S)
           l == Len(new)
<1>1. /\ nodes' = nodes /\ wpc' = wpc /\ node' = node /\ znodes' = znodes
      /\ wrkrs' = wrkrs /\ due' = due /\ unread' = unread /\ unread = {}
      /\ m_Clients' = new
  BY DEF RemoveWorkers, registrationVars, ListedClients
<1>2. /\ m_Clients \in Seq(Client) /\ DOMAIN m_Clients = 1..Len(m_Clients)
  BY LenProperties DEF RegInv, RegType
<1>3. /\ new \in Seq(Client)
      /\ Range(new) = Range(m_Clients) \cap S
      /\ \E f \in [1..l -> 1..Len(m_Clients)] :
             /\ \A i, j \in 1..l : i < j => f[i] < f[j]
             /\ \A i \in 1..l : new[i] = m_Clients[f[i]]
  <2> HIDE DEF S
  <2> QED BY <1>2, SublistIs
<1>4. l \in Nat /\ DOMAIN new = 1..l
  BY <1>3, LenProperties
<1> HIDE DEF new, l, S
<1>5. PICK f \in [1..l -> DOMAIN m_Clients] :
          /\ \A i, j \in 1..l : i < j => f[i] < f[j]
          /\ \A i \in 1..l : new[i] = m_Clients[f[i]]
  BY <1>2, <1>3
<1>6. RegType'
  <2>1. \A i \in DOMAIN new : new[i].nodeid \in 1..nodes
    BY <1>4, <1>5 DEF RegInv, RegType
  <2> QED BY <1>1, <1>3, <2>1 DEF RegInv, RegType, Phases
<1>7. NodesOwned' /\ DueAddressed'
  BY <1>1, Zenon DEF RegInv, NodesOwned, DueAddressed
<1>8. ClientsOnce'
  <2>1. ASSUME NEW i \in 1..l, NEW j \in 1..l, new[i].nodeid = new[j].nodeid PROVE i = j
    <3>1. f[i] = f[j]
      BY <1>5, <2>1 DEF RegInv, ClientsOnce
    <3>2. f[i] \in Nat /\ f[j] \in Nat
      BY <1>2, <1>5
    <3>3. ~(i < j) /\ ~(j < i)
      BY <1>5, <3>1, <3>2
    <3> QED BY <1>4, <3>3
  <2> QED BY <1>1, <1>4, <2>1 DEF ClientsOnce
<1>9. ClientsLead'
  BY <1>1, <1>4, <1>5 DEF RegInv, ClientsLead
<1>10. ClientsRead'
  <2>1. Range(new) = S
    BY <1>3 DEF S
  <2>2. wrkrs \subseteq ClientIds
    BY <1>1 DEF RegInv, ClientsRead
  <2>3. {c.nodeid : c \in S} = wrkrs
    BY <2>2 DEF S, ClientIds
  <2>4. ClientIds' = wrkrs
    BY <1>1, <2>1, <2>3 DEF ClientIds
  <2> QED BY <1>1, <2>4 DEF ClientsRead
<1> QED BY <1>6, <1>7, <1>8, <1>9, <1>10 DEF RegInv

\* A worker registers, or stops.
LEMMA RegProcess ==
    ASSUME RegInv, phase' = phase, NEW w \in Workers,
           Register(w) \/ LeaveNode(w) \/ Closes(w)
    PROVE  RegInv'
<1>1. wrkrs' = wrkrs /\ due' = due /\ unread' = unread /\ m_Clients' = m_Clients
  BY DEF Register, RegisterWithZk, RegisterAddressWithZk, RunServer, LeaveNode, Closes, CloseSession,
         updateVars
<1>2. ClientIds' = ClientIds /\ ClientsOnce' /\ ClientsRead'
  <2>1. ClientIds' = ClientIds
    BY <1>1 DEF ClientIds
  <2> QED BY <1>1, <2>1 DEF RegInv, ClientsOnce, ClientsRead
<1>type. /\ nodes \in Nat
         /\ wpc \in [Workers -> {"down", "created", "addressed", "serving", "failed"}]
         /\ node \in [Workers -> Nat]
         /\ \A v \in Workers : node[v] <= nodes
         /\ DOMAIN znodes \subseteq 1..nodes
         /\ \A z \in DOMAIN znodes : znodes[z] \in Addresses
         /\ wrkrs \subseteq 1..nodes
         /\ due \subseteq wrkrs
         /\ \A i \in DOMAIN m_Clients : m_Clients[i].nodeid \in 1..nodes
  BY DEF RegInv, RegType
<1>own. \A v \in Workers :
        /\ node[v] # NoNode <=> wpc[v] \in {"created", "addressed", "serving"}
        /\ node[v] # NoNode => node[v] \in DOMAIN znodes
        /\ wpc[v] = "created" => znodes[node[v]] = NoAddress
        /\ wpc[v] \in {"addressed", "serving"} => znodes[node[v]] = v
        /\ \A u \in Workers : node[u] = node[v] /\ node[v] # NoNode => u = v
  BY DEF RegInv, NodesOwned
<1>due. (\A z \in due \cap DOMAIN znodes : znodes[z] # NoAddress) /\ (EarlyReads \/ due = wrkrs)
  BY DEF RegInv, DueAddressed
<1>3. CASE RegisterWithZk(w)
  <2>1. /\ wpc[w] = "down" /\ nodes' = nodes + 1
        /\ node' = [node EXCEPT ![w] = nodes + 1]
        /\ DOMAIN znodes' = DOMAIN znodes \cup {nodes + 1}
        /\ znodes'[nodes + 1] = NoAddress
        /\ \A z \in DOMAIN znodes : znodes'[z] = znodes[z]
        /\ wpc' = [wpc EXCEPT ![w] = "created"]
    <3>1. nodes + 1 \notin DOMAIN znodes
      BY <1>type
    <3> QED BY <1>3, <3>1 DEF RegisterWithZk
  <2>2. /\ node'[w] = nodes + 1 /\ wpc'[w] = "created"
        /\ \A v \in Workers : v # w => node'[v] = node[v] /\ wpc'[v] = wpc[v]
    BY <1>type, <2>1
  <2>3. RegType'
    <3>1. /\ nodes' \in Nat
          /\ wpc' \in [Workers -> {"down", "created", "addressed", "serving", "failed"}]
          /\ node' \in [Workers -> Nat]
      BY <1>type, <2>1
    <3>2. \A v \in Workers : node'[v] <= nodes'
      BY <1>type, <2>1, <2>2
    <3>3. DOMAIN znodes' \subseteq 1..nodes' /\ \A z \in DOMAIN znodes' : znodes'[z] \in Addresses
      BY <1>type, <2>1 DEF Addresses
    <3>4. wrkrs \subseteq 1..nodes' /\ \A i \in DOMAIN m_Clients : m_Clients[i].nodeid \in 1..nodes'
      BY <1>type, <2>1
    <3> QED BY <1>1, <3>1, <3>2, <3>3, <3>4 DEF RegInv, RegType
  <2>4. NodesOwned'
    <3>1. ASSUME NEW v \in Workers
          PROVE  /\ node'[v] # NoNode <=> wpc'[v] \in {"created", "addressed", "serving"}
                 /\ node'[v] # NoNode => node'[v] \in DOMAIN znodes'
                 /\ wpc'[v] = "created" => znodes'[node'[v]] = NoAddress
                 /\ wpc'[v] \in {"addressed", "serving"} => znodes'[node'[v]] = v
                 /\ \A u \in Workers : node'[u] = node'[v] /\ node'[v] # NoNode => u = v
      <4>1. nodes + 1 # NoNode /\ \A u \in Workers : node[u] # nodes + 1
        BY <1>type DEF NoNode
      <4>2. CASE v = w
        BY <2>1, <2>2, <4>1, <4>2
      <4>3. CASE v # w
        BY <1>own, <2>1, <2>2, <4>1, <4>3
      <4> QED BY <4>2, <4>3
    <3> QED BY <3>1 DEF NodesOwned
  <2>5. DueAddressed'
    <3>1. nodes + 1 \notin due
      BY <1>type
    <3> QED BY <1>1, <1>due, <2>1, <3>1 DEF DueAddressed
  <2>6. ClientsLead'
    <3>1. \A i \in DOMAIN m_Clients : m_Clients[i].nodeid # nodes + 1
      BY <1>type
    <3> QED BY <1>1, <2>2, <3>1 DEF RegInv, ClientsLead
  <2> QED BY <1>2, <2>3, <2>4, <2>5, <2>6 DEF RegInv
<1>4. CASE RegisterAddressWithZk(w)
  <2>1. /\ wpc[w] = "created" /\ nodes' = nodes /\ node' = node
        /\ znodes' = [znodes EXCEPT ![node[w]] = w]
        /\ wpc' = [wpc EXCEPT ![w] = "addressed"]
    BY <1>4 DEF RegisterAddressWithZk
  <2>2. /\ node[w] \in DOMAIN znodes /\ node[w] # NoNode /\ znodes[node[w]] = NoAddress
        /\ DOMAIN znodes' = DOMAIN znodes /\ znodes'[node[w]] = w
        /\ \A z \in DOMAIN znodes : z # node[w] => znodes'[z] = znodes[z]
    BY <1>own, <2>1
  <2>3. wpc'[w] = "addressed" /\ \A v \in Workers : v # w => wpc'[v] = wpc[v]
    BY <1>type, <2>1
  <2>4. RegType'
    <3>1. wpc' \in [Workers -> {"down", "created", "addressed", "serving", "failed"}]
      BY <1>type, <2>1
    <3>2. \A z \in DOMAIN znodes' : znodes'[z] \in Addresses
      BY <1>type, <2>2 DEF Addresses
    <3> QED BY <1>1, <2>1, <2>2, <3>1, <3>2 DEF RegInv, RegType
  <2>5. NodesOwned'
    <3>1. ASSUME NEW v \in Workers
          PROVE  /\ node[v] # NoNode <=> wpc'[v] \in {"created", "addressed", "serving"}
                 /\ node[v] # NoNode => node[v] \in DOMAIN znodes'
                 /\ wpc'[v] = "created" => znodes'[node[v]] = NoAddress
                 /\ wpc'[v] \in {"addressed", "serving"} => znodes'[node[v]] = v
                 /\ \A u \in Workers : node[u] = node[v] /\ node[v] # NoNode => u = v
      <4>1. CASE v = w
        BY <1>own, <2>2, <2>3, <4>1
      <4>2. CASE v # w
        <5>1. node[v] # NoNode => node[v] # node[w]
          BY <1>own, <4>2
        <5> QED BY <1>own, <2>2, <2>3, <4>2, <5>1
      <4> QED BY <4>1, <4>2
    <3> QED BY <2>1, <3>1 DEF NodesOwned
  <2>6. DueAddressed'
    <3>1. node[w] \notin due
      BY <1>due, <2>2
    <3> QED BY <1>1, <1>due, <2>2, <3>1 DEF DueAddressed
  <2>7. ClientsLead'
    BY <1>1, <2>1 DEF RegInv, ClientsLead
  <2> QED BY <1>2, <2>4, <2>5, <2>6, <2>7 DEF RegInv
<1>5. CASE RunServer(w)
  <2>1. /\ wpc[w] = "addressed" /\ nodes' = nodes /\ node' = node /\ znodes' = znodes
        /\ wpc' = [wpc EXCEPT ![w] = "serving"]
    BY <1>5 DEF RunServer
  <2>2. wpc'[w] = "serving" /\ \A v \in Workers : v # w => wpc'[v] = wpc[v]
    BY <1>type, <2>1
  <2>3. RegType'
    <3>1. wpc' \in [Workers -> {"down", "created", "addressed", "serving", "failed"}]
      BY <1>type, <2>1
    <3> QED BY <1>1, <2>1, <3>1 DEF RegInv, RegType
  <2>4. NodesOwned'
    BY <1>own, <2>1, <2>2 DEF NodesOwned
  <2>5. DueAddressed' /\ ClientsLead'
    BY <1>1, <2>1 DEF RegInv, DueAddressed, ClientsLead
  <2> QED BY <1>2, <2>3, <2>4, <2>5 DEF RegInv
<1>6. CASE LeaveNode(w) \/ Closes(w)
  <2>1. /\ nodes' = nodes /\ node' = [node EXCEPT ![w] = NoNode]
        /\ wpc' = [wpc EXCEPT ![w] = "down"] \/ wpc' = [wpc EXCEPT ![w] = "failed"]
        /\ znodes' = znodes \/ znodes' = Without(node[w])
    BY <1>6 DEF LeaveNode, Closes, CloseSession
  <2>2. /\ wpc'[w] \in {"down", "failed"} /\ node'[w] = NoNode
        /\ \A v \in Workers : v # w => wpc'[v] = wpc[v] /\ node'[v] = node[v]
    BY <1>type, <2>1
  <2>3. /\ DOMAIN znodes' \subseteq DOMAIN znodes
        /\ \A z \in DOMAIN znodes : z # node[w] => z \in DOMAIN znodes'
        /\ \A z \in DOMAIN znodes' : znodes'[z] = znodes[z]
    BY <2>1 DEF Without
  <2>4. RegType'
    <3>1. /\ wpc' \in [Workers -> {"down", "created", "addressed", "serving", "failed"}]
          /\ node' \in [Workers -> Nat]
      BY <1>type, <2>1 DEF NoNode
    <3>2. \A v \in Workers : node'[v] <= nodes
      BY <1>type, <2>2 DEF NoNode
    <3>3. DOMAIN znodes' \subseteq 1..nodes /\ \A z \in DOMAIN znodes' : znodes'[z] \in Addresses
      BY <1>type, <2>3
    <3> QED BY <1>1, <2>1, <3>1, <3>2, <3>3 DEF RegInv, RegType
  <2>5. NodesOwned'
    <3>1. ASSUME NEW v \in Workers
          PROVE  /\ node'[v] # NoNode <=> wpc'[v] \in {"created", "addressed", "serving"}
                 /\ node'[v] # NoNode => node'[v] \in DOMAIN znodes'
                 /\ wpc'[v] = "created" => znodes'[node'[v]] = NoAddress
                 /\ wpc'[v] \in {"addressed", "serving"} => znodes'[node'[v]] = v
                 /\ \A u \in Workers : node'[u] = node'[v] /\ node'[v] # NoNode => u = v
      <4>1. CASE v = w
        BY <2>2, <4>1
      <4>2. CASE v # w
        <5>1. node[v] # NoNode => node[v] # node[w] /\ node[v] \in DOMAIN znodes'
          BY <1>own, <2>3, <4>2
        <5> QED BY <1>own, <2>2, <2>3, <4>2, <5>1
      <4> QED BY <4>1, <4>2
    <3> QED BY <3>1 DEF NodesOwned
  <2>6. DueAddressed'
    BY <1>1, <1>due, <2>3 DEF DueAddressed
  <2>7. ClientsLead'
    <3>1. \A i \in DOMAIN m_Clients : m_Clients[i].nodeid # NoNode
      BY <1>type DEF NoNode
    <3> QED BY <1>1, <2>2, <3>1 DEF RegInv, ClientsLead
  <2> QED BY <1>2, <2>4, <2>5, <2>6, <2>7 DEF RegInv
<1> QED BY <1>3, <1>4, <1>5, <1>6 DEF Register

LEMMA RegExpired ==
    ASSUME RegInv, phase' = phase, NEW z \in DOMAIN znodes, SessionExpires(z)
    PROVE  RegInv'
<1>1. /\ wrkrs' = wrkrs /\ due' = due /\ unread' = unread /\ m_Clients' = m_Clients
      /\ nodes' = nodes /\ node' = node /\ wpc' = wpc
      /\ z \notin Range(node)
      /\ DOMAIN znodes' = DOMAIN znodes \ {z}
      /\ \A y \in DOMAIN znodes' : znodes'[y] = znodes[y]
  BY DEF SessionExpires, updateVars, Without
<1>2. RegType'
  BY <1>1 DEF RegInv, RegType
<1>3. NodesOwned'
  <2>1. \A w \in Workers : node[w] # z
    BY <1>1 DEF RegInv, RegType, Range
  <2> QED BY <1>1, <2>1 DEF RegInv, NodesOwned
<1>4. DueAddressed' /\ ClientsLead' /\ ClientsOnce'
  BY <1>1 DEF RegInv, DueAddressed, ClientsLead, ClientsOnce
<1>5. ClientsRead'
  <2>1. ClientIds' = ClientIds
    BY <1>1 DEF ClientIds
  <2> QED BY <1>1, <2>1 DEF RegInv, ClientsRead
<1> QED BY <1>2, <1>3, <1>4, <1>5 DEF RegInv

LEMMA RegNext == RegInv /\ [Next]_vars => RegInv'
<1> SUFFICES ASSUME RegInv, [Next]_vars PROVE RegInv'
  OBVIOUS
<1>1. phase \in Phases
  BY DEF RegInv, RegType
<1>2. ASSUME UNCHANGED registryVars,
             phase' = phase \/ (phase \in Working /\ phase' \in {"map", "spin", "reduce", "idle"})
      PROVE  RegInv'
  <2>1. /\ nodes' = nodes /\ wpc' = wpc /\ node' = node /\ znodes' = znodes
        /\ wrkrs' = wrkrs /\ due' = due /\ unread' = unread /\ m_Clients' = m_Clients
    BY <1>2 DEF registryVars, registrationVars, updateVars
  <2>2. phase' \in Phases /\ ClientIds' = ClientIds
    BY <1>1, <1>2, <2>1 DEF Phases, ClientIds
  <2>3. RegType'
    BY <2>1, <2>2, Zenon DEF RegInv, RegType
  <2>4. NodesOwned' /\ DueAddressed' /\ ClientsOnce' /\ ClientsLead'
    <3>1. NodesOwned'
      BY <2>1, Zenon DEF RegInv, NodesOwned
    <3>2. DueAddressed'
      BY <2>1, Zenon DEF RegInv, DueAddressed
    <3>3. ClientsOnce' /\ ClientsLead'
      BY <2>1, Zenon DEF RegInv, ClientsOnce, ClientsLead
    <3> QED BY <3>1, <3>2, <3>3
  <2>5. ClientsRead'
    BY <1>2, <2>1, <2>2 DEF RegInv, ClientsRead, Working
  <2> QED BY <2>3, <2>4, <2>5 DEF RegInv
<1> QED BY <1>1, <1>2, RegSteps, RegListed, RegAdded, RegRemoved, RegProcess, RegExpired

\* The registry's variables, the clients and the phase keep their types: every client
\* is of a node that was created, and every node listed was.
THEOREM RegistryTypes == Spec => []RegType
<1>1. RegInv => RegType
  BY DEF RegInv
<1> QED BY <1>1, RegInit, RegNext, PTL DEF Spec

\* After update_workers the clients are those of the nodes that were listed, one for
\* each: whatever nodes come and go meanwhile, and whatever clients an earlier job
\* or an earlier leader left.
THEOREM ClientsMatchRegistry == Spec => []ClientsListed
<1>1. RegInv => ClientsListed
  <2> SUFFICES ASSUME RegInv, phase \in Working
               PROVE  ClientIds = wrkrs /\ Len(m_Clients) = Cardinality(wrkrs)
    BY DEF ClientsListed, Working
  <2>1. ClientIds = wrkrs
    BY DEF RegInv, ClientsRead
  <2> DEFINE l == Len(m_Clients)
             f == [i \in 1..l |-> m_Clients[i].nodeid]
  <2>2. l \in Nat /\ DOMAIN m_Clients = 1..l
    BY LenProperties DEF RegInv, RegType
  <2>3. wrkrs = {m_Clients[i].nodeid : i \in 1..l}
    BY <2>1, <2>2 DEF ClientIds, Range
  <2>4. \A i, j \in 1..l : m_Clients[i].nodeid = m_Clients[j].nodeid => i = j
    BY <2>2 DEF RegInv, ClientsOnce
  <2>5. f \in Bijection(1..l, wrkrs)
    BY <2>3, <2>4 DEF Bijection, Injection, Surjection, IsInjective
  <2>6. IsFiniteSet(1..l) /\ Cardinality(1..l) = l
    <3> HIDE DEF l
    <3> QED BY <2>2, FS_Interval
  <2>7. ExistsBijection(1..l, wrkrs)
    BY <2>5 DEF ExistsBijection
  <2> QED BY <2>1, <2>6, <2>7, FS_Bijection
<1> QED BY <1>1, RegInit, RegNext, PTL DEF Spec

\* A worker that had registered its address when the nodes were listed, and still
\* runs, has a client that leads to it, if no listing ever comes between the two
\* requests by which a worker registers.
THEOREM RegisteredAreReached ==
    ASSUME EarlyReads = FALSE
    PROVE  Spec => []RegisteredReachable
<1>1. RegInv => RegisteredReachable
  <2> SUFFICES ASSUME RegInv, phase \in Working, NEW w \in Workers, node[w] \in due
               PROVE  \E c \in Range(m_Clients) : c.nodeid = node[w] /\ c.addr = w
    BY DEF RegisteredReachable, Working
  <2>1. node[w] \in ClientIds
    BY DEF RegInv, RegType, ClientsRead
  <2>2. PICK i \in DOMAIN m_Clients : m_Clients[i].nodeid = node[w]
    BY <2>1 DEF ClientIds, Range
  <2>3. m_Clients[i].addr = w
    BY <2>2 DEF RegInv, ClientsLead
  <2> QED BY <2>2, <2>3 DEF Range
<1> QED BY <1>1, RegInit, RegNext, PTL DEF Spec

--------------------------------------------------------------------------------
(* The calls that are open.                                                   *)

\* Requests are served in their order, and a phase belongs to a request.
JobInv ==
    /\ job \in 0..MaxJobs
    /\ phase # "idle" => job # 0
    /\ \A o \in old : LeaderFails /\ job # 0 /\ o.job \in 1..MaxJobs

LEMMA JobInit == ClusterInit => JobInv
BY WorkerAssumption DEF ClusterInit, JobInv

LEMMA JobNext == JobInv /\ [Next]_vars => JobInv'
<1> SUFFICES ASSUME JobInv, [Next]_vars PROVE JobInv'
  OBVIOUS
<1>0. MaxJobs \in Nat /\ job \in Nat
  BY WorkerAssumption DEF JobInv
<1>1. CASE StartJob
  <2>1. job' = job + 1 /\ job < MaxJobs /\ old' = old
    BY <1>1 DEF StartJob
  <2> QED BY <1>0, <2>1 DEF JobInv
<1>2. CASE TakeOver
  <2>1. LeaderFails /\ job = 1 /\ job' = job /\ old' = {[job |-> job, blobs |-> IF phase = "reduce" THEN intblobs ELSE <<>>]}
    BY <1>2 DEF TakeOver
  <2> QED BY <1>0, <2>1 DEF JobInv
<1>3. CASE job' = job /\ old' = old /\ (phase' = phase \/ phase' = "idle" \/ phase # "idle")
  BY <1>3 DEF JobInv
<1>4. ~StartJob /\ ~TakeOver => job' = job /\ old' = old /\ (phase' = phase \/ phase' = "idle" \/ phase # "idle")
  <2>1. ASSUME MasterStep, ~StartJob PROVE job' = job /\ old' = old /\ (phase' = phase \/ phase' = "idle" \/ phase # "idle")
    BY <2>1 DEF MasterStep, EndUpdate, RejectJob, EndPhase, ExchangeUnreachable, HeartbeatOk,
                HeartbeatFails, PingExpires, Send, masterVars, leaderVars
  <2>2. ASSUME NEW w \in Workers, WorkerStep(w) \/ Crash(w) \/ StraySend(w) PROVE job' = job /\ old' = old /\ phase' = phase
    BY <2>2 DEF WorkerStep, AnswerCall, WorkerStops, Crash, StraySend, FailCalls, masterVars, leaderVars
  <2>3. ASSUME NEW w \in Workers, NEW c \in LiveCallsAt(w), Expire(w, c) PROVE job' = job /\ old' = old /\ phase' = phase
    BY <2>3 DEF Expire, FailCalls, leaderVars
  <2> QED BY <2>1, <2>2, <2>3 DEF Next, ZooKeeperStep, vars, masterVars, leaderVars
<1> QED BY <1>1, <1>2, <1>3, <1>4

\* What a call says.
IsCall(c) ==
    /\ DOMAIN c = {"kind", "job", "task", "live", "cont", "blobs"}
    /\ c.kind \in Kinds
    /\ c.job \in 1..MaxJobs
    /\ c.live \in BOOLEAN
    /\ c.kind = "exchange" => c.cont = Container[c.job]

\* The open calls of a queue, and that it has no two for one task.
OpenCalls(q) == {q[i] : i \in {i \in 1..Len(q) : q[i].live}}
OncePerTask(q) ==
    \A i, j \in 1..Len(q) : q[i].live /\ q[j].live /\ q[i].task = q[j].task => i = j

IsQueue(q) ==
    /\ q \in Seq(Range(q))
    /\ \A i \in 1..Len(q) : IsCall(q[i])
    /\ OncePerTask(q)

\* Where a worker has calls.
Places == {"running", "cq"} \cup Kinds

OpenAt(w, p) ==
    CASE p = "running" -> {c \in {running[w]} : c.live}
      [] p = "cq" -> OpenCalls(cq[w])
      [] OTHER -> OpenCalls(pending[w][p])

QueueType ==
    /\ DOMAIN running = Workers /\ DOMAIN cq = Workers /\ DOMAIN pending = Workers
    /\ \A w \in Workers :
        /\ running[w] = NoCall \/ IsCall(running[w])
        /\ IsQueue(cq[w])
        /\ DOMAIN pending[w] = Kinds
        /\ \A k \in Kinds :
            /\ IsQueue(pending[w][k])
            /\ \A i \in 1..Len(pending[w][k]) : pending[w][k][i].kind = k

\* An open call is for a task of this phase and job that was sent and is not over.
CallsCurrent ==
    \A w \in Workers, p \in Places : \A c \in OpenAt(w, p) :
        /\ c.kind = phase /\ c.job = job
        /\ c.task \in TasksOf(phase) \ (todo \cup results)

\* No two open calls are for the same task.
CallsOnce ==
    \A w, v \in Workers, p, q \in Places : \A c \in OpenAt(w, p), d \in OpenAt(v, q) :
        c.task = d.task => w = v /\ p = q /\ c = d

\* Every task that was sent and is not over has an open call.
CallsOpen ==
    \A t \in TasksOf(phase) \ (todo \cup results) :
        \E w \in Workers, p \in Places : \E c \in OpenAt(w, p) : c.task = t

TasksSplit ==
    /\ todo \subseteq TasksOf(phase)
    /\ todo \cap results = {}
    /\ phase \in {"idle", "update"} => results = {}

CallInv ==
    /\ QueueType
    /\ CallsCurrent
    /\ CallsOnce
    /\ CallsOpen
    /\ TasksSplit

LEMMA EmptyQueue == IsQueue(<<>>) /\ OpenCalls(<<>>) = {} /\ Len(<<>>) = 0
<1>1. <<>> \in Seq(Range(<<>>)) /\ Len(<<>>) = 0
  BY EmptySeq
<1> QED BY <1>1 DEF IsQueue, OpenCalls, OncePerTask

LEMMA QueueList ==
    ASSUME NEW q, IsQueue(q)
    PROVE  Len(q) \in Nat /\ DOMAIN q = 1..Len(q) /\ \A i \in 1..Len(q) : IsCall(q[i])
BY LenProperties DEF IsQueue

\* A call joins a queue,
LEMMA QueueAppend ==
    ASSUME NEW q, IsQueue(q), NEW c, IsCall(c),
           c.live => \A d \in OpenCalls(q) : d.task # c.task
    PROVE  /\ IsQueue(Append(q, c))
           /\ OpenCalls(Append(q, c)) = OpenCalls(q) \cup {d \in {c} : d.live}
           /\ Len(Append(q, c)) = Len(q) + 1
           /\ \A i \in 1..Len(q) : Append(q, c)[i] = q[i]
           /\ Append(q, c)[Len(q) + 1] = c
<1> DEFINE S == Range(q) \cup {c}
           a == Append(q, c)
           l == Len(q)
<1>1. l \in Nat /\ DOMAIN q = 1..l /\ \A i \in 1..l : IsCall(q[i])
  BY QueueList
<1>2. q \in Seq(S) /\ c \in S
  BY SeqMonotonic DEF IsQueue
<1>3. /\ a \in Seq(S) /\ Len(a) = l + 1
      /\ \A i \in 1..l : a[i] = q[i]
      /\ a[l + 1] = c
  <2> HIDE DEF S
  <2> QED BY <1>2, AppendProperties
<1>4. DOMAIN a = 1..l + 1
  BY <1>3, LenProperties
<1> HIDE DEF a, l
<1>5. \A i \in 1..l + 1 : i # l + 1 => i \in 1..l
  BY <1>1
<1>6. l + 1 \in 1..l + 1 /\ \A i \in 1..l : i \in 1..l + 1
  BY <1>1
<1>7. a \in Seq(Range(a))
  <2>1. \A i \in 1..l + 1 : a[i] \in Range(a)
    BY <1>4 DEF Range
  <2>2. a = [i \in 1..l + 1 |-> a[i]]
    BY <1>3, <1>1
  <2>3. a \in [1..l + 1 -> Range(a)]
    BY <2>1, <2>2
  <2> QED BY <1>1, <2>3, SeqDef
<1>8. \A i \in 1..l + 1 : IsCall(a[i])
  BY <1>1, <1>3, <1>5
<1>9. OpenCalls(q) = {q[i] : i \in {i \in 1..l : q[i].live}}
  BY DEF OpenCalls, l
<1>10. OncePerTask(a)
  <2>1. ASSUME NEW i \in 1..l + 1, NEW j \in 1..l + 1, a[i].live, a[j].live, a[i].task = a[j].task
        PROVE  i = j
    <3>1. CASE i \in 1..l /\ j \in 1..l
      BY <1>3, <2>1, <3>1 DEF IsQueue, OncePerTask, l
    <3>2. CASE i = l + 1 /\ j \in 1..l
      BY <1>3, <1>9, <2>1, <3>2
    <3>3. CASE j = l + 1 /\ i \in 1..l
      BY <1>3, <1>9, <2>1, <3>3
    <3> QED BY <1>5, <3>1, <3>2, <3>3
  <2> QED BY <1>3, <2>1 DEF OncePerTask
<1>11. OpenCalls(a) = OpenCalls(q) \cup {d \in {c} : d.live}
  <2>1. OpenCalls(a) = {a[i] : i \in {i \in 1..l + 1 : a[i].live}}
    BY <1>3 DEF OpenCalls
  <2>2. ASSUME NEW d \in OpenCalls(a) PROVE d \in OpenCalls(q) \cup {x \in {c} : x.live}
    <3>1. PICK i \in 1..l + 1 : a[i] = d /\ a[i].live
      BY <2>1
    <3>2. CASE i = l + 1
      BY <1>3, <3>1, <3>2
    <3>3. CASE i # l + 1
      BY <1>3, <1>5, <1>9, <3>1, <3>3
    <3> QED BY <3>2, <3>3
  <2>3. ASSUME NEW d \in OpenCalls(q) PROVE d \in OpenCalls(a)
    <3>1. PICK i \in 1..l : q[i] = d /\ q[i].live
      BY <1>9
    <3> QED BY <1>3, <1>6, <2>1, <3>1
  <2>4. c.live => c \in OpenCalls(a)
    BY <1>3, <1>6, <2>1
  <2> QED BY <2>2, <2>3, <2>4
<1>12. IsQueue(a)
  BY <1>3, <1>7, <1>8, <1>10 DEF IsQueue
<1> QED BY <1>3, <1>11, <1>12 DEF a, l

\* ... leaves it,
LEMMA QueueTail ==
    ASSUME NEW q, IsQueue(q), q # <<>>
    PROVE  /\ IsCall(Head(q))
           /\ IsQueue(Tail(q))
           /\ OpenCalls(Tail(q)) = OpenCalls(q) \ {Head(q)}
           /\ Head(q).live => Head(q) \in OpenCalls(q)
           /\ \A d \in OpenCalls(Tail(q)) : Head(q).live => d.task # Head(q).task
           /\ Len(Tail(q)) = Len(q) - 1
           /\ \A i \in 1..Len(Tail(q)) : Tail(q)[i] = q[i + 1]
           /\ 1 \in 1..Len(q) /\ Head(q) = q[1]
<1> DEFINE r == Tail(q)
           h == Head(q)
           l == Len(q)
<1>1. l \in Nat /\ DOMAIN q = 1..l /\ \A i \in 1..l : IsCall(q[i])
  BY QueueList
<1>2. /\ r \in Seq(Range(q)) /\ Len(r) = l - 1
      /\ \A i \in 1..Len(r) : r[i] = q[i + 1]
      /\ h = q[1] /\ l \in Nat \ {0}
  BY HeadTailProperties, EmptySeq DEF IsQueue
<1>3. DOMAIN r = 1..l - 1
  BY <1>2, LenProperties
<1> HIDE DEF r, h, l
<1>4. /\ l - 1 \in Nat /\ 1 \in 1..l
      /\ \A i \in 1..l - 1 : i + 1 \in 1..l /\ i + 1 # 1
      /\ \A i \in 1..l : i # 1 => i - 1 \in 1..l - 1 /\ (i - 1) + 1 = i
  BY <1>2
<1>5. r \in Seq(Range(r))
  <2>1. \A i \in 1..l - 1 : r[i] \in Range(r)
    BY <1>3 DEF Range
  <2>2. r = [i \in 1..l - 1 |-> r[i]]
    BY <1>2
  <2>3. r \in [1..l - 1 -> Range(r)]
    BY <2>1, <2>2
  <2> QED BY <1>4, <2>3, SeqDef
<1>6. \A i \in 1..l - 1 : r[i] = q[i + 1] /\ IsCall(r[i])
  BY <1>1, <1>2, <1>4
<1>once. \A i, j \in 1..l : q[i].live /\ q[j].live /\ q[i].task = q[j].task => i = j
  BY DEF IsQueue, OncePerTask, l
<1>7. OncePerTask(r)
  <2>1. ASSUME NEW i \in 1..l - 1, NEW j \in 1..l - 1, r[i].live, r[j].live, r[i].task = r[j].task
        PROVE  i = j
    <3>1. i + 1 = j + 1
      BY <1>4, <1>6, <1>once, <2>1
    <3> QED BY <3>1
  <2> QED BY <1>2, <2>1 DEF OncePerTask
<1>8. OpenCalls(q) = {q[i] : i \in {i \in 1..l : q[i].live}}
  BY DEF OpenCalls, l
<1>9. OpenCalls(r) = {r[i] : i \in {i \in 1..l - 1 : r[i].live}}
  BY <1>2 DEF OpenCalls
<1>10. ASSUME NEW d \in OpenCalls(r)
       PROVE  d \in OpenCalls(q) /\ d # h /\ (h.live => d.task # h.task)
  <2>1. PICK i \in 1..l - 1 : r[i] = d /\ r[i].live
    BY <1>9
  <2>2. i + 1 \in 1..l /\ i + 1 # 1 /\ q[i + 1] = d /\ q[i + 1].live
    BY <1>4, <1>6, <2>1
  <2>3. h.live => d.task # h.task
    BY <1>2, <1>4, <1>once, <2>2
  <2>4. d # h
    BY <2>2, <2>3
  <2> QED BY <1>8, <2>2, <2>3, <2>4
<1>11. ASSUME NEW d \in OpenCalls(q), d # h PROVE d \in OpenCalls(r)
  <2>1. PICK i \in 1..l : q[i] = d /\ q[i].live
    BY <1>8
  <2>2. i # 1
    BY <1>2, <1>11, <2>1
  <2>3. i - 1 \in 1..l - 1 /\ r[i - 1] = d /\ r[i - 1].live
    BY <1>4, <1>6, <2>1, <2>2
  <2> QED BY <1>9, <2>3
<1>12. h.live => h \in OpenCalls(q)
  BY <1>2, <1>4, <1>8
<1>13. OpenCalls(r) = OpenCalls(q) \ {h}
  BY <1>10, <1>11
<1>14. IsQueue(r)
  BY <1>2, <1>5, <1>6, <1>7 DEF IsQueue
<1>15. IsCall(h)
  BY <1>1, <1>2, <1>4
<1> QED BY <1>2, <1>4, <1>10, <1>12, <1>13, <1>14, <1>15 DEF r, h, l

\* A call that has ended.
LEMMA EndedCall ==
    /\ Ended(NoCall) = NoCall
    /\ \A c : IsCall(c) => /\ IsCall(Ended(c)) /\ Ended(c).live = FALSE
                           /\ Ended(c).kind = c.kind /\ Ended(c).job = c.job
                           /\ Ended(c).task = c.task /\ Ended(c).blobs = c.blobs
<1>1. Ended(NoCall) = NoCall
  <2>1. /\ DOMAIN NoCall = {"kind", "live"} /\ NoCall.live = FALSE
        /\ NoCall = [x \in {"kind", "live"} |-> NoCall[x]]
    BY DEF NoCall
  <2>2. \A r : DOMAIN r = {"kind", "live"} /\ r.live = FALSE
                  /\ r = [x \in {"kind", "live"} |-> r[x]]
              => [r EXCEPT !.live = FALSE] = r
    OBVIOUS
  <2> QED BY <2>1, <2>2, Zenon DEF Ended
<1>2. ASSUME NEW c, IsCall(c)
      PROVE  /\ IsCall(Ended(c)) /\ Ended(c).live = FALSE
             /\ Ended(c).kind = c.kind /\ Ended(c).job = c.job
             /\ Ended(c).task = c.task /\ Ended(c).blobs = c.blobs
  BY <1>2 DEF Ended, IsCall
<1> QED BY <1>1, <1>2

\* ... ends in its place: q and e have the same calls but for some that ended.
LEMMA QueueEnds ==
    ASSUME NEW q, IsQueue(q), NEW e, DOMAIN e = DOMAIN q,
           e = [i \in 1..Len(q) |-> e[i]],
           \A i \in 1..Len(q) : e[i] = q[i] \/ e[i] = Ended(q[i])
    PROVE  /\ IsQueue(e) /\ Len(e) = Len(q)
           /\ OpenCalls(e) = {q[i] : i \in {i \in 1..Len(q) : q[i].live /\ e[i].live}}
           /\ \A i \in 1..Len(q) : e[i].kind = q[i].kind
<1> DEFINE l == Len(q)
<1>1. l \in Nat /\ DOMAIN q = 1..l /\ \A i \in 1..l : IsCall(q[i])
  BY QueueList
<1> HIDE DEF l
<1>2. e \in Seq(Range(e)) /\ Len(e) = l
  <2>1. \A i \in 1..l : e[i] \in Range(e)
    BY <1>1 DEF Range
  <2>2. e \in [1..l -> Range(e)]
    BY <2>1 DEF l
  <2>3. e \in Seq(Range(e))
    BY <1>1, <2>2, SeqDef
  <2>4. DOMAIN e = 1..Len(e) /\ Len(e) \in Nat
    BY <2>3, LenProperties
  <2>5. 1..l = 1..Len(e)
    BY <1>1, <2>4
  <2>6. l = Len(e)
    <3>1. l > 0 => l \in 1..Len(e)
      BY <1>1, <2>5
    <3>2. Len(e) > 0 => Len(e) \in 1..l
      <4>1. Len(e) > 0 => Len(e) \in 1..Len(e)
        BY <2>4
      <4> QED BY <2>5, <4>1, Zenon
    <3> QED BY <1>1, <2>4, <3>1, <3>2
  <2> QED BY <2>3, <2>6
<1>3. ASSUME NEW i \in 1..l
      PROVE  /\ IsCall(e[i]) /\ e[i].kind = q[i].kind /\ e[i].task = q[i].task
             /\ e[i].live => q[i].live /\ e[i] = q[i]
  BY <1>1, EndedCall DEF l
<1>4. OncePerTask(e)
  <2>1. \A i, j \in 1..l : q[i].live /\ q[j].live /\ q[i].task = q[j].task => i = j
    BY DEF IsQueue, OncePerTask, l
  <2>2. ASSUME NEW i \in 1..l, NEW j \in 1..l, e[i].live, e[j].live, e[i].task = e[j].task
        PROVE  i = j
    <3>1. q[i].live /\ q[j].live /\ e[i].task = q[i].task /\ e[j].task = q[j].task
      BY <1>3, <2>2, Zenon
    <3> QED BY <2>1, <2>2, <3>1, Zenon
  <2> QED BY <1>2, <2>2, Zenon DEF OncePerTask
<1>5. OpenCalls(e) = {q[i] : i \in {i \in 1..l : q[i].live /\ e[i].live}}
  <2>1. OpenCalls(e) = {e[i] : i \in {i \in 1..l : e[i].live}}
    BY <1>2 DEF OpenCalls
  <2>2. ASSUME NEW d \in OpenCalls(e)
        PROVE  d \in {q[i] : i \in {i \in 1..l : q[i].live /\ e[i].live}}
    BY <1>3, <2>1
  <2>3. ASSUME NEW i \in 1..l, q[i].live, e[i].live PROVE q[i] \in OpenCalls(e)
    BY <1>3, <2>1, <2>3
  <2> QED BY <2>2, <2>3
<1> QED BY <1>2, <1>3, <1>4, <1>5 DEF IsQueue, l

LEMMA QueueEndIn ==
    ASSUME NEW q, IsQueue(q), NEW c, IsCall(c), c.live
    PROVE  /\ IsQueue(EndIn(q, c)) /\ Len(EndIn(q, c)) = Len(q)
           /\ OpenCalls(EndIn(q, c)) = OpenCalls(q) \ {c}
           /\ \A i \in 1..Len(q) : EndIn(q, c)[i].kind = q[i].kind
<1> DEFINE e == EndIn(q, c)
           l == Len(q)
<1>1. DOMAIN q = 1..l
  BY QueueList
<1>2. /\ DOMAIN e = DOMAIN q /\ e = [i \in 1..l |-> e[i]]
      /\ \A i \in 1..l : e[i] = IF q[i] = c THEN Ended(c) ELSE q[i]
  BY <1>1 DEF EndIn
<1> HIDE DEF e, l
<1>3. /\ IsQueue(e) /\ Len(e) = l
      /\ OpenCalls(e) = {q[i] : i \in {i \in 1..l : q[i].live /\ e[i].live}}
      /\ \A i \in 1..l : e[i].kind = q[i].kind
  <2>1. /\ DOMAIN e = DOMAIN q /\ e = [i \in 1..Len(q) |-> e[i]]
        /\ \A i \in 1..Len(q) : e[i] = q[i] \/ e[i] = Ended(q[i])
    BY <1>2, Zenon DEF l
  <2> QED BY <2>1, QueueEnds, Zenon DEF l
<1>4. Ended(c).live = FALSE
  BY EndedCall
<1>5. OpenCalls(e) = OpenCalls(q) \ {c}
  <2>1. OpenCalls(q) = {q[i] : i \in {i \in 1..l : q[i].live}}
    BY DEF OpenCalls, l
  <2>2. \A i \in 1..l : q[i].live => (e[i].live <=> q[i] # c)
    BY <1>2, <1>4
  <2> QED BY <1>3, <2>1, <2>2
<1> QED BY <1>3, <1>5 DEF e, l

LEMMA QueueEndAll ==
    ASSUME NEW q, IsQueue(q)
    PROVE  /\ IsQueue(EndAll(q)) /\ Len(EndAll(q)) = Len(q)
           /\ OpenCalls(EndAll(q)) = {}
           /\ \A i \in 1..Len(q) : EndAll(q)[i].kind = q[i].kind
<1> DEFINE e == EndAll(q)
           l == Len(q)
<1>1. DOMAIN q = 1..l /\ \A i \in 1..l : IsCall(q[i])
  BY QueueList
<1>2. /\ DOMAIN e = DOMAIN q /\ e = [i \in 1..l |-> e[i]]
      /\ \A i \in 1..l : e[i] = Ended(q[i])
  BY <1>1 DEF EndAll
<1> HIDE DEF e, l
<1>3. /\ IsQueue(e) /\ Len(e) = l
      /\ OpenCalls(e) = {q[i] : i \in {i \in 1..l : q[i].live /\ e[i].live}}
      /\ \A i \in 1..l : e[i].kind = q[i].kind
  <2>1. /\ DOMAIN e = DOMAIN q /\ e = [i \in 1..Len(q) |-> e[i]]
        /\ \A i \in 1..Len(q) : e[i] = q[i] \/ e[i] = Ended(q[i])
    BY <1>2, Zenon DEF l
  <2> QED BY <2>1, QueueEnds, Zenon DEF l
<1>4. \A i \in 1..l : e[i].live = FALSE
  BY <1>1, <1>2, EndedCall
<1> QED BY <1>3, <1>4 DEF e, l

\* ... or is dropped.
LEMMA QueueDrop ==
    ASSUME NEW q, IsQueue(q), NEW c
    PROVE  LET r == Sublist(q, Range(q) \ {c}) IN
           /\ IsQueue(r)
           /\ OpenCalls(r) = OpenCalls(q) \ {c}
           /\ \A k : (\A i \in 1..Len(q) : q[i].kind = k) => \A i \in 1..Len(r) : r[i].kind = k
           /\ \A i \in 1..Len(r) : \E j \in 1..Len(q) : r[i] = q[j]
<1> DEFINE S == Range(q) \ {c}
           r == Sublist(q, S)
           l == Len(q)
           m == Len(r)
<1>1. l \in Nat /\ DOMAIN q = 1..l /\ \A i \in 1..l : IsCall(q[i])
  BY QueueList
<1>2. /\ r \in Seq(Range(q))
      /\ Range(r) = Range(q) \cap S
      /\ \E f \in [1..m -> 1..l] :
             /\ \A i, j \in 1..m : i < j => f[i] < f[j]
             /\ \A i \in 1..m : r[i] = q[f[i]]
  <2>1. q \in Seq(Range(q))
    BY DEF IsQueue
  <2> HIDE DEF S
  <2> QED BY <2>1, SublistIs
<1>3. m \in Nat /\ DOMAIN r = 1..m /\ r = [i \in 1..m |-> r[i]]
  BY <1>2, LenProperties
<1> HIDE DEF r, l, m
<1>4. PICK f \in [1..m -> 1..l] :
          /\ \A i, j \in 1..m : i < j => f[i] < f[j]
          /\ \A i \in 1..m : r[i] = q[f[i]]
  BY <1>2
<1>5. r \in Seq(Range(r))
  <2>1. r \in [1..m -> Range(r)]
    BY <1>3 DEF Range
  <2> QED BY <1>3, <2>1, SeqDef
<1>6. \A i \in 1..m : IsCall(r[i])
  BY <1>1, <1>4
<1>7. OncePerTask(r)
  <2>1. \A i, j \in 1..l : q[i].live /\ q[j].live /\ q[i].task = q[j].task => i = j
    BY DEF IsQueue, OncePerTask, l
  <2>2. ASSUME NEW i \in 1..m, NEW j \in 1..m, r[i].live, r[j].live, r[i].task = r[j].task
        PROVE  i = j
    <3>1. f[i] = f[j] /\ f[i] \in Nat
      BY <1>1, <1>4, <2>1, <2>2
    <3>2. ~(i < j) /\ ~(j < i)
      BY <1>4, <3>1
    <3> QED BY <1>3, <3>2
  <2> QED BY <2>2 DEF OncePerTask, m
<1>8. OpenCalls(r) = OpenCalls(q) \ {c}
  <2>1. OpenCalls(q) = {x \in Range(q) : x.live}
    BY <1>1 DEF OpenCalls, Range, l
  <2>2. OpenCalls(r) = {x \in Range(r) : x.live}
    BY <1>3 DEF OpenCalls, Range, m
  <2> QED BY <1>2, <2>1, <2>2
<1>9. \A i \in 1..m : \E j \in 1..l : r[i] = q[j]
  BY <1>4
<1> QED BY <1>5, <1>6, <1>7, <1>8, <1>9 DEF IsQueue, r, l, m

LEMMA PlaceIs ==
    /\ Places = {"running", "cq", "exchange", "map", "reduce"}
    /\ \A w : /\ OpenAt(w, "running") = {c \in {running[w]} : c.live}
              /\ OpenAt(w, "cq") = OpenCalls(cq[w])
              /\ \A k \in Kinds : OpenAt(w, k) = OpenCalls(pending[w][k])
BY DEF Places, Kinds, OpenAt

LEMMA PlaceWillBe ==
    \A w : /\ OpenAt(w, "running")' = {c \in {running'[w]} : c.live}
           /\ OpenAt(w, "cq")' = OpenCalls(cq'[w])
           /\ \A k \in Kinds : OpenAt(w, k)' = OpenCalls(pending'[w][k])
BY DEF Kinds, OpenAt, OpenCalls

\* A place that no action touches.
LEMMA PlaceSame ==
    ASSUME NEW w, NEW p \in Places,
           p = "running" => running'[w] = running[w],
           p = "cq" => cq'[w] = cq[w],
           p \in Kinds => pending'[w][p] = pending[w][p]
    PROVE  OpenAt(w, p)' = OpenAt(w, p)
<1>1. CASE p = "running"
  <2>1. OpenAt(w, p)' = {c \in {running'[w]} : c.live} /\ OpenAt(w, p) = {c \in {running[w]} : c.live}
    BY <1>1 DEF OpenAt
  <2> QED BY <1>1, <2>1
<1>2. CASE p = "cq"
  <2>1. OpenAt(w, p)' = OpenCalls(cq'[w]) /\ OpenAt(w, p) = OpenCalls(cq[w])
    BY <1>2 DEF OpenAt
  <2> QED BY <1>2, <2>1
<1>3. CASE p \in Kinds
  <2>1. OpenAt(w, p)' = OpenCalls(pending'[w][p])
    BY <1>3, PlaceWillBe
  <2>2. OpenAt(w, p) = OpenCalls(pending[w][p])
    BY <1>3, PlaceIs
  <2> QED BY <1>3, <2>1, <2>2
<1> QED BY <1>1, <1>2, <1>3 DEF Places

LEMMA LiveCallsAre ==
    ASSUME NEW w, QueueType, w \in Workers
    PROVE  LiveCallsAt(w) = UNION {OpenAt(w, p) : p \in Places}
<1>1. ASSUME NEW q, IsQueue(q) PROVE {c \in Range(q) : c.live} = OpenCalls(q)
  BY <1>1, QueueList DEF Range, OpenCalls
<1>2. {c \in Range(cq[w]) : c.live} = OpenCalls(cq[w])
  BY <1>1 DEF QueueType
<1>3. \A k \in Kinds : {c \in Range(pending[w][k]) : c.live} = OpenCalls(pending[w][k])
  BY <1>1 DEF QueueType
<1>4. LiveCallsAt(w) = {c \in {running[w]} : c.live} \cup {c \in Range(cq[w]) : c.live}
                           \cup UNION {{c \in Range(pending[w][k]) : c.live} : k \in Kinds}
  BY DEF LiveCallsAt
<1>5. ASSUME NEW c
      PROVE  c \in LiveCallsAt(w) <=> \E p \in Places : c \in OpenAt(w, p)
  <2>1. c \in LiveCallsAt(w) <=>
            \/ c \in {d \in {running[w]} : d.live}
            \/ c \in OpenCalls(cq[w])
            \/ \E k \in Kinds : c \in OpenCalls(pending[w][k])
    BY <1>2, <1>3, <1>4
  <2> QED BY <2>1, PlaceIs DEF Kinds
<1> QED BY <1>5

\* Calls that do not change, and are for the tasks they were for.
LEMMA CallsSame ==
    ASSUME CallInv, QueueType',
           \A w \in Workers, p \in Places : OpenAt(w, p)' = OpenAt(w, p),
           phase' = phase, job' = job, TasksOf(phase)' = TasksOf(phase),
           todo' \cup results' = todo \cup results,
           todo' \subseteq todo, todo' \cap results' = {},
           phase \in {"idle", "update"} => results' = {}
    PROVE  CallInv'
<1>1. CallsCurrent'
  BY DEF CallInv, CallsCurrent
<1>2. CallsOnce'
  BY DEF CallInv, CallsOnce
<1>3. CallsOpen'
  BY DEF CallInv, CallsOpen
<1>4. TasksSplit'
  BY DEF CallInv, TasksSplit
<1> QED BY <1>1, <1>2, <1>3, <1>4 DEF CallInv

\* Calls at a worker that are over for the master, and what becomes of their tasks.
LEMMA CallsOver ==
    ASSUME CallInv, QueueType', NEW w \in Workers, NEW D,
           D \subseteq UNION {OpenAt(w, p) : p \in Places},
           \A p \in Places : OpenAt(w, p)' = OpenAt(w, p) \ D,
           \A v \in Workers \ {w}, p \in Places : OpenAt(v, p)' = OpenAt(v, p),
           phase' = phase, job' = job, TasksOf(phase)' = TasksOf(phase),
           \/ todo' = todo /\ results' = results \cup {c.task : c \in D}
           \/ todo' = todo \cup {c.task : c \in D} /\ results' = results
    PROVE  CallInv'
<1> DEFINE over == {c.task : c \in D}
<1>1. ASSUME NEW c \in D PROVE \E p \in Places : c \in OpenAt(w, p)
  OBVIOUS
<1>2. over \subseteq TasksOf(phase) \ (todo \cup results)
  BY <1>1 DEF CallInv, CallsCurrent
<1>3. todo' \cup results' = (todo \cup results) \cup over
  OBVIOUS
<1>4. ASSUME NEW v \in Workers, NEW p \in Places, NEW c \in OpenAt(v, p)'
      PROVE  c \in OpenAt(v, p) /\ c.task \notin over
  <2>1. c \in OpenAt(v, p) /\ (v = w => c \notin D)
    BY <1>4
  <2>2. ASSUME NEW d \in D, c.task = d.task PROVE v = w /\ c = d
    BY <1>1, <2>1, <2>2 DEF CallInv, CallsOnce
  <2> QED BY <2>1, <2>2
<1> HIDE DEF over
<1>5. CallsCurrent'
  <2>1. ASSUME NEW v \in Workers, NEW p \in Places, NEW c \in OpenAt(v, p)'
        PROVE  /\ c.kind = phase /\ c.job = job
               /\ c.task \in TasksOf(phase) \ (todo' \cup results')
    <3>1. c \in OpenAt(v, p) /\ c.task \notin over
      BY <1>4
    <3>2. /\ c.kind = phase /\ c.job = job
          /\ c.task \in TasksOf(phase) \ (todo \cup results)
      BY <3>1 DEF CallInv, CallsCurrent
    <3> QED BY <1>3, <3>1, <3>2
  <2> QED BY <2>1 DEF CallsCurrent
<1>6. CallsOnce'
  BY <1>4 DEF CallInv, CallsOnce
<1>7. CallsOpen'
  <2>1. ASSUME NEW t \in TasksOf(phase) \ (todo' \cup results')
        PROVE  \E v \in Workers, p \in Places : \E c \in OpenAt(v, p)' : c.task = t
    <3>1. t \in TasksOf(phase) \ (todo \cup results) /\ t \notin over
      BY <1>3
    <3>2. PICK v \in Workers, p \in Places : \E c \in OpenAt(v, p) : c.task = t
      BY <3>1 DEF CallInv, CallsOpen
    <3>3. PICK c \in OpenAt(v, p) : c.task = t
      BY <3>2
    <3>4. c \notin D
      BY <3>1, <3>3 DEF over
    <3>5. c \in OpenAt(v, p)'
      BY <3>4
    <3> QED BY <3>3, <3>5
  <2> QED BY <2>1 DEF CallsOpen
<1>8. TasksSplit'
  <2>1. todo' \subseteq TasksOf(phase) /\ todo' \cap results' = {}
    BY <1>2 DEF CallInv, TasksSplit, over
  <2>2. phase \in {"idle", "update"} => results' = {}
    <3>1. phase \in {"idle", "update"} => TasksOf(phase) = {} /\ results = {}
      BY DEF CallInv, TasksSplit, TasksOf
    <3> QED BY <1>2, <3>1 DEF over
  <2> QED BY <2>1, <2>2 DEF TasksSplit
<1> QED BY <1>5, <1>6, <1>7, <1>8 DEF CallInv

\* A phase with no task sent yet, and no call open.
LEMMA CallsNone ==
    ASSUME QueueType',
           \A w \in Workers, p \in Places : OpenAt(w, p)' = {},
           TasksSplit', TasksOf(phase)' \subseteq todo' \cup results'
    PROVE  CallInv'
BY DEF CallInv, CallsCurrent, CallsOnce, CallsOpen

\* What a worker's queues are.
LEMMA QueuesOf ==
    ASSUME QueueType, NEW w \in Workers
    PROVE  /\ running[w] = NoCall \/ IsCall(running[w])
           /\ IsQueue(cq[w])
           /\ DOMAIN pending[w] = Kinds
           /\ \A k \in Kinds : /\ IsQueue(pending[w][k])
                               /\ \A i \in 1..Len(pending[w][k]) : pending[w][k][i].kind = k
BY DEF QueueType

\* To show that the queues keep their type, look at the worker whose queues change.
LEMMA QueuesKeep ==
    ASSUME QueueType, NEW w \in Workers,
           DOMAIN running' = Workers, DOMAIN cq' = Workers, DOMAIN pending' = Workers,
           \A v \in Workers \ {w} : /\ running'[v] = running[v] /\ cq'[v] = cq[v]
                                    /\ pending'[v] = pending[v],
           running'[w] = NoCall \/ IsCall(running'[w]),
           IsQueue(cq'[w]), DOMAIN pending'[w] = Kinds,
           \A k \in Kinds : /\ IsQueue(pending'[w][k])
                            /\ \A i \in 1..Len(pending'[w][k]) : pending'[w][k][i].kind = k
    PROVE  /\ QueueType'
           /\ \A v \in Workers \ {w}, p \in Places : OpenAt(v, p)' = OpenAt(v, p)
<1>1. ASSUME NEW v \in Workers
      PROVE  /\ running'[v] = NoCall \/ IsCall(running'[v])
             /\ IsQueue(cq'[v])
             /\ DOMAIN pending'[v] = Kinds
             /\ \A k \in Kinds : /\ IsQueue(pending'[v][k])
                                 /\ \A i \in 1..Len(pending'[v][k]) : pending'[v][k][i].kind = k
  <2>1. CASE v = w
    BY <2>1
  <2>2. CASE v # w
    <3>1. running'[v] = running[v] /\ cq'[v] = cq[v] /\ pending'[v] = pending[v]
      BY <2>2
    <3> QED BY <3>1, QueuesOf
  <2> QED BY <2>1, <2>2
<1>2. QueueType'
  BY <1>1 DEF QueueType, IsQueue, IsCall, OncePerTask
<1>3. ASSUME NEW v \in Workers \ {w}, NEW p \in Places PROVE OpenAt(v, p)' = OpenAt(v, p)
  BY PlaceSame
<1> QED BY <1>2, <1>3

\* A call reaches a worker.
LEMMA ArriveOpens ==
    ASSUME QueueType, NEW w \in Workers, NEW c, IsCall(c), Arrive(w, c),
           c.live => \A p \in Places : \A d \in OpenAt(w, p) : d.task # c.task
    PROVE  /\ QueueType'
           /\ \A v \in Workers \ {w}, p \in Places : OpenAt(v, p)' = OpenAt(v, p)
           /\ \E x \in Places :
                  /\ OpenAt(w, x)' = OpenAt(w, x) \cup {d \in {c} : d.live}
                  /\ \A p \in Places \ {x} : OpenAt(w, p)' = OpenAt(w, p)
<1>k. PICK k : k = c.kind
  OBVIOUS
<1>0. k \in Kinds /\ running' = running
  BY <1>k DEF Arrive, IsCall
<1>1. DOMAIN running = Workers /\ DOMAIN cq = Workers /\ DOMAIN pending = Workers
  BY DEF QueueType
<1>2. CASE c.kind \in armed[w]
  <2>1. cq' = [cq EXCEPT ![w] = Append(@, c)] /\ pending' = pending
    BY <1>2 DEF Arrive
  <2>2. cq'[w] = Append(cq[w], c) /\ DOMAIN cq' = Workers /\ \A v \in Workers \ {w} : cq'[v] = cq[v]
    BY <1>1, <2>1
  <2>3. IsQueue(Append(cq[w], c)) /\ OpenCalls(Append(cq[w], c)) = OpenCalls(cq[w]) \cup {d \in {c} : d.live}
    <3>1. c.live => \A d \in OpenCalls(cq[w]) : d.task # c.task
      BY PlaceIs
    <3> QED BY <3>1, QueuesOf, QueueAppend
  <2>4. QueueType' /\ \A v \in Workers \ {w}, p \in Places : OpenAt(v, p)' = OpenAt(v, p)
    <3>1. DOMAIN pending' = Workers /\ DOMAIN pending'[w] = Kinds
      BY <1>1, <2>1, QueuesOf
    <3>2. \A j \in Kinds : /\ IsQueue(pending'[w][j])
                           /\ \A i \in 1..Len(pending'[w][j]) : pending'[w][j][i].kind = j
      BY <2>1, QueuesOf
    <3>3. running'[w] = NoCall \/ IsCall(running'[w])
      BY <1>0, QueuesOf
    <3> QED BY <1>0, <1>1, <2>1, <2>2, <2>3, <3>1, <3>2, <3>3, QueuesKeep
  <2>5. OpenAt(w, "cq")' = OpenAt(w, "cq") \cup {d \in {c} : d.live}
    BY <2>2, <2>3, PlaceIs, PlaceWillBe
  <2>6. ASSUME NEW p \in Places \ {"cq"} PROVE OpenAt(w, p)' = OpenAt(w, p)
    BY <1>0, <2>1, PlaceSame
  <2> QED BY <2>4, <2>5, <2>6, PlaceIs
<1>3. CASE c.kind \notin armed[w]
  <2>1. pending' = [pending EXCEPT ![w][k] = Append(@, c)] /\ cq' = cq
    BY <1>k, <1>3 DEF Arrive
  <2>2. /\ DOMAIN pending' = Workers /\ \A v \in Workers \ {w} : pending'[v] = pending[v]
        /\ DOMAIN pending'[w] = Kinds
        /\ pending'[w][k] = Append(pending[w][k], c)
        /\ \A j \in Kinds \ {k} : pending'[w][j] = pending[w][j]
    BY <1>0, <1>1, <2>1, QueuesOf
  <2>3. /\ IsQueue(Append(pending[w][k], c))
        /\ OpenCalls(Append(pending[w][k], c)) = OpenCalls(pending[w][k]) \cup {d \in {c} : d.live}
        /\ \A i \in 1..Len(Append(pending[w][k], c)) : Append(pending[w][k], c)[i].kind = k
    <3>1. c.live => \A d \in OpenCalls(pending[w][k]) : d.task # c.task
      BY <1>0, PlaceIs DEF Places
    <3>2. IsQueue(pending[w][k]) /\ \A i \in 1..Len(pending[w][k]) : pending[w][k][i].kind = k
      BY <1>0, QueuesOf
    <3>3. /\ IsQueue(Append(pending[w][k], c))
          /\ OpenCalls(Append(pending[w][k], c)) = OpenCalls(pending[w][k]) \cup {d \in {c} : d.live}
          /\ Len(Append(pending[w][k], c)) = Len(pending[w][k]) + 1
          /\ \A i \in 1..Len(pending[w][k]) : Append(pending[w][k], c)[i] = pending[w][k][i]
          /\ Append(pending[w][k], c)[Len(pending[w][k]) + 1] = c
      BY <3>1, <3>2, QueueAppend
    <3>4. Len(pending[w][k]) \in Nat
      BY <3>2, QueueList
    <3>5. \A i \in 1..Len(pending[w][k]) + 1 : i # Len(pending[w][k]) + 1 => i \in 1..Len(pending[w][k])
      BY <3>4
    <3> QED BY <1>k, <3>2, <3>3, <3>5
  <2>4. QueueType' /\ \A v \in Workers \ {w}, p \in Places : OpenAt(v, p)' = OpenAt(v, p)
    <3>1. \A j \in Kinds : /\ IsQueue(pending'[w][j])
                           /\ \A i \in 1..Len(pending'[w][j]) : pending'[w][j][i].kind = j
      <4>1. ASSUME NEW j \in Kinds
            PROVE  /\ IsQueue(pending'[w][j])
                   /\ \A i \in 1..Len(pending'[w][j]) : pending'[w][j][i].kind = j
        <5>1. CASE j = k
          BY <2>2, <2>3, <5>1
        <5>2. CASE j # k
          BY <2>2, <5>2, QueuesOf
        <5> QED BY <5>1, <5>2
      <4> QED BY <4>1
    <3>2. running'[w] = NoCall \/ IsCall(running'[w])
      BY <1>0, QueuesOf
    <3>3. IsQueue(cq'[w])
      BY <2>1, QueuesOf
    <3> QED BY <1>0, <1>1, <2>1, <2>2, <3>1, <3>2, <3>3, QueuesKeep
  <2>5. OpenAt(w, k)' = OpenAt(w, k) \cup {d \in {c} : d.live}
    <3>1. OpenAt(w, k)' = OpenCalls(pending'[w][k])
      BY <1>0, PlaceWillBe
    <3>2. OpenAt(w, k) = OpenCalls(pending[w][k])
      BY <1>0, PlaceIs
    <3> QED BY <2>2, <2>3, <3>1, <3>2
  <2>6. ASSUME NEW p \in Places \ {k} PROVE OpenAt(w, p)' = OpenAt(w, p)
    BY <1>0, <2>1, <2>2, PlaceSame
  <2> QED BY <1>0, <2>4, <2>5, <2>6 DEF Places
<1> QED BY <1>2, <1>3

\* A worker stops, and its calls are gone.
LEMMA StopCloses ==
    ASSUME QueueType, NEW w \in Workers, Stop(w)
    PROVE  /\ QueueType'
           /\ \A v \in Workers \ {w}, p \in Places : OpenAt(v, p)' = OpenAt(v, p)
           /\ \A p \in Places : OpenAt(w, p)' = {}
<1>1. DOMAIN running = Workers /\ DOMAIN cq = Workers /\ DOMAIN pending = Workers
  BY DEF QueueType
<1>2. /\ running'[w] = NoCall /\ cq'[w] = <<>> /\ DOMAIN pending'[w] = Kinds
      /\ \A k \in Kinds : pending'[w][k] = <<>>
      /\ DOMAIN running' = Workers /\ DOMAIN cq' = Workers /\ DOMAIN pending' = Workers
      /\ \A v \in Workers \ {w} : /\ running'[v] = running[v] /\ cq'[v] = cq[v]
                                  /\ pending'[v] = pending[v]
  BY <1>1 DEF Stop
<1>3. \A k \in Kinds : /\ IsQueue(pending'[w][k])
                       /\ \A i \in 1..Len(pending'[w][k]) : pending'[w][k][i].kind = k
  BY <1>2, EmptyQueue
<1>4. IsQueue(cq'[w])
  BY <1>2, EmptyQueue
<1>5. QueueType' /\ \A v \in Workers \ {w}, p \in Places : OpenAt(v, p)' = OpenAt(v, p)
  BY <1>2, <1>3, <1>4, QueuesKeep
<1>6. \A p \in Places : OpenAt(w, p)' = {}
  BY <1>2, EmptyQueue, PlaceIs, PlaceWillBe DEF Kinds, NoCall
<1> QED BY <1>5, <1>6

\* The thread takes the first call, and the queue gets the next one of its kind.
LEMMA TakeMoves ==
    ASSUME QueueType, CallsOnce, NEW w \in Workers, Take(w)
    PROVE  /\ QueueType'
           /\ \A v \in Workers \ {w}, p \in Places : OpenAt(v, p)' = OpenAt(v, p)
           /\ \E k, h, m :
                  /\ k \in Kinds
                  /\ OpenAt(w, "running")' = {c \in {h} : c.live}
                  /\ OpenAt(w, "running") = {}
                  /\ h.live => h \in OpenAt(w, "cq")
                  /\ m.live => m \in OpenAt(w, k)
                  /\ OpenAt(w, "cq")' = (OpenAt(w, "cq") \ {h}) \cup {c \in {m} : c.live}
                  /\ OpenAt(w, k)' = OpenAt(w, k) \ {m}
                  /\ \A p \in Kinds \ {k} : OpenAt(w, p)' = OpenAt(w, p)
<1>def. PICK q, h, k, r : q = cq[w] /\ h = Head(q) /\ k = h.kind /\ r = pending[w][k]
  OBVIOUS
<1>1. DOMAIN running = Workers /\ DOMAIN cq = Workers /\ DOMAIN pending = Workers
  BY DEF QueueType
<1>2. /\ running[w] = NoCall /\ q # <<>> /\ running' = [running EXCEPT ![w] = h]
      /\ IF r = <<>>
         THEN cq' = [cq EXCEPT ![w] = Tail(@)] /\ UNCHANGED pending
         ELSE /\ cq' = [cq EXCEPT ![w] = Append(Tail(@), Head(r))]
              /\ pending' = [pending EXCEPT ![w][k] = Tail(@)]
  BY <1>def DEF Take, AddNextToCompletionQueue
<1>3. /\ IsQueue(q) /\ DOMAIN pending[w] = Kinds
      /\ \A j \in Kinds : /\ IsQueue(pending[w][j])
                          /\ \A i \in 1..Len(pending[w][j]) : pending[w][j][i].kind = j
  BY <1>def, QueuesOf
<1>4. /\ IsCall(h) /\ IsQueue(Tail(q))
      /\ OpenCalls(Tail(q)) = OpenCalls(q) \ {h}
      /\ h.live => h \in OpenCalls(q)
      /\ \A d \in OpenCalls(Tail(q)) : h.live => d.task # h.task
  BY <1>def, <1>2, <1>3, QueueTail
<1>5. k \in Kinds /\ IsQueue(r)
  BY <1>def, <1>3, <1>4 DEF IsCall
<1>6. /\ running'[w] = h /\ DOMAIN running' = Workers
      /\ \A v \in Workers \ {w} : running'[v] = running[v]
  BY <1>1, <1>2
<1>7. OpenAt(w, "running")' = {c \in {h} : c.live} /\ OpenAt(w, "running") = {}
  BY <1>2, <1>6, PlaceIs, PlaceWillBe DEF NoCall
<1>8. CASE r = <<>>
  <2>1. cq' = [cq EXCEPT ![w] = Tail(@)] /\ pending' = pending
    BY <1>2, <1>8
  <2>2. /\ cq'[w] = Tail(q) /\ DOMAIN cq' = Workers
        /\ \A v \in Workers \ {w} : cq'[v] = cq[v]
    BY <1>1, <1>def, <2>1
  <2>3. QueueType' /\ \A v \in Workers \ {w}, p \in Places : OpenAt(v, p)' = OpenAt(v, p)
    <3>1. /\ IsQueue(cq'[w]) /\ IsCall(running'[w])
          /\ DOMAIN pending' = Workers /\ DOMAIN pending'[w] = Kinds
          /\ \A j \in Kinds : /\ IsQueue(pending'[w][j])
                              /\ \A i \in 1..Len(pending'[w][j]) : pending'[w][j][i].kind = j
      BY <1>1, <1>3, <1>4, <1>6, <2>1, <2>2, Zenon
    <3>2. \A v \in Workers \ {w} : /\ running'[v] = running[v] /\ cq'[v] = cq[v]
                                   /\ pending'[v] = pending[v]
      BY <1>6, <2>1, <2>2
    <3> QED BY <1>6, <2>2, <3>1, <3>2, QueuesKeep
  <2>4. /\ OpenAt(w, "cq")' = OpenAt(w, "cq") \ {h}
        /\ h.live => h \in OpenAt(w, "cq")
    BY <1>4, <2>2, PlaceIs, PlaceWillBe, <1>def
  <2>5. ASSUME NEW p \in Kinds PROVE OpenAt(w, p)' = OpenAt(w, p)
    BY <2>1, PlaceSame DEF Places, Kinds
  <2>6. OpenAt(w, k) = {}
    BY <1>5, <1>8, PlaceIs, EmptyQueue, <1>def
  <2>7. NoCall.live = FALSE
    BY DEF NoCall
  <2>8. {c \in {NoCall} : c.live} = {}
    BY <2>7
  <2>9. PICK m : m = NoCall
    OBVIOUS
  <2>10. /\ k \in Kinds
         /\ OpenAt(w, "running")' = {c \in {h} : c.live}
         /\ OpenAt(w, "running") = {}
         /\ h.live => h \in OpenAt(w, "cq")
         /\ m.live => m \in OpenAt(w, k)
         /\ OpenAt(w, "cq")' = (OpenAt(w, "cq") \ {h}) \cup {c \in {m} : c.live}
         /\ OpenAt(w, k)' = OpenAt(w, k) \ {m}
         /\ \A p \in Kinds \ {k} : OpenAt(w, p)' = OpenAt(w, p)
    BY <1>5, <1>7, <2>4, <2>5, <2>6, <2>7, <2>8, <2>9
  <2> QED BY <2>3, <2>10, Zenon
<1>9. CASE r # <<>>
  <2>def. PICK m : m = Head(r)
    OBVIOUS
  <2>1. cq' = [cq EXCEPT ![w] = Append(Tail(@), m)] /\ pending' = [pending EXCEPT ![w][k] = Tail(@)]
    BY <1>2, <1>9, <2>def
  <2>2. /\ cq'[w] = Append(Tail(q), m) /\ DOMAIN cq' = Workers
        /\ \A v \in Workers \ {w} : cq'[v] = cq[v]
        /\ DOMAIN pending' = Workers /\ \A v \in Workers \ {w} : pending'[v] = pending[v]
        /\ DOMAIN pending'[w] = Kinds /\ pending'[w][k] = Tail(r)
        /\ \A j \in Kinds \ {k} : pending'[w][j] = pending[w][j]
    BY <1>1, <1>3, <1>5, <1>def, <2>1
  <2>3. /\ IsCall(m) /\ IsQueue(Tail(r))
        /\ OpenCalls(Tail(r)) = OpenCalls(r) \ {m}
        /\ m.live => m \in OpenCalls(r)
        /\ Len(Tail(r)) = Len(r) - 1
        /\ \A i \in 1..Len(Tail(r)) : Tail(r)[i] = r[i + 1]
    BY <1>5, <1>9, <2>def, QueueTail
  <2>4. \A i \in 1..Len(Tail(r)) : Tail(r)[i].kind = k
    <3>1. Len(r) \in Nat /\ \A i \in 1..Len(r) : r[i].kind = k
      BY <1>3, <1>5, <1>def, QueueList
    <3>2. \A i \in 1..Len(Tail(r)) : i + 1 \in 1..Len(r)
      BY <2>3, <3>1
    <3> QED BY <2>3, <3>1, <3>2
  <2>at. /\ OpenAt(w, k) = OpenCalls(r) /\ OpenAt(w, "cq") = OpenCalls(q)
         /\ OpenAt(w, k)' = OpenCalls(Tail(r)) /\ OpenAt(w, "cq")' = OpenCalls(Append(Tail(q), m))
    <3>1. OpenAt(w, k) = OpenCalls(pending[w][k]) /\ OpenAt(w, "cq") = OpenCalls(cq[w])
      BY <1>5, PlaceIs, Zenon
    <3>2. OpenAt(w, k)' = OpenCalls(pending'[w][k]) /\ OpenAt(w, "cq")' = OpenCalls(cq'[w])
      BY <1>5, PlaceWillBe, Zenon
    <3>3. pending'[w][k] = Tail(r) /\ cq'[w] = Append(Tail(q), m)
      BY <2>2, Zenon
    <3> QED BY <1>def, <3>1, <3>2, <3>3, Zenon
  <2>5. /\ m.live => m \in OpenAt(w, k)
        /\ h.live => h \in OpenAt(w, "cq")
    BY <1>4, <2>3, <2>at, Zenon
  <2>6. IsQueue(Append(Tail(q), m))
        /\ OpenCalls(Append(Tail(q), m)) = OpenCalls(Tail(q)) \cup {c \in {m} : c.live}
    <3>1. ASSUME m.live, NEW d \in OpenCalls(Tail(q)) PROVE d.task # m.task
      <4>1. d \in OpenAt(w, "cq") /\ m \in OpenAt(w, k) /\ k # "cq" /\ k \in Places /\ "cq" \in Places
        BY <1>4, <1>5, <2>5, <3>1, PlaceIs, <1>def DEF Kinds
      <4> QED BY <4>1 DEF CallsOnce
    <3> QED BY <1>4, <2>3, <3>1, QueueAppend
  <2>7. QueueType' /\ \A v \in Workers \ {w}, p \in Places : OpenAt(v, p)' = OpenAt(v, p)
    <3>1. IsQueue(cq'[w]) /\ IsCall(running'[w])
      BY <1>4, <1>6, <2>2, <2>6
    <3>2. ASSUME NEW j \in Kinds
          PROVE  /\ IsQueue(pending'[w][j])
                 /\ \A i \in 1..Len(pending'[w][j]) : pending'[w][j][i].kind = j
      <4>1. CASE j = k
        BY <2>2, <2>3, <2>4, <4>1
      <4>2. CASE j # k
        BY <1>3, <2>2, <4>2
      <4> QED BY <4>1, <4>2
    <3> QED BY <1>6, <2>2, <3>1, <3>2, QueuesKeep
  <2>8. OpenAt(w, "cq")' = (OpenAt(w, "cq") \ {h}) \cup {c \in {m} : c.live}
    BY <1>4, <2>6, <2>at, Zenon
  <2>9. OpenAt(w, k)' = OpenAt(w, k) \ {m}
    BY <2>3, <2>at, Zenon
  <2>10. ASSUME NEW p \in Kinds \ {k} PROVE OpenAt(w, p)' = OpenAt(w, p)
    BY <2>2, PlaceSame DEF Places, Kinds
  <2> QED BY <1>5, <1>7, <2>5, <2>7, <2>8, <2>9, <2>10
<1> QED BY <1>8, <1>9
\* The tasks of the phases.
LEMMA TasksAre ==
    /\ TasksOf("idle") = {} /\ TasksOf("update") = {}
    /\ TasksOf("exchange") = ClientIds /\ TasksOf("map") = Shards /\ TasksOf("reduce") = Reducers
    /\ \A p : TasksOf(p) # {} => p \in Kinds
BY DEF TasksOf, Kinds

LEMMA TasksStay ==
    ASSUME m_Clients' = m_Clients
    PROVE  /\ \A p : TasksOf(p)' = TasksOf(p)
           /\ phase' = phase => TasksOf(phase)' = TasksOf(phase)
<1>1. ClientIds' = ClientIds
  BY DEF ClientIds
<1> QED BY <1>1 DEF TasksOf, Shards, Reducers

\* No queue changes.
LEMMA QueuesStay ==
    ASSUME QueueType, running' = running, cq' = cq, pending' = pending
    PROVE  QueueType' /\ \A w \in Workers, p \in Places : OpenAt(w, p)' = OpenAt(w, p)
<1>1. QueueType'
  BY DEF QueueType
<1>2. ASSUME NEW w \in Workers, NEW p \in Places PROVE OpenAt(w, p)' = OpenAt(w, p)
  BY PlaceSame
<1> QED BY <1>1, <1>2

LEMMA CallInit == ClusterInit => CallInv
<1> SUFFICES ASSUME ClusterInit PROVE CallInv
  OBVIOUS
<1>1. /\ DOMAIN running = Workers /\ DOMAIN cq = Workers /\ DOMAIN pending = Workers
      /\ \A w \in Workers : /\ running[w] = NoCall /\ cq[w] = <<>>
                            /\ DOMAIN pending[w] = Kinds
                            /\ \A k \in Kinds : pending[w][k] = <<>>
  BY DEF ClusterInit, Init
<1>2. QueueType
  BY <1>1, EmptyQueue DEF QueueType
<1>3. ASSUME NEW w \in Workers PROVE \A p \in Places : OpenAt(w, p) = {}
  BY <1>1, EmptyQueue, PlaceIs DEF Kinds, NoCall
<1>4. TasksOf(phase) = {} /\ todo = {} /\ results = {}
  BY TasksAre DEF ClusterInit
<1>5. TasksSplit
  BY <1>4 DEF TasksSplit
<1> QED BY <1>2, <1>3, <1>4, <1>5 DEF CallInv, CallsCurrent, CallsOnce, CallsOpen

\* The master sends a task.
LEMMA SendKeeps ==
    ASSUME RegInv, JobInv, CallInv, NEW c \in Range(m_Clients), NEW t \in todo, Send(c, t)
    PROVE  CallInv'
<1>w. PICK w : w = c.addr
  OBVIOUS
<1>d. PICK d : d = CallFor(job, phase, t, intblobs)
  OBVIOUS
<1>1. w \in Workers
  <2>1. PICK i \in DOMAIN m_Clients : c = m_Clients[i]
    BY DEF Range
  <2>2. m_Clients \in Seq(Client)
    BY DEF RegInv, RegType
  <2>3. c \in Client
    BY <2>1, <2>2, LenProperties, ElementOfSeq
  <2> QED BY <1>w, <2>3 DEF Client, Addresses, Send, Reachable
<1>2. /\ Arrive(w, d) /\ todo' = todo \ {t} /\ results' = results /\ phase' = phase /\ job' = job
      /\ m_Clients' = m_Clients
  BY <1>w, <1>d DEF Send, Arrive, registryVars, updateVars
<1>3. t \in TasksOf(phase) /\ t \notin results
  BY DEF CallInv, TasksSplit
<1>4. phase \in Kinds
  BY <1>3, TasksAre
<1>5. d.kind = phase /\ d.job = job /\ d.task = t /\ d.live = TRUE /\ IsCall(d)
  <2>1. phase # "idle"
    BY <1>4 DEF Kinds
  <2>2. job \in 1..MaxJobs
    BY <2>1, WorkerAssumption DEF JobInv
  <2> QED BY <1>d, <1>4, <2>2 DEF CallFor, IsCall
<1>6. ASSUME NEW v \in Workers, NEW p \in Places, NEW e \in OpenAt(v, p)
      PROVE  /\ e.kind = phase /\ e.job = job /\ e.task # t
             /\ e.task \in TasksOf(phase) \ (todo \cup results)
  BY DEF CallInv, CallsCurrent
<1>7. TasksOf(phase)' = TasksOf(phase)
  BY <1>2, TasksStay
<1>8. /\ QueueType'
      /\ \A v \in Workers \ {w}, p \in Places : OpenAt(v, p)' = OpenAt(v, p)
      /\ \E x \in Places :
             /\ OpenAt(w, x)' = OpenAt(w, x) \cup {e \in {d} : e.live}
             /\ \A p \in Places \ {x} : OpenAt(w, p)' = OpenAt(w, p)
  BY <1>1, <1>2, <1>5, <1>6, ArriveOpens DEF CallInv
<1>9. PICK x \in Places :
             /\ OpenAt(w, x)' = OpenAt(w, x) \cup {d}
             /\ \A p \in Places \ {x} : OpenAt(w, p)' = OpenAt(w, p)
  BY <1>5, <1>8
<1>10. ASSUME NEW v \in Workers, NEW p \in Places, NEW e \in OpenAt(v, p)'
       PROVE  e \in OpenAt(v, p) \/ (v = w /\ p = x /\ e = d)
  BY <1>8, <1>9
<1>11. ASSUME NEW v \in Workers, NEW p \in Places, NEW e \in OpenAt(v, p)
       PROVE  e \in OpenAt(v, p)'
  BY <1>8, <1>9
<1>12. CallsCurrent'
  <2>1. ASSUME NEW v \in Workers, NEW p \in Places, NEW e \in OpenAt(v, p)'
        PROVE  /\ e.kind = phase /\ e.job = job
               /\ e.task \in TasksOf(phase) \ (todo' \cup results)
    BY <1>2, <1>3, <1>5, <1>6, <1>10
  <2> QED BY <1>2, <1>7, <2>1 DEF CallsCurrent
<1>13. CallsOnce'
  <2>1. ASSUME NEW u \in Workers, NEW v \in Workers, NEW p \in Places, NEW q \in Places,
               NEW e \in OpenAt(u, p)', NEW f \in OpenAt(v, q)', e.task = f.task
        PROVE  u = v /\ p = q /\ e = f
    <3>1. CASE e \in OpenAt(u, p) /\ f \in OpenAt(v, q)
      BY <2>1, <3>1 DEF CallInv, CallsOnce
    <3>2. CASE ~(e \in OpenAt(u, p) /\ f \in OpenAt(v, q))
      BY <1>5, <1>6, <1>10, <2>1, <3>2
    <3> QED BY <3>1, <3>2
  <2> QED BY <2>1 DEF CallsOnce
<1>14. CallsOpen'
  <2>1. ASSUME NEW s \in TasksOf(phase) \ (todo' \cup results)
        PROVE  \E v \in Workers, p \in Places : \E e \in OpenAt(v, p)' : e.task = s
    <3>1. CASE s = t
      BY <1>1, <1>5, <1>9, <3>1
    <3>2. CASE s # t
      <4>1. s \in TasksOf(phase) \ (todo \cup results)
        BY <1>2, <2>1, <3>2
      <4>2. PICK v \in Workers, p \in Places : \E e \in OpenAt(v, p) : e.task = s
        BY <4>1 DEF CallInv, CallsOpen
      <4> QED BY <1>11, <4>2
    <3> QED BY <3>1, <3>2
  <2> QED BY <1>2, <1>7, <2>1 DEF CallsOpen
<1>15. TasksSplit'
  BY <1>2, <1>7 DEF CallInv, TasksSplit
<1> QED BY <1>8, <1>12, <1>13, <1>14, <1>15 DEF CallInv

\* A leader that was replaced sends one: nobody waits for it.
LEMMA StrayKeeps ==
    ASSUME JobInv, CallInv, NEW w \in Workers, StraySend(w)
    PROVE  CallInv'
<1>1. /\ todo' = todo /\ results' = results /\ phase' = phase /\ job' = job
      /\ m_Clients' = m_Clients
  BY DEF StraySend, registryVars, updateVars
<1>0. PICK o \in old, p \in {"map", "reduce"} :
          \E t \in TasksOf(p) : Arrive(w, Ended(CallFor(o.job, p, t, o.blobs)))
  BY DEF StraySend
<1>2. PICK t \in TasksOf(p) : Arrive(w, Ended(CallFor(o.job, p, t, o.blobs)))
  BY <1>0
<1>3. PICK e, d : e = CallFor(o.job, p, t, o.blobs) /\ d = Ended(e)
  OBVIOUS
<1>4. Arrive(w, d)
  BY <1>2, <1>3 DEF Arrive
<1>5. IsCall(e)
  <2>1. o.job \in 1..MaxJobs
    BY DEF JobInv
  <2> QED BY <1>3, <2>1 DEF CallFor, IsCall, Kinds
<1>6. IsCall(d) /\ d.live = FALSE
  BY <1>3, <1>5, EndedCall
<1>7. /\ QueueType'
      /\ \A v \in Workers \ {w}, q \in Places : OpenAt(v, q)' = OpenAt(v, q)
      /\ \E x \in Places :
             /\ OpenAt(w, x)' = OpenAt(w, x) \cup {c \in {d} : c.live}
             /\ \A q \in Places \ {x} : OpenAt(w, q)' = OpenAt(w, q)
  BY <1>4, <1>6, ArriveOpens DEF CallInv
<1>8. ASSUME NEW v \in Workers, NEW q \in Places PROVE OpenAt(v, q)' = OpenAt(v, q)
  BY <1>6, <1>7
<1>9. /\ TasksOf(phase)' = TasksOf(phase) /\ todo' \cap results' = {}
      /\ phase \in {"idle", "update"} => results' = {}
  BY <1>1, TasksStay DEF CallInv, TasksSplit
<1> QED BY <1>1, <1>7, <1>8, <1>9, CallsSame

\* The server's thread takes a call.
LEMMA TakeKeeps ==
    ASSUME CallInv, NEW w \in Workers, Take(w),
           todo' = todo, results' = results, phase' = phase, job' = job, m_Clients' = m_Clients
    PROVE  CallInv'
<1>1. /\ QueueType'
      /\ \A v \in Workers \ {w}, p \in Places : OpenAt(v, p)' = OpenAt(v, p)
      /\ \E k, h, m :
             /\ k \in Kinds
             /\ OpenAt(w, "running")' = {c \in {h} : c.live}
             /\ OpenAt(w, "running") = {}
             /\ h.live => h \in OpenAt(w, "cq")
             /\ m.live => m \in OpenAt(w, k)
             /\ OpenAt(w, "cq")' = (OpenAt(w, "cq") \ {h}) \cup {c \in {m} : c.live}
             /\ OpenAt(w, k)' = OpenAt(w, k) \ {m}
             /\ \A p \in Kinds \ {k} : OpenAt(w, p)' = OpenAt(w, p)
  BY TakeMoves DEF CallInv
<1>2. PICK k, h, m :
             /\ k \in Kinds
             /\ OpenAt(w, "running")' = {c \in {h} : c.live}
             /\ OpenAt(w, "running") = {}
             /\ h.live => h \in OpenAt(w, "cq")
             /\ m.live => m \in OpenAt(w, k)
             /\ OpenAt(w, "cq")' = (OpenAt(w, "cq") \ {h}) \cup {c \in {m} : c.live}
             /\ OpenAt(w, k)' = OpenAt(w, k) \ {m}
             /\ \A p \in Kinds \ {k} : OpenAt(w, p)' = OpenAt(w, p)
  BY <1>1
<1>3. /\ Places = {"running", "cq"} \cup Kinds /\ "running" \notin Kinds /\ "cq" \notin Kinds
      /\ k \in Kinds /\ TasksOf(phase)' = TasksOf(phase)
  BY <1>2, TasksStay DEF Places, Kinds
<1>4. ASSUME NEW p \in Places, NEW q \in Places, NEW e \in OpenAt(w, p), e \in OpenAt(w, q)
      PROVE  p = q
  BY <1>4 DEF CallInv, CallsOnce
<1>5. ASSUME NEW p \in Places, NEW e \in OpenAt(w, p) PROVE e.live
  <2>1. CASE p = "running"
    BY <1>2, <2>1
  <2>2. CASE p = "cq"
    BY <2>2, PlaceIs DEF OpenCalls
  <2>3. CASE p \in Kinds
    <3>1. OpenAt(w, p) = OpenCalls(pending[w][p])
      BY <2>3, PlaceIs
    <3> QED BY <3>1 DEF OpenCalls
  <2> QED BY <1>3, <2>1, <2>2, <2>3
\* Where a call that is open now was before.
<1>6. ASSUME NEW p \in Places, NEW e \in OpenAt(w, p)'
      PROVE  \/ p = "running" /\ e = h /\ e \in OpenAt(w, "cq")
             \/ p = "cq" /\ e # h /\ e \in OpenAt(w, "cq")
             \/ p = "cq" /\ e = m /\ e \in OpenAt(w, k)
             \/ p = k /\ e # m /\ e \in OpenAt(w, k)
             \/ p \in Kinds \ {k} /\ e \in OpenAt(w, p)
  BY <1>2, <1>3
<1>7. ASSUME NEW v \in Workers, NEW p \in Places, NEW e \in OpenAt(v, p)'
      PROVE  \E q \in Places : e \in OpenAt(v, q)
  <2>1. CASE v = w
    BY <1>3, <1>6, <2>1
  <2>2. CASE v # w
    BY <1>1, <2>2
  <2> QED BY <2>1, <2>2
<1>8. ASSUME NEW p \in Places, NEW q \in Places, NEW e \in OpenAt(w, p)', e \in OpenAt(w, q)'
      PROVE  p = q
  <2>1. k \in Places /\ "cq" \in Places
    BY <1>3
  <2>2. CASE e \in OpenAt(w, "cq")
    <3>1. ~(e \in OpenAt(w, k)) /\ \A x \in Kinds : ~(e \in OpenAt(w, x))
      BY <1>3, <1>4, <2>1, <2>2
    <3>2. (p = "running" /\ e = h) \/ (p = "cq" /\ e # h)
      BY <1>6, <3>1
    <3>3. (q = "running" /\ e = h) \/ (q = "cq" /\ e # h)
      BY <1>6, <1>8, <3>1
    <3> QED BY <3>2, <3>3
  <2>3. CASE e \in OpenAt(w, k)
    <3>1. ~(e \in OpenAt(w, "cq")) /\ \A x \in Kinds \ {k} : ~(e \in OpenAt(w, x))
      BY <1>3, <1>4, <2>1, <2>3
    <3>2. (p = "cq" /\ e = m) \/ (p = k /\ e # m)
      BY <1>6, <3>1
    <3>3. (q = "cq" /\ e = m) \/ (q = k /\ e # m)
      BY <1>6, <1>8, <3>1
    <3> QED BY <3>2, <3>3
  <2>4. CASE ~(e \in OpenAt(w, "cq")) /\ ~(e \in OpenAt(w, k))
    <3>1. p \in Kinds \ {k} /\ e \in OpenAt(w, p)
      BY <1>6, <2>4
    <3>2. q \in Kinds \ {k} /\ e \in OpenAt(w, q)
      BY <1>6, <1>8, <2>4
    <3> QED BY <1>4, <3>1, <3>2
  <2> QED BY <2>2, <2>3, <2>4
<1>9. ASSUME NEW v \in Workers, NEW p \in Places, NEW e \in OpenAt(v, p)
      PROVE  \E q \in Places : e \in OpenAt(v, q)'
  <2>1. CASE v # w
    BY <1>1, <2>1
  <2>2. CASE v = w
    <3>1. e.live
      BY <1>5, <2>2
    <3>2. CASE p = "running"
      BY <1>2, <2>2, <3>2
    <3>3. CASE p = "cq"
      <4>1. e \in OpenAt(w, "running")' \/ e \in OpenAt(w, "cq")'
        BY <1>2, <2>2, <3>1, <3>3
      <4> QED BY <1>3, <2>2, <4>1
    <3>4. CASE p = k
      <4>1. e \in OpenAt(w, k)' \/ e \in OpenAt(w, "cq")'
        BY <1>2, <2>2, <3>1, <3>4
      <4> QED BY <1>3, <2>2, <4>1
    <3>5. CASE p \in Kinds \ {k}
      BY <1>2, <2>2, <3>5
    <3> QED BY <1>3, <3>2, <3>3, <3>4, <3>5
  <2> QED BY <2>1, <2>2
<1>10. CallsCurrent'
  <2>1. ASSUME NEW v \in Workers, NEW p \in Places, NEW e \in OpenAt(v, p)'
        PROVE  /\ e.kind = phase /\ e.job = job
               /\ e.task \in TasksOf(phase) \ (todo \cup results)
    BY <1>7 DEF CallInv, CallsCurrent
  <2> QED BY <1>3, <2>1 DEF CallsCurrent
<1>11. CallsOnce'
  <2>1. ASSUME NEW u \in Workers, NEW v \in Workers, NEW p \in Places, NEW q \in Places,
               NEW e \in OpenAt(u, p)', NEW f \in OpenAt(v, q)', e.task = f.task
        PROVE  u = v /\ p = q /\ e = f
    <3>1. u = v /\ e = f
      <4>1. PICK x \in Places : e \in OpenAt(u, x)
        BY <1>7
      <4>2. PICK y \in Places : f \in OpenAt(v, y)
        BY <1>7
      <4> QED BY <2>1, <4>1, <4>2 DEF CallInv, CallsOnce
    <3>2. CASE u = w
      BY <1>8, <3>1, <3>2
    <3>3. CASE u # w
      BY <1>1, <2>1, <3>1, <3>3 DEF CallInv, CallsOnce
    <3> QED BY <3>1, <3>2, <3>3
  <2> QED BY <2>1 DEF CallsOnce
<1>12. CallsOpen'
  <2>1. ASSUME NEW s \in TasksOf(phase) \ (todo \cup results)
        PROVE  \E v \in Workers, p \in Places : \E e \in OpenAt(v, p)' : e.task = s
    <3>1. PICK v \in Workers, p \in Places : \E e \in OpenAt(v, p) : e.task = s
      BY DEF CallInv, CallsOpen
    <3> QED BY <1>9, <3>1
  <2> QED BY <1>3, <2>1 DEF CallsOpen
<1>13. TasksSplit'
  BY <1>3 DEF CallInv, TasksSplit
<1> QED BY <1>1, <1>10, <1>11, <1>12, <1>13 DEF CallInv

\* The calls of a worker are known to the master by their place.
LEMMA OpenIsCall ==
    ASSUME QueueType, NEW w \in Workers, NEW p \in Places, NEW c \in OpenAt(w, p)
    PROVE  IsCall(c) /\ c.live /\ (p \in Kinds => c.kind = p)
<1>1. CASE p = "running"
  BY <1>1, PlaceIs, QueuesOf DEF NoCall, Kinds
<1>2. CASE p = "cq"
  <2>1. c \in OpenCalls(cq[w])
    BY <1>2, PlaceIs
  <2>2. IsQueue(cq[w])
    BY QueuesOf
  <2> QED BY <1>2, <2>1, <2>2, QueueList DEF OpenCalls, Kinds
<1>3. CASE p \in Kinds
  <2>1. c \in OpenCalls(pending[w][p])
    BY <1>3, PlaceIs
  <2>2. /\ IsQueue(pending[w][p])
        /\ \A i \in 1..Len(pending[w][p]) : pending[w][p][i].kind = p
    BY <1>3, QueuesOf
  <2> QED BY <1>3, <2>1, <2>2, QueueList DEF OpenCalls
<1> QED BY <1>1, <1>2, <1>3 DEF Places

\* A worker answers.
LEMMA AnswerKeeps ==
    ASSUME CallInv, NEW w \in Workers, AnswerCall(w)
    PROVE  CallInv'
<1>D. PICK D : D = {c \in {running[w]} : c.live}
  OBVIOUS
<1>1. /\ running' = [running EXCEPT ![w] = NoCall] /\ cq' = cq /\ pending' = pending
      /\ todo' = todo /\ phase' = phase /\ job' = job /\ m_Clients' = m_Clients
  BY DEF AnswerCall, Answer, registryVars, updateVars
<1>2. results' = results \cup {c.task : c \in D}
  <2>1. CASE running[w].live
    BY <1>D, <2>1 DEF AnswerCall, Accept
  <2>2. CASE ~running[w].live
    BY <1>D, <2>2 DEF AnswerCall, Accept
  <2> QED BY <2>1, <2>2
<1>3. QueueType /\ DOMAIN running = Workers /\ DOMAIN cq = Workers /\ DOMAIN pending = Workers
  BY DEF CallInv, QueueType
<1>4. /\ running'[w] = NoCall /\ DOMAIN running' = Workers
      /\ \A v \in Workers \ {w} : running'[v] = running[v]
  BY <1>1, <1>3
<1>5. QueueType' /\ \A v \in Workers \ {w}, p \in Places : OpenAt(v, p)' = OpenAt(v, p)
  <2>1. /\ IsQueue(cq'[w]) /\ DOMAIN cq' = Workers
        /\ DOMAIN pending' = Workers /\ DOMAIN pending'[w] = Kinds
        /\ \A j \in Kinds : /\ IsQueue(pending'[w][j])
                            /\ \A i \in 1..Len(pending'[w][j]) : pending'[w][j][i].kind = j
    BY <1>1, <1>3, QueuesOf, Zenon
  <2>2. \A v \in Workers \ {w} : /\ running'[v] = running[v] /\ cq'[v] = cq[v]
                                 /\ pending'[v] = pending[v]
    BY <1>1, <1>4
  <2> QED BY <1>3, <1>4, <2>1, <2>2, QueuesKeep
<1>6. OpenAt(w, "running") = D /\ OpenAt(w, "running")' = {} /\ "running" \in Places
  BY <1>D, <1>4, PlaceIs, PlaceWillBe DEF NoCall
<1>7. ASSUME NEW p \in Places PROVE OpenAt(w, p)' = OpenAt(w, p) \ D
  <2>1. CASE p = "running"
    BY <1>6, <2>1
  <2>2. CASE p # "running"
    <3>1. OpenAt(w, p)' = OpenAt(w, p)
      BY <1>1, <2>2, PlaceSame
    <3>2. \A d \in D : ~(d \in OpenAt(w, p))
      BY <1>6, <2>2 DEF CallInv, CallsOnce
    <3> QED BY <3>1, <3>2
  <2> QED BY <2>1, <2>2
<1>8. D \subseteq UNION {OpenAt(w, p) : p \in Places}
  BY <1>6
<1>9. TasksOf(phase)' = TasksOf(phase)
  BY <1>1, TasksStay
<1> QED BY <1>1, <1>2, <1>5, <1>7, <1>8, <1>9, CallsOver

\* What becomes of the tasks of calls that end badly: they are all of one kind.
LEMMA FailedTasks ==
    ASSUME NEW D, \A c \in D : c.kind = phase, FailCalls(D)
    PROVE  /\ phase' = phase /\ job' = job
           /\ \/ todo' = todo /\ results' = results \cup {c.task : c \in D}
              \/ todo' = todo \cup {c.task : c \in D} /\ results' = results
<1>1. /\ phase' = phase /\ job' = job
      /\ todo' = todo \cup {c.task : c \in {x \in D : x.kind # "exchange"}}
      /\ results' = results \cup {c.task : c \in {x \in D : x.kind = "exchange"}}
  BY DEF FailCalls, RequeueFailed
<1>2. CASE phase = "exchange"
  <2>1. {x \in D : x.kind # "exchange"} = {} /\ {x \in D : x.kind = "exchange"} = D
    BY <1>2
  <2> QED BY <1>1, <2>1
<1>3. CASE phase # "exchange"
  <2>1. {x \in D : x.kind # "exchange"} = D /\ {x \in D : x.kind = "exchange"} = {}
    BY <1>3
  <2> QED BY <1>1, <2>1
<1> QED BY <1>2, <1>3

\* A worker stops, and the master hears of all the calls it had.
LEMMA StopKeeps ==
    ASSUME CallInv, NEW w \in Workers, Stop(w), FailCalls(LiveCallsAt(w)), m_Clients' = m_Clients
    PROVE  CallInv'
<1>D. PICK D : D = UNION {OpenAt(w, p) : p \in Places}
  OBVIOUS
<1>1. LiveCallsAt(w) = D
  BY <1>D, LiveCallsAre DEF CallInv
<1>2. \A c \in D : c.kind = phase
  BY <1>D DEF CallInv, CallsCurrent
<1>3. FailCalls(D)
  BY <1>1 DEF FailCalls, RequeueFailed
<1>4. /\ QueueType'
      /\ \A v \in Workers \ {w}, p \in Places : OpenAt(v, p)' = OpenAt(v, p)
      /\ \A p \in Places : OpenAt(w, p)' = {}
  BY StopCloses DEF CallInv
<1>5. \A p \in Places : OpenAt(w, p)' = OpenAt(w, p) \ D
  BY <1>4, <1>D
<1>6. TasksOf(phase)' = TasksOf(phase)
  BY <1>2, <1>3, FailedTasks, TasksStay
<1>7. D \subseteq UNION {OpenAt(w, p) : p \in Places}
  BY <1>D
<1>8. /\ phase' = phase /\ job' = job
      /\ \/ todo' = todo /\ results' = results \cup {c.task : c \in D}
         \/ todo' = todo \cup {c.task : c \in D} /\ results' = results
  BY <1>2, <1>3, FailedTasks
<1> QED BY <1>4, <1>5, <1>6, <1>7, <1>8, CallsOver

\* A call runs past its deadline.
LEMMA ExpireKeeps ==
    ASSUME CallInv, NEW w \in Workers, NEW c \in LiveCallsAt(w), Expire(w, c)
    PROVE  CallInv'
<1>1. PICK x \in Places : c \in OpenAt(w, x)
  BY LiveCallsAre DEF CallInv
<1>k. PICK k : k = c.kind
  OBVIOUS
<1>2. QueueType /\ DOMAIN running = Workers /\ DOMAIN cq = Workers /\ DOMAIN pending = Workers
  BY DEF CallInv, QueueType
<1>3. IsCall(c) /\ c.live /\ k \in Kinds
  BY <1>1, <1>2, <1>k, OpenIsCall DEF IsCall
<1>4. c.kind = phase
  BY <1>1 DEF CallInv, CallsCurrent
<1>5. /\ cq' = [cq EXCEPT ![w] = EndIn(@, c)]
      /\ running' = [running EXCEPT ![w] = IF @ = c THEN Ended(c) ELSE @]
      /\ \/ pending' = [pending EXCEPT ![w][k] = Sublist(@, Range(@) \ {c})]
         \/ pending' = [pending EXCEPT ![w][k] = EndIn(@, c)]
      /\ FailCalls({c}) /\ m_Clients' = m_Clients
  BY <1>k DEF Expire, registryVars, updateVars
<1>6. PICK q, r, s : q = cq[w] /\ r = pending[w][k] /\ s = pending'[w][k]
  OBVIOUS
<1>7. /\ running[w] = NoCall \/ IsCall(running[w])
      /\ IsQueue(q) /\ DOMAIN pending[w] = Kinds /\ IsQueue(r)
      /\ \A i \in 1..Len(r) : r[i].kind = k
  BY <1>2, <1>3, <1>6, QueuesOf
<1>8. /\ DOMAIN pending' = Workers /\ DOMAIN pending'[w] = Kinds
      /\ \A v \in Workers \ {w} : pending'[v] = pending[v]
      /\ \A j \in Kinds \ {k} : pending'[w][j] = pending[w][j]
      /\ s = Sublist(r, Range(r) \ {c}) \/ s = EndIn(r, c)
  <2>1. CASE pending' = [pending EXCEPT ![w][k] = Sublist(@, Range(@) \ {c})]
    BY <1>2, <1>3, <1>6, <1>7, <2>1
  <2>2. CASE pending' = [pending EXCEPT ![w][k] = EndIn(@, c)]
    BY <1>2, <1>3, <1>6, <1>7, <2>2
  <2> QED BY <1>5, <2>1, <2>2
<1>9. IsQueue(s) /\ OpenCalls(s) = OpenCalls(r) \ {c} /\ \A i \in 1..Len(s) : s[i].kind = k
  <2>1. CASE s = Sublist(r, Range(r) \ {c})
    <3>1. /\ IsQueue(s) /\ OpenCalls(s) = OpenCalls(r) \ {c}
          /\ \A i \in 1..Len(s) : \E j \in 1..Len(r) : s[i] = r[j]
      <4>1. /\ IsQueue(Sublist(r, Range(r) \ {c}))
            /\ OpenCalls(Sublist(r, Range(r) \ {c})) = OpenCalls(r) \ {c}
            /\ \A i \in 1..Len(Sublist(r, Range(r) \ {c})) :
                   \E j \in 1..Len(r) : Sublist(r, Range(r) \ {c})[i] = r[j]
        BY <1>7, QueueDrop
      <4> QED BY <2>1, <4>1, Zenon
    <3> QED BY <1>7, <3>1
  <2>2. CASE s = EndIn(r, c)
    <3>1. /\ IsQueue(s) /\ Len(s) = Len(r) /\ OpenCalls(s) = OpenCalls(r) \ {c}
          /\ \A i \in 1..Len(r) : s[i].kind = r[i].kind
      <4>1. /\ IsQueue(EndIn(r, c)) /\ Len(EndIn(r, c)) = Len(r)
            /\ OpenCalls(EndIn(r, c)) = OpenCalls(r) \ {c}
            /\ \A i \in 1..Len(r) : EndIn(r, c)[i].kind = r[i].kind
        BY <1>3, <1>7, QueueEndIn
      <4> QED BY <2>2, <4>1, Zenon
    <3> QED BY <1>7, <3>1
  <2> QED BY <1>8, <2>1, <2>2
<1>10. IsQueue(EndIn(q, c)) /\ OpenCalls(EndIn(q, c)) = OpenCalls(q) \ {c}
  BY <1>3, <1>7, QueueEndIn
<1>11. /\ cq'[w] = EndIn(q, c) /\ DOMAIN cq' = Workers
       /\ \A v \in Workers \ {w} : cq'[v] = cq[v]
  BY <1>2, <1>5, <1>6
<1>12. /\ running'[w] = IF running[w] = c THEN Ended(c) ELSE running[w]
       /\ DOMAIN running' = Workers
       /\ \A v \in Workers \ {w} : running'[v] = running[v]
  BY <1>2, <1>5
<1>13. IsCall(Ended(c)) /\ Ended(c).live = FALSE
  BY <1>3, EndedCall
<1>14. QueueType' /\ \A v \in Workers \ {w}, p \in Places : OpenAt(v, p)' = OpenAt(v, p)
  <2>1. ASSUME NEW j \in Kinds
        PROVE  /\ IsQueue(pending'[w][j])
               /\ \A i \in 1..Len(pending'[w][j]) : pending'[w][j][i].kind = j
    <3>1. CASE j = k
      BY <1>6, <1>9, <3>1
    <3>2. CASE j # k
      BY <1>2, <1>8, <3>2, QueuesOf
    <3> QED BY <3>1, <3>2
  <2>2. running'[w] = NoCall \/ IsCall(running'[w])
    BY <1>7, <1>12, <1>13
  <2>3. IsQueue(cq'[w])
    BY <1>10, <1>11
  <2>4. \A v \in Workers \ {w} : /\ running'[v] = running[v] /\ cq'[v] = cq[v]
                                 /\ pending'[v] = pending[v]
    BY <1>8, <1>11, <1>12
  <2> QED BY <1>2, <1>8, <1>11, <1>12, <2>1, <2>2, <2>3, <2>4, QueuesKeep
<1>15. OpenAt(w, "running")' = OpenAt(w, "running") \ {c}
  BY <1>12, <1>13, PlaceIs, PlaceWillBe
<1>16. OpenAt(w, "cq")' = OpenAt(w, "cq") \ {c}
  BY <1>6, <1>10, <1>11, PlaceIs, PlaceWillBe
<1>17. OpenAt(w, k)' = OpenAt(w, k) \ {c}
  <2>1. OpenAt(w, k)' = OpenCalls(pending'[w][k])
    BY <1>3, PlaceWillBe
  <2>2. OpenAt(w, k) = OpenCalls(pending[w][k])
    BY <1>3, PlaceIs
  <2> QED BY <1>6, <1>9, <2>1, <2>2
<1>18. ASSUME NEW p \in Kinds \ {k} PROVE OpenAt(w, p)' = OpenAt(w, p) \ {c}
  <2>1. p \in Places /\ p # "running" /\ p # "cq" /\ p \in Kinds
    BY DEF Places, Kinds
  <2>2. OpenAt(w, p)' = OpenAt(w, p)
    BY <1>8, <2>1, PlaceSame
  <2>3. ~(c \in OpenAt(w, p))
    BY <1>2, <1>k, <2>1, OpenIsCall
  <2> QED BY <2>2, <2>3
<1>19. ASSUME NEW p \in Places PROVE OpenAt(w, p)' = OpenAt(w, p) \ {c}
  BY <1>15, <1>16, <1>17, <1>18 DEF Places
<1>20. {c} \subseteq UNION {OpenAt(w, p) : p \in Places}
  BY <1>1
<1>21. /\ phase' = phase /\ job' = job
       /\ \/ todo' = todo /\ results' = results \cup {d.task : d \in {c}}
          \/ todo' = todo \cup {d.task : d \in {c}} /\ results' = results
  BY <1>4, <1>5, FailedTasks
<1>22. TasksOf(phase)' = TasksOf(phase)
  BY <1>5, <1>21, TasksStay
<1> QED BY <1>14, <1>19, <1>20, <1>21, <1>22, CallsOver

\* A step that moves no call: it touches no task, or it ends an ExchangeInfo that
\* was never made.
LEMMA UnmovedKeeps ==
    ASSUME CallInv, running' = running, cq' = cq, pending' = pending,
           phase' = phase, job' = job, TasksOf(phase)' = TasksOf(phase),
           \/ todo' = todo /\ results' = results
           \/ \E t \in todo : todo' = todo \ {t} /\ results' = results \cup {t}
    PROVE  CallInv'
<1>1. QueueType' /\ \A w \in Workers, p \in Places : OpenAt(w, p)' = OpenAt(w, p)
  BY QueuesStay DEF CallInv
<1>2. todo \subseteq TasksOf(phase) /\ todo \cap results = {}
  BY DEF CallInv, TasksSplit
<1>3. phase \in {"idle", "update"} => todo = {} /\ results = {}
  BY <1>2, TasksAre DEF CallInv, TasksSplit
<1>4. /\ todo' \cup results' = todo \cup results
      /\ todo' \subseteq todo /\ todo' \cap results' = {}
      /\ phase \in {"idle", "update"} => results' = {}
  BY <1>2, <1>3
<1> QED BY <1>1, <1>4, CallsSame

\* A phase begins while no call is open.
LEMMA PhaseKeeps ==
    ASSUME QueueType', \A w \in Workers, p \in Places : OpenAt(w, p)' = {},
           NEW p, NEW done, phase' = p, todo' = TasksOf(p)' \ done, results' = done,
           p \in {"idle", "update"} => done = {}
    PROVE  CallInv'
<1>1. TasksOf(phase)' = TasksOf(p)'
  BY DEF TasksOf
<1>2. TasksSplit' /\ TasksOf(phase)' \subseteq todo' \cup results'
  BY <1>1 DEF TasksSplit
<1> QED BY <1>2, CallsNone

\* No call is open while the master waits for nothing.
LEMMA NoneOpen ==
    ASSUME CallInv, TasksOf(phase) \subseteq todo \cup results
    PROVE  \A w \in Workers, p \in Places : OpenAt(w, p) = {}
BY DEF CallInv, CallsCurrent

LEMMA EndPhaseKeeps ==
    ASSUME RegInv, CallInv, EndPhase
    PROVE  CallInv'
<1>1. /\ running' = running /\ cq' = cq /\ pending' = pending /\ m_Clients' = m_Clients
      /\ phase \notin {"idle", "update", "spin"} /\ results = TasksOf(phase)
  BY DEF EndPhase, AllOver, workerVars, registryVars, updateVars
<1>2. QueueType' /\ \A w \in Workers, p \in Places : OpenAt(w, p)' = {}
  BY <1>1, NoneOpen, QueuesStay DEF CallInv
<1>3. ASSUME NEW p, NEW done, phase' = p, todo' = TasksOf(p) \ done, results' = done,
             p \in {"idle", "update"} => done = {}
      PROVE  CallInv'
  <2>1. TasksOf(p)' = TasksOf(p)
    BY <1>1, TasksStay
  <2> QED BY <1>2, <1>3, <2>1, PhaseKeeps
<1>4. CASE phase = "exchange"
  <2>1. PICK done : done = IF resumed THEN MappedIn(intblobs) ELSE {}
    OBVIOUS
  <2>2. \/ phase' = "map" /\ todo' = TasksOf("map") \ done /\ results' = done
        \/ phase' = "spin" /\ todo' = TasksOf("spin") \ {} /\ results' = {}
    BY <1>4, <2>1 DEF EndPhase, EnterMap, EnterPhase
  <2> QED BY <1>3, <2>2
<1>5. CASE phase = "map"
  <2>1. phase' = "reduce" /\ todo' = TasksOf("reduce") \ {} /\ results' = {}
    BY <1>5 DEF EndPhase, EnterPhase
  <2> QED BY <1>3, <2>1
<1>6. CASE phase = "reduce"
  <2>1. phase' = "idle" /\ todo' = TasksOf("idle") \ {} /\ results' = {}
    BY <1>6 DEF EndPhase, EnterPhase
  <2> QED BY <1>3, <2>1
<1>7. phase \in Phases
  BY DEF RegInv, RegType
<1> QED BY <1>1, <1>4, <1>5, <1>6, <1>7 DEF Phases

\* A job begins, its update ends or it is rejected.
LEMMA JobKeeps ==
    ASSUME CallInv, StartJob \/ EndUpdate \/ RejectJob
    PROVE  CallInv'
<1>1. running' = running /\ cq' = cq /\ pending' = pending /\ phase \in {"idle", "update"}
  BY DEF StartJob, EndUpdate, RejectJob, RemoveWorkers, workerVars
<1>2. TasksOf(phase) = {} /\ results = {}
  BY <1>1, TasksAre DEF CallInv, TasksSplit
<1>3. QueueType' /\ \A w \in Workers, p \in Places : OpenAt(w, p)' = {}
  BY <1>1, <1>2, NoneOpen, QueuesStay DEF CallInv
<1>4. TasksOf("idle")' = {} /\ TasksOf("update")' = {} /\ TasksOf("exchange")' = ClientIds'
  BY DEF TasksOf
<1>5. CASE StartJob
  <2>1. phase' = "update" /\ todo' = TasksOf("update")' \ {} /\ results' = {}
    BY <1>4, <1>5, TasksAre DEF StartJob, EnterPhase
  <2> QED BY <1>3, <2>1, PhaseKeeps
<1>6. CASE EndUpdate
  <2>1. phase' = "exchange" /\ todo' = TasksOf("exchange")' \ {} /\ results' = {}
    BY <1>2, <1>4, <1>6 DEF EndUpdate, ClientIds
  <2> QED BY <1>3, <2>1, PhaseKeeps
<1>7. CASE RejectJob
  <2>1. phase' = "idle" /\ todo' = TasksOf("idle")' \ {} /\ results' = {}
    BY <1>4, <1>7, TasksAre DEF RejectJob, EnterPhase
  <2> QED BY <1>3, <2>1, PhaseKeeps
<1> QED BY <1>5, <1>6, <1>7

\* A new leader takes over; the calls of the old one are nobody's.
LEMMA TakeOverKeeps ==
    ASSUME CallInv, TakeOver
    PROVE  CallInv'
<1>1. QueueType
  BY DEF CallInv
<1>2. OrphanCalls
  BY DEF TakeOver
<1>3. ASSUME NEW w \in Workers
      PROVE  /\ running'[w] = NoCall \/ IsCall(running'[w])
             /\ running'[w].live = FALSE
             /\ IsQueue(cq'[w]) /\ OpenCalls(cq'[w]) = {}
  <2>1. running'[w] = Ended(running[w]) /\ cq'[w] = EndAll(cq[w])
    BY <1>2 DEF OrphanCalls
  <2>2. IsQueue(EndAll(cq[w])) /\ OpenCalls(EndAll(cq[w])) = {}
    BY <1>1, QueuesOf, QueueEndAll
  <2>3. /\ Ended(running[w]) = NoCall \/ IsCall(Ended(running[w]))
        /\ Ended(running[w]).live = FALSE
    <3>1. CASE running[w] = NoCall
      BY <3>1, EndedCall DEF NoCall
    <3>2. CASE IsCall(running[w])
      BY <3>2, EndedCall
    <3> QED BY <1>1, <3>1, <3>2, QueuesOf
  <2> QED BY <2>1, <2>2, <2>3, Zenon
<1>4. ASSUME NEW w \in Workers, NEW k \in Kinds
      PROVE  /\ DOMAIN pending'[w] = Kinds
             /\ IsQueue(pending'[w][k]) /\ OpenCalls(pending'[w][k]) = {}
             /\ \A i \in 1..Len(pending'[w][k]) : pending'[w][k][i].kind = k
  <2>1. IsQueue(pending[w][k]) /\ \A i \in 1..Len(pending[w][k]) : pending[w][k][i].kind = k
    BY <1>1, QueuesOf
  <2>2. /\ IsQueue(EndAll(pending[w][k])) /\ OpenCalls(EndAll(pending[w][k])) = {}
        /\ \A i \in 1..Len(EndAll(pending[w][k])) : EndAll(pending[w][k])[i].kind = k
    BY <2>1, QueueEndAll
  <2>3. CASE pending' = [v \in Workers |-> [j \in Kinds |-> EndAll(pending[v][j])]]
    <3>1. DOMAIN pending'[w] = Kinds /\ pending'[w][k] = EndAll(pending[w][k])
      BY <2>3
    <3> QED BY <2>2, <3>1, Zenon
  <2>4. CASE pending' = [v \in Workers |-> [j \in Kinds |-> <<>>]]
    <3>1. DOMAIN pending'[w] = Kinds /\ pending'[w][k] = <<>>
      BY <2>4
    <3> QED BY <3>1, EmptyQueue
  <2> QED BY <1>2, <2>3, <2>4 DEF OrphanCalls
<1>5. DOMAIN running' = Workers /\ DOMAIN cq' = Workers /\ DOMAIN pending' = Workers
  BY <1>2 DEF OrphanCalls
<1>6. QueueType'
  <2>1. ASSUME NEW w \in Workers PROVE DOMAIN pending'[w] = Kinds
    BY <1>4 DEF Kinds
  <2>2. \A w \in Workers :
            /\ running'[w] = NoCall \/ IsCall(running'[w])
            /\ IsQueue(cq'[w]) /\ DOMAIN pending'[w] = Kinds
            /\ \A k \in Kinds : /\ IsQueue(pending'[w][k])
                                /\ \A i \in 1..Len(pending'[w][k]) : pending'[w][k][i].kind = k
    BY <1>3, <1>4, <2>1, Zenon
  <2> QED BY <1>5, <2>2 DEF QueueType, IsQueue, IsCall, OncePerTask
<1>7. ASSUME NEW w \in Workers, NEW p \in Places PROVE OpenAt(w, p)' = {}
  <2>1. OpenAt(w, "running")' = {}
    <3>1. OpenAt(w, "running")' = {c \in {running'[w]} : c.live}
      BY PlaceWillBe
    <3>2. PICK r : r = running'[w] /\ r.live = FALSE
      BY <1>3
    <3> QED BY <3>1, <3>2
  <2>2. OpenAt(w, "cq")' = {}
    BY <1>3, PlaceWillBe
  <2>3. ASSUME NEW k \in Kinds PROVE OpenAt(w, k)' = {}
    <3>1. OpenAt(w, k)' = OpenCalls(pending'[w][k])
      BY PlaceWillBe
    <3> QED BY <1>4, <3>1
  <2> QED BY <2>1, <2>2, <2>3 DEF Places
<1>8. TasksOf("update")' = {}
  BY DEF TasksOf
<1>9. phase' = "update" /\ todo' = TasksOf("update")' \ {} /\ results' = {}
  BY <1>8, TasksAre DEF TakeOver, EnterPhase
<1> QED BY <1>6, <1>7, <1>9, PhaseKeeps

LEMMA CallNext == RegInv /\ JobInv /\ CallInv /\ [Next]_vars => CallInv'
<1> SUFFICES ASSUME RegInv, JobInv, CallInv, [Next]_vars PROVE CallInv'
  OBVIOUS
<1>1. CASE MasterStep
  <2>1. CASE StartJob \/ EndUpdate \/ RejectJob
    BY <2>1, JobKeeps
  <2>2. CASE phase = "update" /\ (\E z \in unread : AddWorker(z)) /\ UNCHANGED masterVars
    <3>1. /\ running' = running /\ cq' = cq /\ pending' = pending
          /\ phase' = phase /\ job' = job /\ todo' = todo /\ results' = results
      BY <2>2 DEF AddWorker, workerVars, masterVars
    <3>2. TasksOf(phase)' = TasksOf(phase)
      BY <2>2, <3>1 DEF TasksOf
    <3> QED BY <3>1, <3>2, UnmovedKeeps
  <2>3. CASE EndPhase
    BY <2>3, EndPhaseKeeps
  <2>4. ASSUME NEW c \in Range(m_Clients), ExchangeUnreachable(c) PROVE CallInv'
    <3>1. /\ running' = running /\ cq' = cq /\ pending' = pending /\ m_Clients' = m_Clients
          /\ phase' = phase /\ job' = job
          /\ c.nodeid \in todo /\ todo' = todo \ {c.nodeid} /\ results' = results \cup {c.nodeid}
      BY <2>4 DEF ExchangeUnreachable, workerVars, registryVars, updateVars
    <3>2. TasksOf(phase)' = TasksOf(phase)
      BY <3>1, TasksStay
    <3> QED BY <3>1, <3>2, UnmovedKeeps
  <2>5. ASSUME NEW c \in Range(m_Clients), HeartbeatOk(c) \/ HeartbeatFails(c) PROVE CallInv'
    <3>1. /\ running' = running /\ cq' = cq /\ pending' = pending /\ m_Clients' = m_Clients
          /\ phase' = phase /\ job' = job /\ todo' = todo /\ results' = results
      BY <2>5 DEF HeartbeatOk, HeartbeatFails, PingExpires, workerVars, registryVars, updateVars
    <3>2. TasksOf(phase)' = TasksOf(phase)
      BY <3>1, TasksStay
    <3> QED BY <3>1, <3>2, UnmovedKeeps
  <2>6. ASSUME NEW c \in Range(m_Clients), NEW t \in todo, Send(c, t) PROVE CallInv'
    BY <2>6, SendKeeps
  <2> QED BY <1>1, <2>1, <2>2, <2>3, <2>4, <2>5, <2>6 DEF MasterStep
<1>2. ASSUME NEW w \in Workers, WorkerStep(w) PROVE CallInv'
  <2>1. CASE Work(w) /\ UNCHANGED <<registryVars, masterVars>>
    <3>1. /\ m_Clients' = m_Clients /\ phase' = phase /\ job' = job
          /\ todo' = todo /\ results' = results
      BY <2>1 DEF registryVars, updateVars, masterVars
    <3>2. CASE TakeCall(w)
      BY <3>1, <3>2, TakeKeeps DEF TakeCall
    <3>3. CASE ~TakeCall(w)
      <4>1. running' = running /\ cq' = cq /\ pending' = pending
        BY <2>1, <3>3
           DEF Work, CreateConnection, MapPiece, AddIntermediateBlob, PrepareData, AddOutBlob
      <4>2. TasksOf(phase)' = TasksOf(phase)
        BY <3>1, TasksStay
      <4> QED BY <3>1, <4>1, <4>2, UnmovedKeeps
    <3> QED BY <3>2, <3>3
  <2>2. CASE AnswerCall(w)
    BY <2>2, AnswerKeeps
  <2>3. CASE WorkerStops(w)
    <3>1. Stop(w) /\ FailCalls(LiveCallsAt(w)) /\ m_Clients' = m_Clients
      BY <2>3 DEF WorkerStops, EnterFailState, LeaveLoop, UseNoConnection, CloseSession, LeaveNode, updateVars
    <3> QED BY <3>1, StopKeeps
  <2>4. CASE Register(w) /\ UNCHANGED masterVars
    <3>1. /\ running' = running /\ cq' = cq /\ pending' = pending /\ m_Clients' = m_Clients
          /\ phase' = phase /\ job' = job /\ todo' = todo /\ results' = results
      BY <2>4 DEF Register, RegisterWithZk, RegisterAddressWithZk, RunServer,
                  workerVars, updateVars, masterVars
    <3>2. TasksOf(phase)' = TasksOf(phase)
      BY <3>1, TasksStay
    <3> QED BY <3>1, <3>2, UnmovedKeeps
  <2> QED BY <1>2, <2>1, <2>2, <2>3, <2>4 DEF WorkerStep
<1>3. ASSUME NEW w \in Workers, Crash(w) PROVE CallInv'
  <2>1. Stop(w) /\ FailCalls(LiveCallsAt(w)) /\ m_Clients' = m_Clients
    BY <1>3 DEF Crash, LeaveNode, updateVars
  <2> QED BY <2>1, StopKeeps
<1>4. ASSUME NEW w \in Workers, NEW c \in LiveCallsAt(w), Expire(w, c) PROVE CallInv'
  BY <1>4, ExpireKeeps
<1>5. CASE (\E z \in DOMAIN znodes : SessionExpires(z)) /\ UNCHANGED masterVars
  <2>1. /\ running' = running /\ cq' = cq /\ pending' = pending /\ m_Clients' = m_Clients
        /\ phase' = phase /\ job' = job /\ todo' = todo /\ results' = results
    BY <1>5 DEF SessionExpires, workerVars, updateVars, masterVars
  <2>2. TasksOf(phase)' = TasksOf(phase)
    BY <2>1, TasksStay
  <2> QED BY <2>1, <2>2, UnmovedKeeps
<1>6. CASE TakeOver
  BY <1>6, TakeOverKeeps
<1>7. ASSUME NEW w \in Workers, StraySend(w) PROVE CallInv'
  BY <1>7, StrayKeeps
<1>8. CASE UNCHANGED vars
  <2>1. /\ running' = running /\ cq' = cq /\ pending' = pending /\ m_Clients' = m_Clients
        /\ phase' = phase /\ job' = job /\ todo' = todo /\ results' = results
    BY <1>8 DEF vars, workerVars, registryVars, updateVars, masterVars
  <2>2. TasksOf(phase)' = TasksOf(phase)
    BY <2>1, TasksStay
  <2> QED BY <2>1, <2>2, UnmovedKeeps
<1> QED BY <1>1, <1>2, <1>3, <1>4, <1>5, <1>6, <1>7, <1>8 DEF Next, ZooKeeperStep

\* The master waits for exactly one call for each task that it has sent and that is
\* not over, and for none for any other: however many workers stop or restart,
\* calls run late, leaders are replaced and phases and jobs follow one another.
THEOREM OneCallIsWaitedFor == Spec => []OneCallPerTask
<1>1. CallInv => OneCallPerTask
  <2> SUFFICES ASSUME CallInv, NEW t \in TasksOf(phase)
               PROVE  Cardinality({x \in UNION {{w} \X LiveCallsAt(w) : w \in Workers} : x[2].task = t})
                          = IF t \in todo \/ t \in results THEN 0 ELSE 1
    BY DEF OneCallPerTask
  <2>1. PICK calls : calls = {x \in UNION {{w} \X LiveCallsAt(w) : w \in Workers} : x[2].task = t}
    OBVIOUS
  <2>2. ASSUME NEW x \in calls
        PROVE  \E w \in Workers, p \in Places : \E c \in OpenAt(w, p) : x = <<w, c>> /\ c.task = t
    <3>1. PICK w \in Workers : x \in {w} \X LiveCallsAt(w)
      BY <2>1
    <3>2. PICK c \in LiveCallsAt(w) : x = <<w, c>>
      BY <3>1
    <3>3. PICK p \in Places : c \in OpenAt(w, p)
      BY <3>2, LiveCallsAre DEF CallInv
    <3>4. c.task = t
      BY <2>1, <3>2
    <3> QED BY <3>2, <3>3, <3>4
  <2>3. CASE t \in todo \/ t \in results
    <3>1. calls = {}
      BY <2>2, <2>3 DEF CallInv, CallsCurrent
    <3> QED BY <2>1, <2>3, <3>1, FS_EmptySet
  <2>4. CASE ~(t \in todo \/ t \in results)
    <3>1. PICK w \in Workers, p \in Places : \E c \in OpenAt(w, p) : c.task = t
      BY <2>4 DEF CallInv, CallsOpen
    <3>2. PICK c \in OpenAt(w, p) : c.task = t
      BY <3>1
    <3>3. c \in LiveCallsAt(w)
      BY LiveCallsAre DEF CallInv
    <3>4. <<w, c>> \in calls
      <4>1. <<w, c>> \in {w} \X LiveCallsAt(w)
        BY <3>3
      <4> QED BY <2>1, <3>2, <4>1
    <3>5. ASSUME NEW x \in calls PROVE x = <<w, c>>
      <4>1. PICK v \in Workers, q \in Places : \E d \in OpenAt(v, q) : x = <<v, d>> /\ d.task = t
        BY <2>2
      <4>2. PICK d \in OpenAt(v, q) : x = <<v, d>> /\ d.task = t
        BY <4>1
      <4>3. v = w /\ d = c
        BY <3>2, <4>2 DEF CallInv, CallsOnce
      <4> QED BY <4>2, <4>3
    <3>6. calls = {<<w, c>>}
      BY <3>4, <3>5
    <3> QED BY <2>1, <2>4, <3>6, FS_Singleton
  <2> QED BY <2>3, <2>4
<1>2. RegInv /\ JobInv /\ CallInv /\ [Next]_vars => (RegInv /\ JobInv /\ CallInv)'
  BY RegNext, JobNext, CallNext
<1> QED BY <1>1, <1>2, RegInit, JobInit, CallInit, PTL DEF Spec

--------------------------------------------------------------------------------
(* The connections of the workers.                                            *)

\* No call outlives its deadline or its leader.
Punctual == Faults \cap {"late", "late exchange", "stray"} = {} /\ LeaderFails = FALSE

\* Every call a worker has is open.
Live(q) == \A i \in 1..Len(q) : q[i].live
AllLive ==
    \A w \in Workers :
        /\ running[w] = NoCall \/ running[w].live
        /\ Live(cq[w])
        /\ \A k \in Kinds : Live(pending[w][k])

\* An open call came through a client that leads to the worker; an ExchangeInfo,
\* through the one it is for.
CallsLed ==
    \A w \in Workers, p \in Places : \A c \in OpenAt(w, p) :
        /\ c.kind = "exchange" => c.cont = Container[c.job]
        /\ \E d \in Range(m_Clients) : d.addr = w /\ (c.kind = "exchange" => d.nodeid = c.task)

\* A worker that does not serve has nothing; one that has handled an ExchangeInfo has
\* its connection.
ConnType ==
    /\ DOMAIN up = Workers /\ DOMAIN conn = Workers /\ DOMAIN local = Workers
    /\ \A w \in Workers :
        /\ ~up[w] => conn[w] = NoConnection /\ running[w] = NoCall /\ cq[w] = <<>>
        /\ running[w].kind = "exchange" /\ local[w].done => conn[w] = running[w].cont

\* A worker that a client leads to, and that the ExchangeInfo of this client will not
\* reach any more, has no other job's connection.
ConnCurrent ==
    phase \in Working =>
        \A d \in Range(m_Clients) :
            d.addr \in Workers =>
                \/ conn[d.addr] \in {Container[job], NoConnection}
                \/ phase = "exchange" /\ d.nodeid \notin results

ConnInv == AllLive /\ CallsLed /\ ConnType /\ ConnCurrent

LEMMA LiveEnds ==
    ASSUME NEW q, IsQueue(q), Live(q)
    PROVE  /\ q # <<>> => Live(Tail(q)) /\ Head(q).live
           /\ \A c : c.live => Live(Append(q, c))
<1>1. Len(q) \in Nat
  BY QueueList
<1>2. ASSUME q # <<>> PROVE Live(Tail(q)) /\ Head(q).live
  <2>1. /\ Len(Tail(q)) = Len(q) - 1
        /\ \A i \in 1..Len(Tail(q)) : Tail(q)[i] = q[i + 1]
        /\ 1 \in 1..Len(q) /\ Head(q) = q[1]
    BY <1>2, QueueTail
  <2>2. \A i \in 1..Len(Tail(q)) : i + 1 \in 1..Len(q)
    BY <1>1, <2>1
  <2> QED BY <2>1, <2>2 DEF Live
<1>3. ASSUME NEW c, c.live PROVE Live(Append(q, c))
  <2>1. PICK S : S = Range(q) \cup {c}
    OBVIOUS
  <2>2. q \in Seq(S) /\ c \in S
    BY <2>1, SeqMonotonic DEF IsQueue
  <2>3. /\ Len(Append(q, c)) = Len(q) + 1
        /\ \A i \in 1..Len(q) : Append(q, c)[i] = q[i]
        /\ Append(q, c)[Len(q) + 1] = c
    BY <2>2, AppendProperties
  <2>4. \A i \in 1..Len(q) + 1 : i # Len(q) + 1 => i \in 1..Len(q)
    BY <1>1
  <2> QED BY <1>3, <2>3, <2>4 DEF Live
<1> QED BY <1>2, <1>3

LEMMA LiveKeep ==
    ASSUME AllLive, NEW w \in Workers,
           \A v \in Workers \ {w} : /\ running'[v] = running[v] /\ cq'[v] = cq[v]
                                    /\ pending'[v] = pending[v],
           running'[w] = NoCall \/ running'[w].live,
           Live(cq'[w]), \A k \in Kinds : Live(pending'[w][k])
    PROVE  AllLive'
<1>1. ASSUME NEW v \in Workers
      PROVE  /\ running'[v] = NoCall \/ running'[v].live
             /\ Live(cq'[v])
             /\ \A k \in Kinds : Live(pending'[v][k])
  <2>1. CASE v = w
    BY <2>1
  <2>2. CASE v # w
    <3>1. running'[v] = running[v] /\ cq'[v] = cq[v] /\ pending'[v] = pending[v]
      BY <2>2
    <3>2. /\ running[v] = NoCall \/ running[v].live
          /\ Live(cq[v])
          /\ \A k \in Kinds : Live(pending[v][k])
      BY DEF AllLive
    <3> QED BY <3>1, <3>2, Zenon
  <2> QED BY <2>1, <2>2
<1> QED BY <1>1 DEF AllLive, Live

\* The open calls keep their clients,
LEMMA LedStay ==
    ASSUME CallsLed, m_Clients' = m_Clients,
           \A w \in Workers, p \in Places : \A c \in OpenAt(w, p)' :
               \E q \in Places : c \in OpenAt(w, q)
    PROVE  CallsLed'
<1>1. ASSUME NEW w \in Workers, NEW p \in Places, NEW c \in OpenAt(w, p)'
      PROVE  /\ c.kind = "exchange" => c.cont = Container[c.job]
             /\ \E d \in Range(m_Clients) : d.addr = w /\ (c.kind = "exchange" => d.nodeid = c.task)
  BY DEF CallsLed
<1> QED BY <1>1 DEF CallsLed

\* ... or there are none.
LEMMA LedNone ==
    ASSUME \A w \in Workers, p \in Places : OpenAt(w, p)' = {}
    PROVE  CallsLed'
BY DEF CallsLed

\* The connections do not change.
LEMMA ConnStay ==
    ASSUME ConnType, up' = up, conn' = conn, local' = local, running' = running, cq' = cq
    PROVE  ConnType'
BY DEF ConnType

\* A phase with the clients it had: only results that are new matter.
LEMMA CurrentStay ==
    ASSUME ConnCurrent, m_Clients' = m_Clients, phase' = phase, job' = job,
           \A w \in Workers : conn'[w] = conn[w] \/ conn'[w] \in {Container[job], NoConnection},
           \A d \in Range(m_Clients) :
               phase = "exchange" /\ d.addr \in Workers /\ d.nodeid \in results' \ results
                   => conn'[d.addr] \in {Container[job], NoConnection}
    PROVE  ConnCurrent'
<1> SUFFICES ASSUME phase \in Working, NEW d \in Range(m_Clients), d.addr \in Workers
             PROVE  \/ conn'[d.addr] \in {Container[job], NoConnection}
                    \/ phase = "exchange" /\ d.nodeid \notin results'
  BY DEF ConnCurrent
<1>1. \/ conn[d.addr] \in {Container[job], NoConnection}
      \/ phase = "exchange" /\ d.nodeid \notin results
  BY DEF ConnCurrent
<1> QED BY <1>1

LEMMA ConnInit == ClusterInit => ConnInv
<1> SUFFICES ASSUME ClusterInit PROVE ConnInv
  OBVIOUS
<1>1. /\ DOMAIN up = Workers /\ DOMAIN conn = Workers /\ DOMAIN local = Workers
      /\ \A w \in Workers : /\ running[w] = NoCall /\ cq[w] = <<>> /\ conn[w] = NoConnection
                            /\ \A k \in Kinds : pending[w][k] = <<>>
  BY DEF ClusterInit, Init
<1>2. AllLive
  BY <1>1, EmptyQueue DEF AllLive, Live
<1>3. ConnType
  BY <1>1 DEF ConnType, NoCall
<1>4. CallsLed
  <2>1. ASSUME NEW w \in Workers PROVE \A p \in Places : OpenAt(w, p) = {}
    BY <1>1, EmptyQueue, PlaceIs DEF Kinds, NoCall
  <2> QED BY <2>1 DEF CallsLed
<1>5. ConnCurrent
  BY DEF ConnCurrent, ClusterInit, Working
<1> QED BY <1>2, <1>3, <1>4, <1>5 DEF ConnInv

\* A phase ends, or the clients are brought up to date.
LEMMA ConnPhase ==
    ASSUME RegInv, CallInv, ConnInv,
           \/ StartJob \/ EndUpdate \/ RejectJob \/ EndPhase
           \/ phase = "update" /\ (\E z \in unread : AddWorker(z)) /\ UNCHANGED masterVars
    PROVE  ConnInv'
<1>1. /\ up' = up /\ conn' = conn /\ local' = local
      /\ running' = running /\ cq' = cq /\ pending' = pending
  <2>1. CASE StartJob
    BY <2>1 DEF StartJob
  <2>2. CASE EndUpdate \/ RejectJob
    BY <2>2 DEF EndUpdate, RejectJob, RemoveWorkers, workerVars
  <2>3. CASE EndPhase
    BY <2>3 DEF EndPhase, workerVars
  <2>4. CASE \E z \in unread : AddWorker(z)
    BY <2>4 DEF AddWorker, workerVars
  <2> QED BY <2>1, <2>2, <2>3, <2>4
<1>2. TasksOf(phase) \subseteq todo \cup results
  <2>1. CASE EndPhase
    BY <2>1 DEF EndPhase, AllOver
  <2>2. CASE ~EndPhase
    <3>1. phase = "idle" \/ phase = "update"
      BY <2>2 DEF StartJob, EndUpdate, RejectJob
    <3> QED BY <3>1, TasksAre
  <2> QED BY <2>1, <2>2
<1>3. CallsLed'
  BY <1>1, <1>2, NoneOpen, QueuesStay, LedNone DEF CallInv
<1>4. AllLive' /\ ConnType'
  BY <1>1, ConnStay DEF ConnInv, AllLive, Live
<1>5. ConnCurrent'
  <2>1. CASE StartJob \/ RejectJob
    BY <2>1 DEF StartJob, RejectJob, EnterPhase, ConnCurrent, Working
  <2>2. CASE EndUpdate
    <3>1. phase' = "exchange" /\ results' = {}
      BY <2>2 DEF EndUpdate, CallInv, TasksSplit
    <3> QED BY <3>1 DEF ConnCurrent
  <2>3. CASE phase = "update" /\ UNCHANGED masterVars
    BY <2>3 DEF masterVars, ConnCurrent, Working
  <2>4. CASE EndPhase
    <3>1. job' = job /\ m_Clients' = m_Clients /\ results = TasksOf(phase) /\ phase \in Working
      BY <2>4 DEF EndPhase, AllOver, registryVars, updateVars, RegInv, RegType, Phases, Working
    <3>2. ASSUME NEW d \in Range(m_Clients), d.addr \in Workers
          PROVE  conn'[d.addr] \in {Container[job], NoConnection}
      <4>1. phase = "exchange" => d.nodeid \in results
        BY <3>1, TasksAre DEF ClientIds
      <4> QED BY <1>1, <3>1, <3>2, <4>1 DEF ConnInv, ConnCurrent
    <3> QED BY <3>1, <3>2 DEF ConnCurrent
  <2> QED BY <2>1, <2>2, <2>3, <2>4
<1> QED BY <1>3, <1>4, <1>5 DEF ConnInv

\* Nothing happens to the workers, but that one may start to serve; an ExchangeInfo
\* that is over did not get to a worker that serves.
LEMMA ConnUnmoved ==
    ASSUME CallInv, ConnInv,
           conn' = conn, local' = local, running' = running, cq' = cq, pending' = pending,
           up' = up \/ \E w \in Workers : up' = [up EXCEPT ![w] = TRUE],
           m_Clients' = m_Clients, phase' = phase, job' = job,
           \A d \in Range(m_Clients) :
               d.addr \in Workers /\ d.nodeid \in results' \ results => conn[d.addr] = NoConnection
    PROVE  ConnInv'
<1>1. AllLive'
  BY DEF ConnInv, AllLive, Live
<1>2. CallsLed'
  BY QueuesStay, LedStay DEF ConnInv, CallInv
<1>3. DOMAIN up' = Workers /\ \A w \in Workers : up'[w] = FALSE => up[w] = FALSE
  BY DEF ConnInv, ConnType
<1>4. ConnType'
  <2>1. ASSUME NEW w \in Workers
        PROVE  /\ ~up'[w] => conn[w] = NoConnection /\ running[w] = NoCall /\ cq[w] = <<>>
               /\ running[w].kind = "exchange" /\ local[w].done => conn[w] = running[w].cont
    BY <1>3 DEF ConnInv, ConnType
  <2> QED BY <1>3, <2>1 DEF ConnInv, ConnType
<1>5. ConnCurrent'
  BY CurrentStay DEF ConnInv
<1> QED BY <1>1, <1>2, <1>4, <1>5 DEF ConnInv

LEMMA ConnSend ==
    ASSUME RegInv, JobInv, CallInv, ConnInv, NEW c \in Range(m_Clients), NEW t \in todo, Send(c, t)
    PROVE  ConnInv'
<1>w. PICK w : w = c.addr
  OBVIOUS
<1>d. PICK d : d = CallFor(job, phase, t, intblobs)
  OBVIOUS
<1>1. w \in Workers
  <2>1. PICK i \in DOMAIN m_Clients : c = m_Clients[i]
    BY DEF Range
  <2>2. m_Clients \in Seq(Client)
    BY DEF RegInv, RegType
  <2>3. c \in Client
    BY <2>1, <2>2, LenProperties, ElementOfSeq
  <2> QED BY <1>w, <2>3 DEF Client, Addresses, Send, Reachable
<1>2. /\ Arrive(w, d) /\ results' = results /\ phase' = phase /\ job' = job
      /\ m_Clients' = m_Clients /\ up[w]
  BY <1>w, <1>d DEF Send, Arrive, Reachable, registryVars, updateVars
<1>3. phase \in Kinds
  BY TasksAre DEF CallInv, TasksSplit
<1>4. /\ d.kind = phase /\ d.job = job /\ d.task = t /\ d.live = TRUE /\ IsCall(d)
      /\ d.kind = "exchange" => d.cont = Container[d.job] /\ c.nodeid = t
  <2>1. phase # "idle"
    BY <1>3 DEF Kinds
  <2>2. job \in 1..MaxJobs
    BY <2>1, WorkerAssumption DEF JobInv
  <2> QED BY <1>d, <1>3, <2>2 DEF CallFor, IsCall, Send
<1>5. ASSUME NEW v \in Workers, NEW p \in Places, NEW e \in OpenAt(v, p) PROVE e.task # t
  BY DEF CallInv, CallsCurrent
<1>6. /\ \A v \in Workers \ {w}, p \in Places : OpenAt(v, p)' = OpenAt(v, p)
      /\ \E x \in Places :
             /\ OpenAt(w, x)' = OpenAt(w, x) \cup {e \in {d} : e.live}
             /\ \A p \in Places \ {x} : OpenAt(w, p)' = OpenAt(w, p)
  BY <1>1, <1>2, <1>4, <1>5, ArriveOpens DEF CallInv
<1>7. CallsLed'
  <2>1. ASSUME NEW v \in Workers, NEW p \in Places, NEW e \in OpenAt(v, p)'
        PROVE  e \in OpenAt(v, p) \/ (v = w /\ e = d)
    BY <1>6
  <2>2. ASSUME NEW v \in Workers, NEW p \in Places, NEW e \in OpenAt(v, p)'
        PROVE  /\ e.kind = "exchange" => e.cont = Container[e.job]
               /\ \E b \in Range(m_Clients) : b.addr = v /\ (e.kind = "exchange" => b.nodeid = e.task)
    <3>1. CASE e \in OpenAt(v, p)
      BY <3>1 DEF ConnInv, CallsLed
    <3>2. CASE v = w /\ e = d
      BY <1>w, <1>4, <3>2
    <3> QED BY <2>1, <3>1, <3>2
  <2> QED BY <1>2, <2>2 DEF CallsLed
<1>8. /\ up' = up /\ conn' = conn /\ local' = local /\ running' = running
      /\ DOMAIN cq = Workers /\ DOMAIN pending = Workers /\ DOMAIN pending[w] = Kinds
  BY <1>1, <1>2, QueuesOf DEF Arrive, CallInv, QueueType
<1>9. /\ \A v \in Workers \ {w} : cq'[v] = cq[v] /\ pending'[v] = pending[v]
      /\ cq'[w] = cq[w] \/ cq'[w] = Append(cq[w], d)
      /\ \A k \in Kinds : pending'[w][k] = pending[w][k] \/ pending'[w][k] = Append(pending[w][k], d)
  <2>k. PICK k : k = d.kind /\ k \in Kinds
    BY <1>3, <1>4
  <2>1. CASE d.kind \in armed[w]
    BY <1>1, <1>2, <1>8, <2>1 DEF Arrive
  <2>2. CASE d.kind \notin armed[w]
    <3>1. pending' = [pending EXCEPT ![w][k] = Append(@, d)] /\ cq' = cq
      BY <1>2, <2>k, <2>2 DEF Arrive
    <3> QED BY <1>1, <1>8, <2>k, <3>1
  <2> QED BY <2>1, <2>2
<1>10. AllLive'
  <2>1. /\ IsQueue(cq[w]) /\ Live(cq[w])
        /\ running[w] = NoCall \/ running[w].live
        /\ \A k \in Kinds : IsQueue(pending[w][k]) /\ Live(pending[w][k])
    BY <1>1, QueuesOf DEF ConnInv, CallInv, AllLive
  <2>2. Live(Append(cq[w], d)) /\ \A k \in Kinds : Live(Append(pending[w][k], d))
    BY <1>4, <2>1, LiveEnds
  <2>3. Live(cq'[w])
    BY <1>9, <2>1, <2>2
  <2>4. ASSUME NEW k \in Kinds PROVE Live(pending'[w][k])
    BY <1>9, <2>1, <2>2
  <2> QED BY <1>1, <1>8, <1>9, <2>1, <2>3, <2>4, LiveKeep DEF ConnInv
<1>11. ConnType'
  BY <1>2, <1>8, <1>9 DEF ConnInv, ConnType
<1>12. ConnCurrent'
  BY <1>2, <1>8, CurrentStay DEF ConnInv
<1> QED BY <1>7, <1>10, <1>11, <1>12 DEF ConnInv

LEMMA ConnTake ==
    ASSUME CallInv, ConnInv, NEW w \in Workers, Take(w),
           results' = results, phase' = phase, job' = job, m_Clients' = m_Clients
    PROVE  ConnInv'
<1>def. PICK q, h, k, r : q = cq[w] /\ h = Head(q) /\ k = h.kind /\ r = pending[w][k]
  OBVIOUS
<1>1. /\ DOMAIN running = Workers /\ DOMAIN cq = Workers /\ DOMAIN pending = Workers
      /\ DOMAIN pending[w] = Kinds /\ DOMAIN local = Workers
  BY QueuesOf DEF CallInv, QueueType, ConnInv, ConnType
<1>2. /\ q # <<>> /\ running' = [running EXCEPT ![w] = h]
      /\ local' = [local EXCEPT ![w] = NoFiles]
      /\ up' = up /\ conn' = conn
      /\ \/ r = <<>> /\ cq' = [cq EXCEPT ![w] = Tail(@)] /\ pending' = pending
         \/ /\ r # <<>>
            /\ cq' = [cq EXCEPT ![w] = Append(Tail(@), Head(r))]
            /\ pending' = [pending EXCEPT ![w][k] = Tail(@)]
  BY <1>def DEF Take, AddNextToCompletionQueue
<1>3. /\ IsQueue(q) /\ Live(q)
      /\ \A j \in Kinds : IsQueue(pending[w][j]) /\ Live(pending[w][j])
  BY <1>def, QueuesOf DEF CallInv, ConnInv, AllLive
<1>4. IsCall(h) /\ h.live /\ IsQueue(Tail(q)) /\ Live(Tail(q)) /\ k \in Kinds
  BY <1>def, <1>2, <1>3, QueueTail, LiveEnds DEF IsCall
<1>5. /\ \A v \in Workers \ {w} : /\ running'[v] = running[v] /\ cq'[v] = cq[v]
                                  /\ pending'[v] = pending[v] /\ local'[v] = local[v]
      /\ running'[w] = h /\ local'[w].done = FALSE
      /\ DOMAIN local' = Workers
  BY <1>1, <1>2 DEF NoFiles
<1>6. Live(cq'[w]) /\ \A j \in Kinds : Live(pending'[w][j])
  <2>1. CASE r = <<>>
    <3>1. cq'[w] = Tail(q) /\ pending' = pending
      BY <1>1, <1>2, <1>def, <2>1
    <3> QED BY <1>3, <1>4, <3>1
  <2>2. CASE r # <<>>
    <3>1. /\ cq'[w] = Append(Tail(q), Head(r)) /\ pending'[w][k] = Tail(r)
          /\ \A j \in Kinds \ {k} : pending'[w][j] = pending[w][j]
      BY <1>1, <1>2, <1>4, <1>def, <2>2
    <3>2. Live(Tail(r)) /\ Head(r).live
      BY <1>3, <1>4, <1>def, <2>2, LiveEnds
    <3>3. Live(Append(Tail(q), Head(r)))
      BY <1>4, <3>2, LiveEnds
    <3> QED BY <1>3, <3>1, <3>2, <3>3
  <2> QED BY <2>1, <2>2
<1>7. AllLive'
  BY <1>4, <1>5, <1>6, LiveKeep DEF ConnInv
<1>8. ConnType'
  <2>1. up[w]
    BY <1>2, <1>def DEF ConnInv, ConnType
  <2>2. ASSUME NEW v \in Workers
        PROVE  /\ ~up[v] => conn[v] = NoConnection /\ running'[v] = NoCall /\ cq'[v] = <<>>
               /\ running'[v].kind = "exchange" /\ local'[v].done => conn[v] = running'[v].cont
    <3>1. CASE v = w
      BY <1>5, <2>1, <3>1
    <3>2. CASE v # w
      BY <1>5, <3>2 DEF ConnInv, ConnType
    <3> QED BY <3>1, <3>2
  <2> QED BY <1>2, <1>5, <2>2 DEF ConnInv, ConnType
<1>9. CallsLed'
  <2>1. /\ \A v \in Workers \ {w}, p \in Places : OpenAt(v, p)' = OpenAt(v, p)
        /\ \E i, a, m :
               /\ i \in Kinds
               /\ OpenAt(w, "running")' = {c \in {a} : c.live}
               /\ OpenAt(w, "running") = {}
               /\ a.live => a \in OpenAt(w, "cq")
               /\ m.live => m \in OpenAt(w, i)
               /\ OpenAt(w, "cq")' = (OpenAt(w, "cq") \ {a}) \cup {c \in {m} : c.live}
               /\ OpenAt(w, i)' = OpenAt(w, i) \ {m}
               /\ \A p \in Kinds \ {i} : OpenAt(w, p)' = OpenAt(w, p)
    BY TakeMoves DEF CallInv
  <2>2. PICK i, a, m :
               /\ i \in Kinds
               /\ OpenAt(w, "running")' = {c \in {a} : c.live}
               /\ a.live => a \in OpenAt(w, "cq")
               /\ m.live => m \in OpenAt(w, i)
               /\ OpenAt(w, "cq")' = (OpenAt(w, "cq") \ {a}) \cup {c \in {m} : c.live}
               /\ OpenAt(w, i)' = OpenAt(w, i) \ {m}
               /\ \A p \in Kinds \ {i} : OpenAt(w, p)' = OpenAt(w, p)
    BY <2>1
  <2>3. Places = {"running", "cq"} \cup Kinds
    BY DEF Places
  <2>4. ASSUME NEW p \in Places, NEW e \in OpenAt(w, p)'
        PROVE  \E x \in Places : e \in OpenAt(w, x)
    <3>1. CASE p = "running"
      BY <2>2, <2>3, <3>1
    <3>2. CASE p = "cq"
      BY <2>2, <2>3, <3>2
    <3>3. CASE p \in Kinds
      BY <2>2, <2>3, <3>3, Zenon
    <3> QED BY <2>3, <3>1, <3>2, <3>3
  <2>5. ASSUME NEW v \in Workers, NEW p \in Places, NEW e \in OpenAt(v, p)'
        PROVE  \E x \in Places : e \in OpenAt(v, x)
    BY <2>1, <2>4
  <2> QED BY <2>5, LedStay DEF ConnInv
<1>10. ConnCurrent'
  BY <1>2, CurrentStay DEF ConnInv
<1> QED BY <1>7, <1>8, <1>9, <1>10 DEF ConnInv

\* The open call a worker is at.
LEMMA AtCall ==
    ASSUME CallInv, ConnInv, NEW w \in Workers, running[w] # NoCall
    PROVE  /\ running[w] \in OpenAt(w, "running") /\ "running" \in Places
           /\ running[w].kind = phase /\ running[w].job = job /\ phase \in Kinds
           /\ phase = "exchange" => running[w].cont = Container[job]
           /\ \E d \in Range(m_Clients) :
                  d.addr = w /\ (phase = "exchange" => d.nodeid = running[w].task)
<1>1. running[w].live /\ IsCall(running[w])
  BY QueuesOf DEF ConnInv, AllLive, CallInv
<1>2. running[w] \in OpenAt(w, "running") /\ "running" \in Places
  BY <1>1, PlaceIs
<1>3. running[w].kind = phase /\ running[w].job = job
  BY <1>2 DEF CallInv, CallsCurrent
<1>4. phase \in Kinds
  BY <1>1, <1>3 DEF IsCall
<1>5. /\ running[w].kind = "exchange" => running[w].cont = Container[running[w].job]
      /\ \E d \in Range(m_Clients) :
             d.addr = w /\ (running[w].kind = "exchange" => d.nodeid = running[w].task)
  BY <1>2 DEF ConnInv, CallsLed
<1> QED BY <1>2, <1>3, <1>4, <1>5

\* The thread works on a call.
LEMMA ConnWork ==
    ASSUME CallInv, ConnInv, NEW w \in Workers,
           \/ CreateConnection(w) \/ MapPiece(w) \/ AddIntermediateBlob(w)
           \/ PrepareData(w) \/ AddOutBlob(w),
           results' = results, phase' = phase, job' = job, m_Clients' = m_Clients
    PROVE  ConnInv'
<1>1. DOMAIN up = Workers /\ DOMAIN conn = Workers /\ DOMAIN local = Workers
  BY DEF ConnInv, ConnType
<1>2. /\ up' = up /\ running' = running /\ cq' = cq /\ pending' = pending
      /\ running[w].kind \in Kinds
      /\ running[w].kind # "exchange" => conn' = conn
      /\ conn' = conn \/ (conn' = [conn EXCEPT ![w] = running[w].cont] /\ running[w].kind = "exchange")
      /\ DOMAIN local' = Workers
      /\ \A v \in Workers \ {w} : local'[v] = local[v]
      /\ running[w].kind = "exchange" => conn' = [conn EXCEPT ![w] = running[w].cont]
  <2>1. CASE CreateConnection(w)
    BY <1>1, <2>1 DEF CreateConnection, NewConnection, Kinds
  <2>2. CASE MapPiece(w) \/ AddIntermediateBlob(w)
    <3>1. /\ up' = up /\ running' = running /\ cq' = cq /\ pending' = pending
          /\ running[w].kind = "map" /\ conn' = conn
      BY <2>2 DEF MapPiece, AddIntermediateBlob
    <3>2. DOMAIN local' = Workers /\ \A v \in Workers \ {w} : local'[v] = local[v]
      BY <1>1, <2>2 DEF MapPiece, AddIntermediateBlob
    <3> QED BY <3>1, <3>2 DEF Kinds
  <2>3. CASE PrepareData(w) \/ AddOutBlob(w)
    <3>1. /\ up' = up /\ running' = running /\ cq' = cq /\ pending' = pending
          /\ running[w].kind = "reduce" /\ conn' = conn
      BY <2>3 DEF PrepareData, AddOutBlob
    <3>2. DOMAIN local' = Workers /\ \A v \in Workers \ {w} : local'[v] = local[v]
      BY <1>1, <2>3 DEF PrepareData, AddOutBlob
    <3> QED BY <3>1, <3>2 DEF Kinds
  <2> QED BY <2>1, <2>2, <2>3
<1>3. running[w] # NoCall /\ up[w]
  BY <1>2 DEF NoCall, Kinds, ConnInv, ConnType
<1>4. /\ running[w].kind = phase
      /\ phase = "exchange" => running[w].cont = Container[job]
  BY <1>3, AtCall
<1>5. AllLive'
  BY <1>2 DEF ConnInv, AllLive, Live
<1>6. CallsLed'
  BY <1>2, QueuesStay, LedStay DEF ConnInv, CallInv
<1>7. /\ DOMAIN conn' = Workers /\ \A v \in Workers \ {w} : conn'[v] = conn[v]
      /\ running[w].kind = "exchange" => conn'[w] = running[w].cont
  BY <1>1, <1>2
<1>8. ConnType'
  <2>1. ASSUME NEW v \in Workers
        PROVE  /\ ~up[v] => conn'[v] = NoConnection /\ running[v] = NoCall /\ cq[v] = <<>>
               /\ running[v].kind = "exchange" /\ local'[v].done => conn'[v] = running[v].cont
    <3>1. CASE v = w
      BY <1>3, <1>7, <3>1
    <3>2. CASE v # w
      BY <1>2, <1>7, <3>2 DEF ConnInv, ConnType
    <3> QED BY <3>1, <3>2
  <2> QED BY <1>1, <1>2, <1>7, <2>1 DEF ConnType
<1>9. ConnCurrent'
  <2>1. \A v \in Workers : conn'[v] = conn[v] \/ conn'[v] \in {Container[job], NoConnection}
    BY <1>2, <1>4, <1>7
  <2> QED BY <2>1, CurrentStay DEF ConnInv
<1> QED BY <1>5, <1>6, <1>8, <1>9 DEF ConnInv

LEMMA ClientOf ==
    ASSUME RegInv, NEW c \in Range(m_Clients), NEW d \in Range(m_Clients), c.nodeid = d.nodeid
    PROVE  c = d
<1>1. PICK i \in DOMAIN m_Clients : c = m_Clients[i]
  BY DEF Range
<1>2. PICK j \in DOMAIN m_Clients : d = m_Clients[j]
  BY DEF Range
<1> QED BY <1>1, <1>2 DEF RegInv, ClientsOnce

LEMMA ConnAnswer ==
    ASSUME RegInv, CallInv, ConnInv, NEW w \in Workers, AnswerCall(w)
    PROVE  ConnInv'
<1>c. PICK c : c = running[w]
  OBVIOUS
<1>1. /\ DOMAIN running = Workers /\ DOMAIN local = Workers /\ DOMAIN conn = Workers
      /\ DOMAIN up = Workers
  BY DEF CallInv, QueueType, ConnInv, ConnType
<1>2. /\ c # NoCall /\ local[w].done
      /\ running' = [running EXCEPT ![w] = NoCall] /\ local' = [local EXCEPT ![w] = NoFiles]
      /\ up' = up /\ conn' = conn /\ cq' = cq /\ pending' = pending
      /\ phase' = phase /\ job' = job /\ m_Clients' = m_Clients
  BY <1>c DEF AnswerCall, Answer, WorkDone, registryVars, updateVars
<1>3. /\ c.kind = phase
      /\ phase = "exchange" => c.cont = Container[job]
      /\ \E d \in Range(m_Clients) : d.addr = w /\ (phase = "exchange" => d.nodeid = c.task)
  BY <1>c, <1>2, AtCall
<1>4. results' = results \cup {c.task}
  <2>1. c.live
    BY <1>c, <1>2 DEF ConnInv, AllLive
  <2> QED BY <1>c, <2>1 DEF AnswerCall, Accept
<1>5. phase = "exchange" => conn[w] = Container[job]
  BY <1>c, <1>2, <1>3 DEF ConnInv, ConnType
<1>6. /\ running'[w] = NoCall /\ DOMAIN local' = Workers
      /\ \A v \in Workers \ {w} : running'[v] = running[v] /\ local'[v] = local[v]
  BY <1>1, <1>2
<1>7. AllLive'
  <2>1. Live(cq[w]) /\ \A k \in Kinds : Live(pending[w][k])
    BY DEF ConnInv, AllLive
  <2> QED BY <1>2, <1>6, <2>1, LiveKeep DEF ConnInv
<1>8. ConnType'
  <2>1. ASSUME NEW v \in Workers
        PROVE  /\ ~up[v] => conn[v] = NoConnection /\ running'[v] = NoCall /\ cq[v] = <<>>
               /\ running'[v].kind = "exchange" /\ local'[v].done => conn[v] = running'[v].cont
    <3>1. CASE v = w
      BY <1>6, <3>1 DEF ConnInv, ConnType, NoCall
    <3>2. CASE v # w
      BY <1>6, <3>2 DEF ConnInv, ConnType
    <3> QED BY <3>1, <3>2
  <2> QED BY <1>1, <1>2, <1>6, <2>1 DEF ConnType
<1>9. CallsLed'
  <2>1. OpenAt(w, "running")' = {}
    BY <1>6, PlaceWillBe DEF NoCall
  <2>2. ASSUME NEW v \in Workers, NEW p \in Places, v # w \/ p # "running"
        PROVE  OpenAt(v, p)' = OpenAt(v, p)
    BY <1>2, <1>6, <2>2, PlaceSame
  <2>3. ASSUME NEW v \in Workers, NEW p \in Places, NEW e \in OpenAt(v, p)'
        PROVE  \E x \in Places : e \in OpenAt(v, x)
    BY <2>1, <2>2
  <2> QED BY <1>2, <2>3, LedStay DEF ConnInv
<1>10. ConnCurrent'
  <2>1. ASSUME NEW d \in Range(m_Clients), phase = "exchange", d.nodeid \in results' \ results
        PROVE  conn[d.addr] = Container[job]
    <3>1. d.nodeid = c.task
      BY <1>4, <2>1
    <3>2. PICK b \in Range(m_Clients) : b.addr = w /\ b.nodeid = c.task
      BY <1>3, <2>1
    <3>3. d = b
      BY <3>1, <3>2, ClientOf
    <3> QED BY <1>5, <2>1, <3>2, <3>3
  <2> QED BY <1>2, <2>1, CurrentStay DEF ConnInv
<1> QED BY <1>7, <1>8, <1>9, <1>10 DEF ConnInv

LEMMA ConnStop ==
    ASSUME RegInv, CallInv, ConnInv, NEW w \in Workers, Stop(w), FailCalls(LiveCallsAt(w)),
           m_Clients' = m_Clients
    PROVE  ConnInv'
<1>1. /\ DOMAIN running = Workers /\ DOMAIN local = Workers /\ DOMAIN conn = Workers
      /\ DOMAIN up = Workers /\ DOMAIN cq = Workers /\ DOMAIN pending = Workers
  BY DEF CallInv, QueueType, ConnInv, ConnType
<1>2. /\ running'[w] = NoCall /\ cq'[w] = <<>> /\ conn'[w] = NoConnection
      /\ \A k \in Kinds : pending'[w][k] = <<>>
      /\ DOMAIN up' = Workers /\ DOMAIN conn' = Workers /\ DOMAIN local' = Workers
      /\ \A v \in Workers \ {w} : /\ running'[v] = running[v] /\ cq'[v] = cq[v]
                                  /\ pending'[v] = pending[v] /\ conn'[v] = conn[v]
                                  /\ up'[v] = up[v] /\ local'[v] = local[v]
  BY <1>1 DEF Stop
<1>3. /\ phase' = phase /\ job' = job
      /\ results' = results \cup {c.task : c \in {x \in LiveCallsAt(w) : x.kind = "exchange"}}
  BY DEF FailCalls
<1>4. AllLive'
  <2>1. Live(<<>>)
    BY EmptyQueue DEF Live
  <2> QED BY <1>2, <2>1, LiveKeep DEF ConnInv
<1>5. ConnType'
  <2>1. ASSUME NEW v \in Workers
        PROVE  /\ ~up'[v] => conn'[v] = NoConnection /\ running'[v] = NoCall /\ cq'[v] = <<>>
               /\ running'[v].kind = "exchange" /\ local'[v].done => conn'[v] = running'[v].cont
    <3>1. CASE v = w
      BY <1>2, <3>1 DEF NoCall
    <3>2. CASE v # w
      BY <1>2, <3>2 DEF ConnInv, ConnType
    <3> QED BY <3>1, <3>2
  <2> QED BY <1>2, <2>1 DEF ConnType
<1>6. CallsLed'
  <2>1. /\ \A v \in Workers \ {w}, p \in Places : OpenAt(v, p)' = OpenAt(v, p)
        /\ \A p \in Places : OpenAt(w, p)' = {}
    BY StopCloses DEF CallInv
  <2>2. ASSUME NEW v \in Workers, NEW p \in Places, NEW e \in OpenAt(v, p)'
        PROVE  \E x \in Places : e \in OpenAt(v, x)
    BY <2>1
  <2> QED BY <2>2, LedStay DEF ConnInv
<1>7. ConnCurrent'
  <2>1. ASSUME NEW d \in Range(m_Clients), d.nodeid \in results' \ results
        PROVE  conn'[d.addr] = NoConnection
    <3>1. PICK c \in LiveCallsAt(w) : c.kind = "exchange" /\ c.task = d.nodeid
      BY <1>3, <2>1
    <3>2. PICK p \in Places : c \in OpenAt(w, p)
      BY LiveCallsAre DEF CallInv
    <3>3. PICK b \in Range(m_Clients) : b.addr = w /\ b.nodeid = c.task
      BY <3>1, <3>2 DEF ConnInv, CallsLed
    <3>4. d = b
      BY <3>1, <3>3, ClientOf
    <3> QED BY <1>2, <3>3, <3>4
  <2>2. \A v \in Workers : conn'[v] = conn[v] \/ conn'[v] \in {Container[job], NoConnection}
    BY <1>2
  <2> QED BY <1>3, <2>1, <2>2, CurrentStay DEF ConnInv
<1> QED BY <1>4, <1>5, <1>6, <1>7 DEF ConnInv

LEMMA ConnNext ==
    ASSUME Punctual
    PROVE  RegInv /\ JobInv /\ CallInv /\ ConnInv /\ [Next]_vars => ConnInv'
<1> SUFFICES ASSUME RegInv, JobInv, CallInv, ConnInv, [Next]_vars PROVE ConnInv'
  OBVIOUS
<1>1. CASE MasterStep
  <2>1. CASE \/ StartJob \/ EndUpdate \/ RejectJob \/ EndPhase
             \/ phase = "update" /\ (\E z \in unread : AddWorker(z)) /\ UNCHANGED masterVars
    BY <2>1, ConnPhase
  <2>2. ASSUME NEW c \in Range(m_Clients), ExchangeUnreachable(c) PROVE ConnInv'
    <3>1. /\ up' = up /\ conn' = conn /\ local' = local /\ running' = running /\ cq' = cq
          /\ pending' = pending /\ m_Clients' = m_Clients /\ phase' = phase /\ job' = job
          /\ results' = results \cup {c.nodeid} /\ ~Reachable(c)
      BY <2>2 DEF ExchangeUnreachable, Fault, Punctual, workerVars, registryVars, updateVars
    <3>2. ASSUME NEW d \in Range(m_Clients), d.addr \in Workers, d.nodeid \in results' \ results
          PROVE  conn[d.addr] = NoConnection
      <4>1. d = c
        BY <3>1, <3>2, ClientOf
      <4>2. d.addr # NoAddress => ~up[d.addr]
        BY <3>1, <4>1 DEF Reachable
      <4> QED BY <3>2, <4>2, RegistryAssumption DEF ConnInv, ConnType
    <3> QED BY <3>1, <3>2, ConnUnmoved
  <2>3. ASSUME NEW c \in Range(m_Clients), HeartbeatOk(c) \/ HeartbeatFails(c) PROVE ConnInv'
    <3>1. /\ up' = up /\ conn' = conn /\ local' = local /\ running' = running /\ cq' = cq
          /\ pending' = pending /\ m_Clients' = m_Clients /\ phase' = phase /\ job' = job
          /\ results' = results
      BY <2>3 DEF HeartbeatOk, HeartbeatFails, PingExpires, workerVars, registryVars, updateVars
    <3> QED BY <3>1, ConnUnmoved
  <2>4. ASSUME NEW c \in Range(m_Clients), NEW t \in todo, Send(c, t) PROVE ConnInv'
    BY <2>4, ConnSend
  <2> QED BY <1>1, <2>1, <2>2, <2>3, <2>4 DEF MasterStep
<1>2. ASSUME NEW w \in Workers, WorkerStep(w) PROVE ConnInv'
  <2>1. CASE Work(w) /\ UNCHANGED <<registryVars, masterVars>>
    <3>1. /\ m_Clients' = m_Clients /\ phase' = phase /\ job' = job /\ results' = results
      BY <2>1 DEF registryVars, updateVars, masterVars
    <3>2. CASE TakeCall(w)
      BY <3>1, <3>2, ConnTake DEF TakeCall
    <3>3. CASE ~TakeCall(w)
      BY <2>1, <3>1, <3>3, ConnWork DEF Work
    <3> QED BY <3>2, <3>3
  <2>2. CASE AnswerCall(w)
    BY <2>2, ConnAnswer
  <2>3. CASE WorkerStops(w)
    <3>1. Stop(w) /\ FailCalls(LiveCallsAt(w)) /\ m_Clients' = m_Clients
      BY <2>3 DEF WorkerStops, EnterFailState, LeaveLoop, UseNoConnection, CloseSession, LeaveNode, updateVars
    <3> QED BY <3>1, ConnStop
  <2>4. CASE Register(w) /\ UNCHANGED masterVars
    <3>1. /\ conn' = conn /\ local' = local /\ running' = running /\ cq' = cq
          /\ pending' = pending /\ m_Clients' = m_Clients /\ phase' = phase /\ job' = job
          /\ results' = results
          /\ up' = up \/ \E v \in Workers : up' = [up EXCEPT ![v] = TRUE]
      BY <2>4 DEF Register, RegisterWithZk, RegisterAddressWithZk, RunServer,
                  workerVars, updateVars, masterVars
    <3> QED BY <3>1, ConnUnmoved
  <2> QED BY <1>2, <2>1, <2>2, <2>3, <2>4 DEF WorkerStep
<1>3. ASSUME NEW w \in Workers, Crash(w) PROVE ConnInv'
  <2>1. Stop(w) /\ FailCalls(LiveCallsAt(w)) /\ m_Clients' = m_Clients
    BY <1>3 DEF Crash, LeaveNode, updateVars
  <2> QED BY <2>1, ConnStop
<1>4. ASSUME NEW w \in Workers, NEW c \in LiveCallsAt(w), Expire(w, c) PROVE ConnInv'
  BY <1>4 DEF Expire, Fault, Punctual
<1>5. CASE (\E z \in DOMAIN znodes : SessionExpires(z)) /\ UNCHANGED masterVars
  <2>1. /\ up' = up /\ conn' = conn /\ local' = local /\ running' = running /\ cq' = cq
        /\ pending' = pending /\ m_Clients' = m_Clients /\ phase' = phase /\ job' = job
        /\ results' = results
    BY <1>5 DEF SessionExpires, workerVars, updateVars, masterVars
  <2> QED BY <2>1, ConnUnmoved
<1>6. CASE TakeOver
  BY <1>6 DEF TakeOver, Punctual
<1>7. ASSUME NEW w \in Workers, StraySend(w) PROVE ConnInv'
  BY <1>7 DEF StraySend, Fault, Punctual
<1>8. CASE UNCHANGED vars
  <2>1. /\ up' = up /\ conn' = conn /\ local' = local /\ running' = running /\ cq' = cq
        /\ pending' = pending /\ m_Clients' = m_Clients /\ phase' = phase /\ job' = job
        /\ results' = results
    BY <1>8 DEF vars, workerVars, registryVars, updateVars, masterVars
  <2> QED BY <2>1, ConnUnmoved
<1> QED BY <1>1, <1>2, <1>3, <1>4, <1>5, <1>6, <1>7, <1>8 DEF Next, ZooKeeperStep

\* While no call is late and no leader is replaced, no task is handled in the
\* connection of another job: whatever workers join, crash and come back between the
\* jobs and during them, and however their nodes linger.
THEOREM ConnectionsCorrect ==
    ASSUME Punctual
    PROVE  Spec => []TaskHasConnection
<1>1. RegInv /\ CallInv /\ ConnInv => TaskHasConnection
  <2> SUFFICES ASSUME RegInv, CallInv, ConnInv, NEW w \in Workers,
                      running[w].kind \in {"map", "reduce"}
               PROVE  conn[w] \in {Container[running[w].job], NoConnection}
    BY DEF TaskHasConnection
  <2>1. running[w] # NoCall
    BY DEF NoCall
  <2>2. /\ running[w].kind = phase /\ running[w].job = job
        /\ \E d \in Range(m_Clients) : d.addr = w
    BY <2>1, AtCall
  <2> QED BY <2>2 DEF ConnInv, ConnCurrent, Working
<1>2. RegInv /\ JobInv /\ CallInv /\ ConnInv /\ [Next]_vars => (RegInv /\ JobInv /\ CallInv /\ ConnInv)'
  BY RegNext, JobNext, CallNext, ConnNext
<1> QED BY <1>1, <1>2, RegInit, JobInit, CallInit, ConnInit, PTL DEF Spec

--------------------------------------------------------------------------------
(* The data of a job, from the pieces to the output.                           *)

\* Files are read and scripts run without errors, and no call of another job is left
\* over: there is one job, or no call outlives its deadline or its leader.
Undisturbed == StorageFails = FALSE /\ (MaxJobs = 1 \/ Punctual)

\* A worker has no calls.
Quiet(w) == running[w] = NoCall /\ cq[w] = <<>> /\ \A k \in Kinds : pending[w][k] = <<>>

\* A task is handled in the container of its job or in none, and nothing is left of a
\* job when another one starts.
TasksHere ==
    /\ \A w \in Workers :
           running[w].kind \in {"map", "reduce"} =>
               running[w].job = job /\ conn[w] \in {Container[job], NoConnection}
    /\ phase = "idle" /\ job < MaxJobs =>
           old = {} /\ \A w \in Workers : Quiet(w)

\* With one job: the workers are connected to its container or to none, and have no calls
\* before it starts.
SoloInv ==
    /\ DOMAIN conn = Workers
    /\ \A w \in Workers : conn[w] \in {Container[1], NoConnection}
    /\ job = 0 => \A w \in Workers : Quiet(w)

\* An intermediate blob of the job holds its piece.
BlobsTrue ==
    job # 0 => \A n \in DOMAIN storage :
           n[1] = "int" /\ n[2] = Container[job] => storage[n] = {<<job, n[4], n[5]>>}

\* The blobs that a map task at worker w has written.
Written(w) ==
    {x \in (1..NPieces) \X Reducers :
        \/ local[w].done
        \/ x[1] < local[w].piece
        \/ (x[1] = local[w].piece /\ x[2] < local[w].file)}

\* It works on its pieces one after the other, in the container of its job once it has
\* started, and what it has written is there.
MapTrue(w) ==
    /\ DOMAIN local[w] = {"piece", "file", "data", "done"}
    /\ local[w].piece \in 1..NPieces
    /\ local[w].file \in 0..NReducers
    /\ local[w].file > 0 => local[w].data = {<<job, running[w].task, local[w].piece>>}
    /\ local[w].file > 0 \/ local[w].piece > 1 \/ local[w].done => conn[w] = Container[job]
    /\ \A x \in Written(w) :
           IntBlob(Container[job], w, running[w].task, x[1], x[2]) \in DOMAIN storage

MapsTrue ==
    /\ DOMAIN local = Workers /\ DOMAIN conn = Workers
    /\ \A w \in Workers : running[w].kind = "map" => MapTrue(w)

IntName(c) == {IntBlob(c, w, s, p, r) : w \in Workers, s \in Shards, p \in 1..NPieces, r \in Reducers}

\* list names no piece twice for one partition, and every piece of a shard it names.
NoneTwice(list) ==
    \A i, j \in 1..Len(list) :
        list[i][4] = list[j][4] /\ list[i][5] = list[j][5] /\ list[i][6] = list[j][6] => i = j
WholeShards(list) ==
    \A i \in 1..Len(list), p \in 1..NPieces, r \in Reducers :
        \E j \in 1..Len(list) : list[j][4] = list[i][4] /\ list[j][5] = p /\ list[j][6] = r

Block == NPieces * NReducers

\* The blobs of a shard stay together, so a checkpoint has all of them or none.
InBlocks(list) ==
    /\ Len(list) = Cardinality(MappedIn(list)) * Block
    /\ \A i, j \in 1..Len(list), m \in Nat :
           list[i][4] = list[j][4] /\ i <= m * Block => j <= m * Block

InUse == phase \in {"map", "reduce"} \/ (resumed /\ phase \in {"update", "exchange"})

\* A list of blobs that are in storage, with every piece of each shard once.
GoodList(list) ==
    /\ list \in Seq(IntName(Container[job]) \cap DOMAIN storage)
    /\ NoneTwice(list)
    /\ WholeShards(list)

ListTrue ==
    /\ InUse => GoodList(intblobs)
    /\ phase = "map" => results = MappedIn(intblobs)
    /\ phase = "reduce" => MappedIn(intblobs) = Shards
    /\ phase \in {"map", "reduce"} /\ ~resumed => InBlocks(intblobs)
    /\ job = 0 \/ (job = 1 /\ ~resumed /\ phase \in {"update", "exchange"}) => intblobs = <<>>

\* The int blobs of the job that are in storage.
Stored == IntName(Container[job]) \cap DOMAIN storage

\* A list has every piece of the input.
Whole(list) ==
    \A s \in Shards, p \in 1..NPieces :
        \E i \in 1..Len(list) : list[i][4] = s /\ list[i][5] = p

\* A reduce call names blobs among those of S, with every piece of the input.
Fed(c, S) == c.kind = "reduce" => c.blobs \in Seq(S) /\ Whole(c.blobs)
AllFed(q, S) == \A i \in 1..Len(q) : Fed(q[i], S)
CallsFed(S) ==
    \A w \in Workers : /\ Fed(running[w], S) /\ AllFed(cq[w], S)
                        /\ \A k \in Kinds : AllFed(pending[w][k], S)

\* So will those of a leader that was replaced, if it reduces.
OldFed(S) ==
    \A o \in old : o.blobs # <<>> =>
        \A r \in Reducers : BlobsFor(r, o.blobs) \in Seq(S) /\ Whole(BlobsFor(r, o.blobs))

\* A reduce task has read its blobs up to one of them, and its output is there when
\* it is done.
ReduceTrue(w) ==
    LET b == running[w].blobs IN
    /\ DOMAIN local[w] = {"piece", "file", "data", "done"}
    /\ local[w].piece \in 1..Len(b) + 1
    /\ local[w].data = {<<job, b[i][4], b[i][5]>> : i \in 1..local[w].piece - 1}
    /\ local[w].done => OutBlob(Container[job], running[w].task) \in DOMAIN storage

ReducesTrue == \A w \in Workers : running[w].kind = "reduce" => ReduceTrue(w)

\* An out blob of the job holds all of its input.
OutHolds ==
    job # 0 => \A n \in DOMAIN storage :
        n[1] = "out" /\ n[2] = Container[job] => storage[n] = InputOf(job)

\* A partition that counts as reduced has one.
OutThere ==
    phase = "reduce" => \A r \in results : OutBlob(Container[job], r) \in DOMAIN storage

--------------------------------------------------------------------------------
(* Arithmetic, and the names of the blobs of a shard.                          *)

LEMMA TimesOrder ==
    \A a, b \in Nat, c \in Nat \ {0} : /\ a * c \in Nat
                                       /\ a <= b => a * c <= b * c
                                       /\ a < b => a * c + c <= b * c
                                       /\ (a + 1) * c = a * c + c
<1>1. \A a \in Nat, c \in Nat : a * c \in Nat /\ (a + 1) * c = a * c + c
  OBVIOUS
<1>2. ASSUME NEW a \in Nat, NEW b \in Nat, NEW c \in Nat \ {0}, a <= b PROVE a * c <= b * c
  <2>1. PICK d \in Nat : b = a + d
    <3>1. b - a \in Nat /\ b = a + (b - a)
      BY <1>2
    <3> QED BY <3>1
  <2>2. b * c = a * c + d * c /\ a * c \in Nat /\ d * c \in Nat
    BY <1>1, <2>1
  <2> QED BY <2>2
<1>3. ASSUME NEW a \in Nat, NEW b \in Nat, NEW c \in Nat \ {0}, a < b PROVE a * c + c <= b * c
  <2>1. a + 1 \in Nat /\ a + 1 <= b
    BY <1>3
  <2>2. (a + 1) * c <= b * c
    BY <1>2, <2>1
  <2> QED BY <1>1, <2>2
<1> QED BY <1>1, <1>2, <1>3

\* A number and its quotient and remainder.
LEMMA DivMod ==
    ASSUME NEW a \in Nat, NEW c \in Nat \ {0}
    PROVE  a \div c \in Nat /\ (a % c) \in 0..c - 1 /\ a = (a \div c) * c + (a % c)
OBVIOUS

\* ... which nothing else is.
LEMMA DivModOnce ==
    ASSUME NEW c \in Nat \ {0}, NEW q \in Nat, NEW h \in Nat, NEW r \in 0..c - 1, NEW s \in 0..c - 1,
           q * c + r = h * c + s
    PROVE  q = h /\ r = s
<1>1. q * c \in Nat /\ h * c \in Nat
  BY TimesOrder
<1>2. ~(q < h)
  <2>1. q < h => q * c + c <= h * c
    BY TimesOrder
  <2> QED BY <1>1, <2>1
<1>3. ~(h < q)
  <2>1. h < q => h * c + c <= q * c
    BY TimesOrder
  <2> QED BY <1>1, <2>1
<1>4. q = h
  BY <1>2, <1>3
<1> QED BY <1>1, <1>4

\* The sizes are positive.
LEMMA Sizes ==
    /\ NPieces \in Nat \ {0} /\ NReducers \in Nat \ {0} /\ NShards \in Nat \ {0} /\ MaxJobs \in Nat \ {0}
    /\ Block \in Nat \ {0}
<1>1. NPieces \in Nat \ {0} /\ NReducers \in Nat \ {0} /\ NShards \in Nat \ {0} /\ MaxJobs \in Nat \ {0}
  BY WorkerAssumption
<1>2. NPieces * NReducers \in Nat /\ 0 * NReducers + NReducers <= NPieces * NReducers
  BY <1>1, TimesOrder
<1> QED BY <1>1, <1>2 DEF Block

\* The place of a piece and a partition among the blobs of a shard.
Place(p, r) == (p - 1) * NReducers + r

\* Different ones have different places, and every place is one's.
LEMMA PlacesAre ==
    /\ \A p \in 1..NPieces, r \in Reducers :
           /\ Place(p, r) \in 1..Block
           /\ 1 + ((Place(p, r) - 1) \div NReducers) = p
           /\ 1 + ((Place(p, r) - 1) % NReducers) = r
    /\ \A i \in 1..Block :
           /\ 1 + ((i - 1) \div NReducers) \in 1..NPieces
           /\ 1 + ((i - 1) % NReducers) \in Reducers
           /\ i = Place(1 + ((i - 1) \div NReducers), 1 + ((i - 1) % NReducers))
<1>0. NPieces \in Nat \ {0} /\ NReducers \in Nat \ {0} /\ Block \in Nat /\ Block = NPieces * NReducers
  BY Sizes DEF Block
<1>1. ASSUME NEW p \in 1..NPieces, NEW r \in Reducers
      PROVE  /\ Place(p, r) \in 1..Block
             /\ 1 + ((Place(p, r) - 1) \div NReducers) = p
             /\ 1 + ((Place(p, r) - 1) % NReducers) = r
  <2>1. p - 1 \in Nat /\ p - 1 < NPieces /\ r - 1 \in 0..NReducers - 1
    BY <1>0 DEF Reducers
  <2>2. (p - 1) * NReducers \in Nat /\ (p - 1) * NReducers + NReducers <= Block
    BY <1>0, <2>1, TimesOrder
  <2>3. Place(p, r) \in 1..Block /\ Place(p, r) - 1 = (p - 1) * NReducers + (r - 1)
    BY <1>0, <2>1, <2>2 DEF Place, Reducers
  <2>4. PICK a \in Nat : a = Place(p, r) - 1
    BY <1>0, <2>3
  <2>5. /\ a \div NReducers \in Nat /\ (a % NReducers) \in 0..NReducers - 1
        /\ a = (a \div NReducers) * NReducers + (a % NReducers)
    BY <1>0, DivMod
  <2>6. a \div NReducers = p - 1 /\ (a % NReducers) = r - 1
    <3>1. PICK q \in Nat, m \in 0..NReducers - 1 :
              q = a \div NReducers /\ m = (a % NReducers) /\ a = q * NReducers + m
      BY <2>5
    <3>2. PICK h \in Nat, k \in 0..NReducers - 1 :
              h = p - 1 /\ k = r - 1 /\ a = h * NReducers + k
      BY <2>1, <2>3, <2>4
    <3>3. q = h /\ m = k
      <4>1. q * NReducers + m = h * NReducers + k
        BY <3>1, <3>2, Zenon
      <4>2. q \in Nat /\ h \in Nat /\ m \in 0..NReducers - 1 /\ k \in 0..NReducers - 1
        BY <3>1, <3>2, Zenon
      <4> QED BY <1>0, <4>1, <4>2, DivModOnce
    <3> QED BY <3>1, <3>2, <3>3
  <2>7. 1 + (p - 1) = p /\ 1 + (r - 1) = r
    BY <1>0 DEF Reducers
  <2> QED BY <2>3, <2>4, <2>6, <2>7
<1>2. ASSUME NEW i \in 1..Block
      PROVE  /\ 1 + ((i - 1) \div NReducers) \in 1..NPieces
             /\ 1 + ((i - 1) % NReducers) \in Reducers
             /\ i = Place(1 + ((i - 1) \div NReducers), 1 + ((i - 1) % NReducers))
  <2>1. PICK a \in Nat : a = i - 1 /\ a < Block
    BY <1>0
  <2>2. PICK q \in Nat, m \in 0..NReducers - 1 :
            q = a \div NReducers /\ m = (a % NReducers) /\ a = q * NReducers + m
    BY <1>0, DivMod
  <2>3. q < NPieces
    <3>1. CASE NPieces <= q
      <4>1. NPieces * NReducers <= q * NReducers /\ q * NReducers \in Nat
        BY <1>0, <3>1, TimesOrder
      <4> QED BY <1>0, <2>1, <2>2, <4>1
    <3> QED BY <1>0, <3>1
  <2>4. 1 + q \in 1..NPieces /\ 1 + m \in Reducers
    BY <1>0, <2>3 DEF Reducers
  <2>5. i = Place(1 + q, 1 + m)
    <3>1. (1 + q) - 1 = q /\ q * NReducers \in Nat
      BY <1>0, TimesOrder
    <3>2. i = q * NReducers + (1 + m)
      BY <1>0, <2>1, <2>2, <3>1
    <3> QED BY <3>1, <3>2 DEF Place
  <2> QED BY <2>1, <2>2, <2>4, <2>5
<1> QED BY <1>1, <1>2

\* The blobs an answer names: each piece of the shard once for each partition.
IsShard(b, s) ==
    /\ Len(b) = Block
    /\ \A i \in 1..Block : b[i][4] = s /\ i = Place(b[i][5], b[i][6])
    /\ \A p \in 1..NPieces, r \in Reducers :
           Place(p, r) \in 1..Block /\ b[Place(p, r)][5] = p /\ b[Place(p, r)][6] = r

\* They are where the worker wrote them.
LEMMA BlobsAre ==
    ASSUME NEW w, NEW s, NEW S,
           \A p \in 1..NPieces, r \in Reducers : IntBlob(conn[w], w, s, p, r) \in S
    PROVE  BlobsOf(w, s) \in Seq(S) /\ IsShard(BlobsOf(w, s), s)
<1>0. Block \in Nat /\ Block = NPieces * NReducers
  BY Sizes DEF Block
<1>1. PICK b : b = BlobsOf(w, s)
  OBVIOUS
<1>2. b = [i \in 1..Block |-> IntBlob(conn[w], w, s, 1 + ((i - 1) \div NReducers), 1 + ((i - 1) % NReducers))]
  BY <1>0, <1>1, Zenon DEF BlobsOf
<1>3. ASSUME NEW i \in 1..Block
      PROVE  /\ b[i] \in S /\ b[i][4] = s
             /\ b[i][5] = 1 + ((i - 1) \div NReducers) /\ b[i][6] = 1 + ((i - 1) % NReducers)
  <2>1. PICK p, r : p = 1 + ((i - 1) \div NReducers) /\ r = 1 + ((i - 1) % NReducers)
    OBVIOUS
  <2>2. p \in 1..NPieces /\ r \in Reducers
    BY <2>1, PlacesAre, Zenon
  <2>3. b[i] = IntBlob(conn[w], w, s, p, r)
    BY <1>2, <2>1, Zenon
  <2>4. b[i][4] = s /\ b[i][5] = p /\ b[i][6] = r
    BY <2>3 DEF IntBlob
  <2> QED BY <2>1, <2>2, <2>3, <2>4, Zenon
<1>4. b \in Seq(S) /\ Len(b) = Block
  <2>1. b \in [1..Block -> S]
    BY <1>2, <1>3
  <2> QED BY <1>0, <2>1, SeqDef, LenProperties
<1>5. ASSUME NEW i \in 1..Block PROVE i = Place(b[i][5], b[i][6])
  <2>1. b[i][5] = 1 + ((i - 1) \div NReducers) /\ b[i][6] = 1 + ((i - 1) % NReducers)
    BY <1>3, Zenon
  <2>2. i = Place(1 + ((i - 1) \div NReducers), 1 + ((i - 1) % NReducers))
    BY PlacesAre, Zenon
  <2> QED BY <2>1, <2>2, Zenon
<1>6. ASSUME NEW p \in 1..NPieces, NEW r \in Reducers
      PROVE  Place(p, r) \in 1..Block /\ b[Place(p, r)][5] = p /\ b[Place(p, r)][6] = r
  <2>1. Place(p, r) \in 1..Block
    BY PlacesAre, Zenon
  <2>2. b[Place(p, r)][5] = 1 + ((Place(p, r) - 1) \div NReducers) /\ b[Place(p, r)][6] = 1 + ((Place(p, r) - 1) % NReducers)
    BY <1>3, <2>1, Zenon
  <2>3. 1 + ((Place(p, r) - 1) \div NReducers) = p /\ 1 + ((Place(p, r) - 1) % NReducers) = r
    BY PlacesAre, Zenon
  <2> QED BY <2>1, <2>2, <2>3, Zenon
<1>7. IsShard(b, s)
  BY <1>3, <1>4, <1>5, <1>6, Zenon DEF IsShard
<1> QED BY <1>1, <1>4, <1>7

\* The list without the new shard, with the blobs of that shard at its end.
LEMMA ListGrows ==
    ASSUME NEW S, NEW list \in Seq(S), NEW b \in Seq(S), NEW s, IsShard(b, s),
           s \notin MappedIn(list), IsFiniteSet(MappedIn(list)),
           NoneTwice(list), WholeShards(list)
    PROVE  /\ list \o b \in Seq(S) /\ NoneTwice(list \o b) /\ WholeShards(list \o b)
           /\ MappedIn(list \o b) = MappedIn(list) \cup {s}
           /\ InBlocks(list) => InBlocks(list \o b)
<1> DEFINE l == Len(list)
<1>c. PICK c : c = list \o b
  OBVIOUS
<1>0. l \in Nat /\ Block \in Nat \ {0} /\ NPieces \in Nat \ {0} /\ NReducers \in Nat \ {0} /\ Len(b) = Block
  BY Sizes, LenProperties DEF IsShard
<1>1. /\ c \in Seq(S) /\ Len(c) = l + Block
      /\ \A i \in 1..l : c[i] = list[i]
      /\ \A i \in 1..Block : c[l + i] = b[i]
  <2>1. /\ c \in Seq(S) /\ Len(c) = Len(list) + Len(b)
        /\ \A i \in 1..Len(list) + Len(b) :
               c[i] = IF i <= Len(list) THEN list[i] ELSE b[i - Len(list)]
    BY <1>c, ConcatProperties
  <2>2. ASSUME NEW i \in 1..l PROVE c[i] = list[i]
    <3>1. i \in 1..Len(list) + Len(b) /\ i <= Len(list)
      BY <1>0
    <3> QED BY <2>1, <3>1
  <2>3. ASSUME NEW i \in 1..Block PROVE c[l + i] = b[i]
    <3>1. l + i \in 1..Len(list) + Len(b) /\ ~(l + i <= Len(list)) /\ (l + i) - Len(list) = i
      BY <1>0
    <3>2. c[l + i] = b[(l + i) - Len(list)]
      <4> HIDE DEF l
      <4> QED BY <2>1, <3>1
    <3> QED BY <3>1, <3>2, Zenon
  <2> QED BY <1>0, <2>1, <2>2, <2>3
<1>2. DOMAIN list = 1..l /\ DOMAIN c = 1..l + Block
  BY <1>1, LenProperties
<1> HIDE DEF l
<1>3. \A i \in 1..l : list[i][4] # s
  BY <1>2 DEF MappedIn, Range
<1>4. \A i \in 1..l + Block : i \notin 1..l => i - l \in 1..Block /\ i = l + (i - l)
  BY <1>0
<1>5. ASSUME NEW i \in 1..l + Block, i \notin 1..l
      PROVE  i - l \in 1..Block /\ c[i] = b[i - l] /\ c[i][4] = s
  BY <1>1, <1>4, <1>5 DEF IsShard
<1>6. NoneTwice(c)
  <2>1. ASSUME NEW i \in 1..l + Block, NEW j \in 1..l + Block,
               c[i][4] = c[j][4] /\ c[i][5] = c[j][5] /\ c[i][6] = c[j][6]
        PROVE  i = j
    <3>1. CASE i \in 1..l /\ j \in 1..l
      BY <1>1, <2>1, <3>1 DEF NoneTwice, l
    <3>2. CASE i \notin 1..l /\ j \notin 1..l
      <4>1. i - l = j - l
        BY <1>5, <2>1, <3>2 DEF IsShard
      <4> QED BY <1>0, <4>1
    <3>3. CASE (i \in 1..l /\ j \notin 1..l) \/ (i \notin 1..l /\ j \in 1..l)
      BY <1>1, <1>3, <1>5, <2>1, <3>3
    <3> QED BY <3>1, <3>2, <3>3
  <2> QED BY <1>1, <2>1 DEF NoneTwice
<1>7. WholeShards(c)
  <2>1. ASSUME NEW i \in 1..l + Block, NEW p \in 1..NPieces, NEW r \in Reducers
        PROVE  \E j \in 1..l + Block : c[j][4] = c[i][4] /\ c[j][5] = p /\ c[j][6] = r
    <3>1. CASE i \in 1..l
      <4>1. PICK j \in 1..l : list[j][4] = list[i][4] /\ list[j][5] = p /\ list[j][6] = r
        BY <3>1 DEF WholeShards, l
      <4>2. j \in 1..l + Block
        BY <1>0
      <4> QED BY <1>1, <3>1, <4>1, <4>2
    <3>2. CASE i \notin 1..l
      <4>1. PICK k \in 1..Block : b[k][4] = s /\ b[k][5] = p /\ b[k][6] = r
        <5>1. Place(p, r) \in 1..Block /\ b[Place(p, r)][5] = p /\ b[Place(p, r)][6] = r
          BY DEF IsShard
        <5>2. b[Place(p, r)][4] = s
          BY <5>1 DEF IsShard
        <5> QED BY <5>1, <5>2
      <4>2. l + k \in 1..l + Block /\ c[l + k] = b[k]
        BY <1>0, <1>1
      <4> QED BY <1>5, <3>2, <4>1, <4>2
    <3> QED BY <3>1, <3>2
  <2> QED BY <1>1, <2>1 DEF WholeShards
<1>8. MappedIn(c) = MappedIn(list) \cup {s}
  <2>1. ASSUME NEW x \in MappedIn(c) PROVE x \in MappedIn(list) \cup {s}
    <3>1. PICK i \in 1..l + Block : x = c[i][4]
      BY <1>2 DEF MappedIn, Range
    <3>2. CASE i \in 1..l
      BY <1>1, <1>2, <3>1, <3>2 DEF MappedIn, Range
    <3>3. CASE i \notin 1..l
      BY <1>5, <3>1, <3>3
    <3> QED BY <3>2, <3>3
  <2>2. ASSUME NEW x \in MappedIn(list) PROVE x \in MappedIn(c)
    <3>1. PICK i \in 1..l : x = list[i][4]
      BY <1>2 DEF MappedIn, Range
    <3>2. i \in 1..l + Block /\ c[i] = list[i]
      BY <1>0, <1>1
    <3> QED BY <1>2, <3>1, <3>2 DEF MappedIn, Range
  <2>3. s \in MappedIn(c)
    <3>1. l + 1 \in 1..l + Block /\ l + 1 \notin 1..l
      BY <1>0
    <3>2. c[l + 1][4] = s
      BY <1>5, <3>1
    <3> QED BY <1>2, <3>1, <3>2 DEF MappedIn, Range
  <2> QED BY <2>1, <2>2, <2>3
<1>9. ASSUME InBlocks(list) PROVE InBlocks(c)
  <2>1. PICK n \in Nat : n = Cardinality(MappedIn(list)) /\ Cardinality(MappedIn(c)) = n + 1
    BY <1>8, FS_CardinalityType, FS_AddElement
  <2>2. l = n * Block
    BY <1>9, <2>1 DEF InBlocks, l
  <2>3. Len(c) = (n + 1) * Block
    BY <1>0, <1>1, <2>2, TimesOrder
  <2>4. ASSUME NEW i \in 1..l + Block, NEW j \in 1..l + Block, NEW m \in Nat,
               c[i][4] = c[j][4], i <= m * Block
        PROVE  j <= m * Block
    <3>0. m * Block \in Nat
      BY <1>0, TimesOrder
    <3>1. CASE i \in 1..l /\ j \in 1..l
      BY <1>1, <1>9, <2>4, <3>1 DEF InBlocks, l
    <3>2. CASE i \notin 1..l
      <4>1. i > n * Block
        BY <1>0, <2>2, <3>2
      <4>2. n < m
        <5>1. m <= n => m * Block <= n * Block
          BY <1>0, TimesOrder
        <5> QED BY <1>0, <2>2, <2>4, <3>0, <4>1, <5>1
      <4>3. n * Block + Block <= m * Block
        BY <1>0, <4>2, TimesOrder
      <4> QED BY <1>0, <2>2, <3>0, <4>3
    <3>3. CASE i \in 1..l /\ j \notin 1..l
      BY <1>1, <1>3, <1>5, <2>4, <3>3
    <3> QED BY <3>1, <3>2, <3>3
  <2> QED BY <1>1, <2>1, <2>3, <2>4 DEF InBlocks
<1> QED BY <1>c, <1>1, <1>6, <1>7, <1>8, <1>9

\* A list of whole blocks, cut after some of them.
LEMMA ListShrinks ==
    ASSUME NEW S, NEW list \in Seq(S), NoneTwice(list), WholeShards(list), InBlocks(list),
           IsFiniteSet(MappedIn(list)),
           NEW n \in Nat, n <= Cardinality(MappedIn(list))
    PROVE  LET c == SubSeq(list, 1, n * NPieces * NReducers) IN
           c \in Seq(S) /\ NoneTwice(c) /\ WholeShards(c)
<1> DEFINE k == n * Block
           c == SubSeq(list, 1, k)
<1>0. /\ Block \in Nat \ {0} /\ NPieces \in Nat \ {0} /\ NReducers \in Nat \ {0}
      /\ k \in Nat /\ Len(list) \in Nat /\ k <= Len(list)
  <2>1. Block \in Nat \ {0} /\ NPieces \in Nat \ {0} /\ NReducers \in Nat \ {0} /\ k \in Nat
    BY Sizes, TimesOrder
  <2>2. k <= Cardinality(MappedIn(list)) * Block
    BY <2>1, TimesOrder, FS_CardinalityType
  <2> QED BY <2>1, <2>2, LenProperties DEF InBlocks
<1>1. n * NPieces * NReducers = k
  BY <1>0 DEF Block
<1> HIDE DEF k
<1>2. c \in Seq(S) /\ Len(c) = k /\ \A i \in 1..k : c[i] = list[i]
  <2>1. \A i \in 1..k : list[i] \in S
    <3>1. \A i \in 1..k : i \in 1..Len(list)
      BY <1>0
    <3> QED BY <3>1, ElementOfSeq
  <2>2. 1 \in Int /\ k \in Int
    BY <1>0
  <2>3. /\ SubSeq(list, 1, k) \in Seq(S)
        /\ Len(SubSeq(list, 1, k)) = IF 1 <= k THEN (k - 1) + 1 ELSE 0
        /\ \A i \in 1..(k - 1) + 1 : SubSeq(list, 1, k)[i] = list[(1 + i) - 1]
    BY <2>1, <2>2, SubSeqProperties
  <2>4. (k - 1) + 1 = k /\ (1 <= k \/ k = 0) /\ \A i \in 1..k : (1 + i) - 1 = i
    BY <1>0
  <2> QED BY <2>3, <2>4
<1> HIDE DEF c
<1>3. \A i \in 1..k : i \in 1..Len(list)
  BY <1>0
<1>4. NoneTwice(c)
  BY <1>2, <1>3 DEF NoneTwice
<1>5. WholeShards(c)
  <2>1. ASSUME NEW i \in 1..k, NEW p \in 1..NPieces, NEW r \in Reducers
        PROVE  \E j \in 1..k : c[j][4] = c[i][4] /\ c[j][5] = p /\ c[j][6] = r
    <3>1. PICK j \in 1..Len(list) : list[j][4] = list[i][4] /\ list[j][5] = p /\ list[j][6] = r
      BY <1>3 DEF WholeShards
    <3>2. i <= n * Block
      BY <1>0 DEF k
    <3>3. j <= n * Block
      BY <1>3, <3>1, <3>2 DEF InBlocks
    <3>4. j \in 1..k
      BY <1>0, <3>3 DEF k
    <3> QED BY <1>2, <3>1, <3>4
  <2> QED BY <1>2, <2>1 DEF WholeShards
<1> QED BY <1>1, <1>2, <1>4, <1>5 DEF c

\* The list of a job that begins.
LEMMA EmptyList ==
    /\ \A S : <<>> \in Seq(S)
    /\ NoneTwice(<<>>) /\ WholeShards(<<>>) /\ MappedIn(<<>>) = {} /\ InBlocks(<<>>)
    /\ \A n \in Nat : n <= 0 => SubSeq(<<>>, 1, n * NPieces * NReducers) = <<>>
<1>1. /\ \A S : <<>> \in Seq(S)
      /\ Len(<<>>) = 0 /\ DOMAIN <<>> = {}
  BY EmptySeq
<1>2. MappedIn(<<>>) = {} /\ Cardinality(MappedIn(<<>>)) = 0
  <2>1. MappedIn(<<>>) = {}
    BY <1>1 DEF MappedIn, Range
  <2> QED BY <2>1, FS_EmptySet
<1>3. InBlocks(<<>>)
  BY <1>1, <1>2, Sizes DEF InBlocks
<1>4. NoneTwice(<<>>) /\ WholeShards(<<>>)
  BY <1>1 DEF NoneTwice, WholeShards
<1>5. 0 * NPieces * NReducers = 0
  BY Sizes
<1>6. SubSeq(<<>>, 1, 0) = <<>>
  <2>1. SubSeq(<<>>, 1, 0) \in Seq({}) /\ Len(SubSeq(<<>>, 1, 0)) = 0
    <3>1. \A i \in 1..0 : <<>>[i] \in {}
      OBVIOUS
    <3>2. 1 \in Int /\ 0 \in Int /\ ~(1 <= 0)
      OBVIOUS
    <3> QED BY <1>1, <3>1, <3>2, SubSeqProperties
  <2> QED BY <2>1, EmptySeq
<1>7. ASSUME NEW n \in Nat, n <= 0 PROVE SubSeq(<<>>, 1, n * NPieces * NReducers) = <<>>
  <2>1. n = 0
    BY <1>7
  <2> QED BY <1>5, <1>6, <2>1
<1> QED BY <1>1, <1>2, <1>3, <1>4, <1>7

--------------------------------------------------------------------------------
(* What the workers do, and in whose container.                                *)

\* No worker gets on with a task: at most, calls arrive or end for the master.
NoWork ==
    /\ local' = local /\ conn' = conn /\ storage' = storage
    /\ \A w \in Workers : /\ running'[w].kind = running[w].kind
                          /\ running'[w].task = running[w].task
                          /\ running'[w].blobs = running[w].blobs
    /\ job # 0 \/ (running' = running /\ cq' = cq /\ pending' = pending)

\* A thread goes on with its call.
Handle(w) ==
    \/ CreateConnection(w) \/ MapPiece(w) \/ AddIntermediateBlob(w)
    \/ PrepareData(w) \/ AddOutBlob(w)

\* The steps, as the workers see them.
LEMMA StepKinds ==
    ASSUME RegInv, JobInv, CallInv, [Next]_vars
    PROVE  \/ StartJob
           \/ /\ job' = job
              /\ \/ NoWork
                 \/ \E w \in Workers : Stop(w) \/ Take(w) \/ Handle(w) \/ Answer(w)
<1> DEFINE Goal == \/ StartJob
                   \/ /\ job' = job
                      /\ \/ NoWork
                         \/ \E w \in Workers : Stop(w) \/ Take(w) \/ Handle(w) \/ Answer(w)
<1>0. ASSUME job' = job, local' = local, conn' = conn, storage' = storage, running' = running,
             job # 0 \/ (cq' = cq /\ pending' = pending)
      PROVE  Goal
  BY <1>0 DEF NoWork
<1>1. CASE MasterStep
  <2>1. CASE StartJob
    BY <2>1
  <2>2. CASE phase = "update" /\ (\E z \in unread : AddWorker(z)) /\ UNCHANGED masterVars
    BY <1>0, <2>2 DEF AddWorker, workerVars, masterVars
  <2>3. CASE EndUpdate \/ RejectJob
    BY <1>0, <2>3 DEF EndUpdate, RejectJob, RemoveWorkers, workerVars
  <2>4. CASE EndPhase
    BY <1>0, <2>4 DEF EndPhase, workerVars
  <2>5. ASSUME NEW c \in Range(m_Clients), ExchangeUnreachable(c) \/ HeartbeatOk(c) \/ HeartbeatFails(c)
        PROVE  Goal
    BY <1>0, <2>5 DEF ExchangeUnreachable, HeartbeatOk, HeartbeatFails, PingExpires, workerVars
  <2>6. ASSUME NEW c \in Range(m_Clients), NEW t \in todo, Send(c, t) PROVE Goal
    <3>1. phase \in Kinds
      BY TasksAre DEF CallInv, TasksSplit
    <3>2. job # 0
      BY <3>1 DEF JobInv, Kinds
    <3> QED BY <1>0, <2>6, <3>2 DEF Send, Arrive
  <2> QED BY <1>1, <2>1, <2>2, <2>3, <2>4, <2>5, <2>6 DEF MasterStep
<1>2. ASSUME NEW w \in Workers, WorkerStep(w) PROVE Goal
  <2>1. CASE Work(w) /\ UNCHANGED <<registryVars, masterVars>>
    BY <2>1 DEF Work, TakeCall, Handle, masterVars
  <2>2. CASE AnswerCall(w)
    BY <2>2 DEF AnswerCall
  <2>3. CASE WorkerStops(w)
    BY <2>3 DEF WorkerStops, EnterFailState, LeaveLoop, UseNoConnection, FailCalls
  <2>4. CASE Register(w) /\ UNCHANGED masterVars
    BY <1>0, <2>4 DEF Register, RegisterWithZk, RegisterAddressWithZk, RunServer, workerVars, masterVars
  <2> QED BY <1>2, <2>1, <2>2, <2>3, <2>4 DEF WorkerStep
<1>3. ASSUME NEW w \in Workers, Crash(w) PROVE Goal
  BY <1>3 DEF Crash, FailCalls
<1>4. ASSUME NEW w \in Workers, NEW c \in LiveCallsAt(w), Expire(w, c) PROVE Goal
  <2>1. PICK p \in Places : c \in OpenAt(w, p)
    BY LiveCallsAre DEF CallInv
  <2>2. IsCall(c) /\ c.job = job
    BY <2>1, OpenIsCall DEF CallInv, CallsCurrent
  <2>3. job # 0
    BY <2>2, Sizes DEF IsCall
  <2>4. /\ job' = job /\ local' = local /\ conn' = conn /\ storage' = storage
        /\ running' = [running EXCEPT ![w] = IF @ = c THEN Ended(c) ELSE @]
    BY <1>4 DEF Expire, FailCalls
  <2>5. ASSUME NEW v \in Workers
        PROVE  /\ running'[v].kind = running[v].kind /\ running'[v].task = running[v].task
               /\ running'[v].blobs = running[v].blobs
    <3>1. running'[v] = running[v] \/ (running[v] = c /\ running'[v] = Ended(c))
      BY <2>4 DEF CallInv, QueueType
    <3> QED BY <2>2, <3>1, EndedCall
  <2> QED BY <2>3, <2>4, <2>5 DEF NoWork
<1>5. CASE (\E z \in DOMAIN znodes : SessionExpires(z)) /\ UNCHANGED masterVars
  BY <1>0, <1>5 DEF SessionExpires, workerVars, masterVars
<1>6. CASE TakeOver
  <2>1. /\ job' = job /\ job # 0 /\ local' = local /\ conn' = conn /\ storage' = storage
        /\ running' = [w \in Workers |-> Ended(running[w])]
    BY <1>6 DEF TakeOver, OrphanCalls
  <2>2. ASSUME NEW v \in Workers
        PROVE  /\ running'[v].kind = running[v].kind /\ running'[v].task = running[v].task
               /\ running'[v].blobs = running[v].blobs
    <3>1. running'[v] = Ended(running[v])
      BY <2>1
    <3>2. running[v] = NoCall \/ IsCall(running[v])
      BY QueuesOf DEF CallInv
    <3> QED BY <3>1, <3>2, EndedCall
  <2> QED BY <2>1, <2>2 DEF NoWork
<1>7. ASSUME NEW w \in Workers, StraySend(w) PROVE Goal
  <2>1. job # 0
    BY <1>7 DEF StraySend, JobInv
  <2> QED BY <1>0, <1>7, <2>1 DEF StraySend, Arrive
<1>8. CASE UNCHANGED vars
  BY <1>0, <1>8 DEF vars, workerVars, masterVars
<1> QED BY <1>1, <1>2, <1>3, <1>4, <1>5, <1>6, <1>7, <1>8 DEF Next, ZooKeeperStep

\* At first there are no calls and no connections.
LEMMA SoloInit == ClusterInit => SoloInv
BY DEF ClusterInit, Init, SoloInv, Quiet

\* With one job no worker is ever connected to another container.
LEMMA SoloNext ==
    ASSUME MaxJobs = 1, RegInv, JobInv, CallInv, SoloInv, [Next]_vars
    PROVE  SoloInv'
<1>0. /\ DOMAIN conn = Workers /\ DOMAIN running = Workers /\ DOMAIN cq = Workers
      /\ DOMAIN pending = Workers /\ \A w \in Workers : DOMAIN pending[w] = Kinds
      /\ \A w \in Workers : conn[w] \in {Container[1], NoConnection}
      /\ job = 0 => \A w \in Workers :
             running[w] = NoCall /\ cq[w] = <<>> /\ \A k \in Kinds : pending[w][k] = <<>>
      /\ job \in Nat
  BY DEF SoloInv, Quiet, CallInv, QueueType, JobInv
<1>1. CASE StartJob
  BY <1>0, <1>1 DEF StartJob, SoloInv, Quiet
<1>2. CASE job' = job /\ NoWork
  BY <1>0, <1>2 DEF NoWork, SoloInv, Quiet
<1>3. ASSUME NEW w \in Workers, job' = job, Stop(w) PROVE SoloInv'
  BY <1>0, <1>3 DEF Stop, SoloInv, Quiet
<1>4. ASSUME NEW w \in Workers, job' = job, Take(w) PROVE SoloInv'
  BY <1>0, <1>4 DEF Take, SoloInv, Quiet
<1>5. ASSUME NEW w \in Workers, job' = job, Handle(w) PROVE SoloInv'
  <2>1. running' = running /\ cq' = cq /\ pending' = pending
    BY <1>5 DEF Handle, CreateConnection, MapPiece, AddIntermediateBlob, PrepareData, AddOutBlob
  <2>2. CASE CreateConnection(w)
    <3>1. running[w].kind = "exchange" /\ conn' = [conn EXCEPT ![w] = running[w].cont]
      BY <2>2 DEF CreateConnection, NewConnection
    <3>2. IsCall(running[w])
      BY <3>1, QueuesOf DEF CallInv, NoCall
    <3>3. running[w].cont = Container[1]
      BY <3>1, <3>2 DEF IsCall
    <3> QED BY <1>0, <1>5, <2>1, <3>1, <3>3 DEF SoloInv, Quiet
  <2>3. CASE ~CreateConnection(w)
    <3>1. conn' = conn
      BY <1>5, <2>3 DEF Handle, MapPiece, AddIntermediateBlob, PrepareData, AddOutBlob
    <3> QED BY <1>0, <1>5, <2>1, <3>1 DEF SoloInv, Quiet
  <2> QED BY <2>2, <2>3
<1>6. ASSUME NEW w \in Workers, job' = job, Answer(w) PROVE SoloInv'
  BY <1>0, <1>6 DEF Answer, SoloInv, Quiet
<1> QED BY <1>1, <1>2, <1>3, <1>4, <1>5, <1>6, StepKinds

\* Either way the tasks are handled in the container of the current job.
LEMMA SoloHere ==
    ASSUME MaxJobs = 1, JobInv, CallInv, SoloInv
    PROVE  TasksHere
<1>0. job \in {0, 1}
  BY DEF JobInv
<1>1. ASSUME NEW w \in Workers, running[w].kind \in {"map", "reduce"}
      PROVE  running[w].job = 1 /\ job = 1 /\ conn[w] \in {Container[1], NoConnection}
  <2>1. running[w] # NoCall /\ IsCall(running[w])
    BY <1>1, QueuesOf DEF CallInv, NoCall
  <2> QED BY <1>0, <2>1 DEF SoloInv, Quiet, IsCall
<1>2. ASSUME job < MaxJobs PROVE old = {} /\ \A w \in Workers : Quiet(w)
  <2>1. job = 0
    BY <1>0, <1>2
  <2>2. old = {}
    BY <2>1 DEF JobInv
  <2> QED BY <2>1, <2>2 DEF SoloInv
<1> QED BY <1>0, <1>1, <1>2 DEF TasksHere

\* With several jobs: no call ends for the master before the worker answers it, so none
\* is left when the job is over.
LEMMA ConnHere ==
    ASSUME Punctual, RegInv, JobInv, CallInv, ConnInv
    PROVE  TasksHere
<1>1. ASSUME NEW w \in Workers, running[w].kind \in {"map", "reduce"}
      PROVE  /\ running[w].job = job /\ conn[w] \in {Container[job], NoConnection}
             /\ phase # "idle"
  <2>1. running[w] # NoCall
    BY <1>1 DEF NoCall
  <2>2. /\ running[w].kind = phase /\ running[w].job = job
        /\ \E d \in Range(m_Clients) : d.addr = w
    BY <2>1, AtCall
  <2> QED BY <1>1, <2>2 DEF ConnInv, ConnCurrent, Working
<1>2. old = {}
  BY DEF JobInv, Punctual
<1>3. ASSUME phase = "idle", NEW w \in Workers PROVE Quiet(w)
  <2>1. \A p \in Places : OpenAt(w, p) = {}
    <3>1. TasksOf("idle") = {}
      BY TasksAre
    <3> QED BY <1>3, <3>1 DEF CallInv, CallsCurrent
  <2>2. /\ OpenAt(w, "running") = {c \in {running[w]} : c.live}
        /\ OpenAt(w, "cq") = OpenCalls(cq[w])
        /\ \A k \in Kinds : OpenAt(w, k) = OpenCalls(pending[w][k])
        /\ "running" \in Places /\ "cq" \in Places /\ Kinds \subseteq Places
    BY PlaceIs DEF Places
  <2>3. ASSUME NEW q, IsQueue(q), Live(q), OpenCalls(q) = {} PROVE q = <<>>
    <3>1. q \in Seq(Range(q)) /\ Len(q) \in Nat
      BY <2>3, LenProperties DEF IsQueue
    <3>2. 1 \notin 1..Len(q)
      BY <2>3 DEF Live, OpenCalls
    <3>3. Len(q) = 0
      BY <3>1, <3>2
    <3> QED BY <3>1, <3>3, EmptySeq
  <2>4. IsQueue(cq[w]) /\ Live(cq[w]) /\ \A k \in Kinds : IsQueue(pending[w][k]) /\ Live(pending[w][k])
    BY QueuesOf DEF CallInv, ConnInv, AllLive
  <2>5. cq[w] = <<>> /\ \A k \in Kinds : pending[w][k] = <<>>
    BY <2>1, <2>2, <2>3, <2>4
  <2>6. running[w] = NoCall
    BY <2>1, <2>2 DEF ConnInv, AllLive
  <2> QED BY <2>5, <2>6 DEF Quiet
<1> QED BY <1>1, <1>2, <1>3 DEF TasksHere

--------------------------------------------------------------------------------
(* The blobs the map tasks write.                                              *)

\* At first there are no blobs and no tasks.
LEMMA MapsInit == ClusterInit => BlobsTrue /\ MapsTrue
BY DEF ClusterInit, Init, BlobsTrue, MapsTrue, NoCall

\* A map task that does not get on.
LEMMA MapStays ==
    ASSUME NEW w, running[w].kind = "map" => MapTrue(w),
           local'[w] = local[w], conn'[w] = conn[w], job' = job,
           running'[w].kind = running[w].kind, running'[w].task = running[w].task,
           DOMAIN storage \subseteq DOMAIN storage'
    PROVE  running'[w].kind = "map" => MapTrue(w)'
<1> SUFFICES ASSUME running[w].kind = "map", MapTrue(w) PROVE MapTrue(w)'
  OBVIOUS
<1>1. Written(w)' = Written(w)
  BY DEF Written, Reducers
<1>2. PICK f, t, s : f = local[w] /\ t = running[w].task /\ s = DOMAIN storage
  OBVIOUS
<1>3. \A x \in Written(w) : IntBlob(Container[job], w, t, x[1], x[2]) \in DOMAIN storage'
  BY <1>2 DEF MapTrue
<1> QED BY <1>1, <1>2, <1>3 DEF MapTrue, IntBlob

\* One worker gets on, and blobs are only added.
LEMMA MapsKeep ==
    ASSUME MapsTrue, DOMAIN running = Workers, NEW w \in Workers, job' = job,
           DOMAIN local' = Workers, DOMAIN conn' = Workers,
           \A v \in Workers \ {w} : /\ local'[v] = local[v] /\ conn'[v] = conn[v]
                                    /\ running'[v] = running[v],
           DOMAIN storage \subseteq DOMAIN storage',
           running'[w].kind = "map" => MapTrue(w)'
    PROVE  MapsTrue'
<1>1. ASSUME NEW v \in Workers PROVE running'[v].kind = "map" => MapTrue(v)'
  <2>1. CASE v = w
    BY <2>1 DEF MapTrue
  <2>2. CASE v # w
    <3>1. running[v].kind = "map" => MapTrue(v)
      BY DEF MapsTrue
    <3> QED BY <2>2, <3>1, MapStays
  <2> QED BY <2>1, <2>2
<1> QED BY <1>1 DEF MapsTrue

\* The piece has been read and mapped.
LEMMA MapsPiece ==
    ASSUME StorageFails = FALSE, CallInv, TasksHere, MapsTrue, NEW w \in Workers, MapPiece(w), job' = job
    PROVE  running'[w].kind = "map" => MapTrue(w)'
<1>1. /\ running[w].kind = "map" /\ conn[w] # NoConnection /\ running' = running /\ conn' = conn
      /\ storage' = storage /\ ~local[w].done /\ local[w].file = 0
  BY DEF MapPiece
<1>2. conn[w] = Container[job] /\ running[w].job = job
  BY <1>1 DEF TasksHere
<1>3. MapTrue(w) /\ DOMAIN local = Workers
  BY <1>1 DEF MapsTrue
<1>4. PICK f, t : f = local[w] /\ t = running[w].task
  OBVIOUS
<1>5. DOMAIN f = {"piece", "file", "data", "done"} /\ f.piece \in 1..NPieces /\ f.file = 0 /\ ~f.done
  BY <1>1, <1>3, <1>4 DEF MapTrue
<1>6. /\ local'[w].file = 1 /\ local'[w].data = {<<job, t, f.piece>>}
      /\ local'[w].piece = f.piece /\ local'[w].done = f.done
      /\ DOMAIN local'[w] = {"piece", "file", "data", "done"}
  <2>1. Mapped(w) = {{<<job, t, f.piece>>}}
    BY <1>2, <1>4 DEF Mapped
  <2>2. local' = [local EXCEPT ![w].file = 1, ![w].data = {<<job, t, f.piece>>}]
    BY <2>1 DEF MapPiece, FreshFiles
  <2> QED BY <1>3, <1>4, <1>5, <2>2
<1>7. ASSUME NEW x \in Written(w)' PROVE x \in Written(w)
  BY <1>4, <1>5, <1>6, Sizes DEF Written, Reducers
<1>8. \A x \in Written(w)' : IntBlob(Container[job], w, t, x[1], x[2]) \in DOMAIN storage
  BY <1>3, <1>4, <1>7 DEF MapTrue
<1> QED BY <1>1, <1>2, <1>4, <1>5, <1>6, <1>8, Sizes DEF MapTrue, IntBlob

\* A blob has been written.
LEMMA MapsBlob ==
    ASSUME CallInv, TasksHere, MapsTrue, NEW w \in Workers, AddIntermediateBlob(w), job' = job
    PROVE  /\ running'[w].kind = "map" => MapTrue(w)'
           /\ \E t, p, f :
                  Put(IntBlob(Container[job], w, t, p, f), {<<job, t, p>>})
<1>1. running[w].kind = "map" /\ local[w].file > 0 /\ running' = running /\ conn' = conn
  BY DEF AddIntermediateBlob
<1>2. MapTrue(w) /\ DOMAIN local = Workers
  BY <1>1 DEF MapsTrue
<1>3. PICK l, t, p, f : l = local[w] /\ t = running[w].task /\ p = l.piece /\ f = l.file
  OBVIOUS
<1>4. /\ DOMAIN l = {"piece", "file", "data", "done"}
      /\ p \in 1..NPieces /\ f \in 1..NReducers /\ conn[w] = Container[job]
      /\ l.data = {<<job, t, p>>}
  BY <1>1, <1>2, <1>3, Sizes DEF MapTrue
<1>5. Put(IntBlob(Container[job], w, t, p, f), {<<job, t, p>>})
  BY <1>3, <1>4 DEF AddIntermediateBlob, Put
<1>6. DOMAIN storage' = DOMAIN storage \cup {IntBlob(Container[job], w, t, p, f)}
  BY <1>5 DEF Put
<1>7. ASSUME NEW new, local' = [local EXCEPT ![w] = new] PROVE local'[w] = new
  BY <1>2, <1>7
<1>8. /\ DOMAIN local'[w] = {"piece", "file", "data", "done"}
      /\ \/ f < NReducers /\ local'[w].file = f + 1 /\ local'[w].piece = p /\ local'[w].data = l.data
            /\ local'[w].done = l.done
         \/ f = NReducers /\ p < NPieces /\ local'[w].file = 0 /\ local'[w].piece = p + 1
            /\ local'[w].done = l.done
         \/ f = NReducers /\ p = NPieces /\ local'[w].file = 0 /\ local'[w].piece = p
            /\ local'[w].done = TRUE
  <2>1. CASE f < NReducers
    <3>1. local' = [local EXCEPT ![w] = [local[w] EXCEPT !.file = local[w].file + 1]]
      BY <1>3, <2>1 DEF AddIntermediateBlob, MoreFiles
    <3>2. local'[w] = [l EXCEPT !.file = f + 1]
      BY <1>3, <1>7, <3>1
    <3> QED BY <1>3, <1>4, <2>1, <3>2
  <2>2. CASE ~(f < NReducers) /\ p < NPieces
    <3>1. local' = [local EXCEPT ![w] = [local[w] EXCEPT !.file = 0, !.piece = local[w].piece + 1]]
      BY <1>3, <2>2 DEF AddIntermediateBlob, MoreFiles
    <3>2. local'[w] = [l EXCEPT !.file = 0, !.piece = p + 1]
      BY <1>3, <1>7, <3>1
    <3>3. f = NReducers
      BY <1>4, <2>2, Sizes
    <3> QED BY <1>3, <1>4, <2>2, <3>2, <3>3
  <2>3. CASE ~(f < NReducers) /\ ~(p < NPieces)
    <3>1. local' = [local EXCEPT ![w] = [local[w] EXCEPT !.file = 0, !.done = TRUE]]
      BY <1>3, <2>3 DEF AddIntermediateBlob, MoreFiles
    <3>2. local'[w] = [l EXCEPT !.file = 0, !.done = TRUE]
      BY <1>3, <1>7, <3>1
    <3>3. f = NReducers /\ p = NPieces
      BY <1>4, <2>3, Sizes
    <3> QED BY <1>3, <1>4, <2>3, <3>2, <3>3
  <2> QED BY <2>1, <2>2, <2>3
<1>9. ASSUME NEW x \in Written(w)' PROVE x \in Written(w) \/ (x[1] = p /\ x[2] = f)
  <2>1. x \in (1..NPieces) \X Reducers
    BY DEF Written, Reducers
  <2>2. \/ local'[w].done \/ x[1] < local'[w].piece
        \/ (x[1] = local'[w].piece /\ x[2] < local'[w].file)
    BY DEF Written
  <2>3. x[1] \in 1..NPieces /\ x[2] \in 1..NReducers
    BY <2>1 DEF Reducers
  <2>4. \/ l.done \/ x[1] < p \/ (x[1] = p /\ x[2] < f)
        \/ (x[1] = p /\ x[2] = f)
    BY <1>4, <1>8, <2>2, <2>3, Sizes
  <2> QED BY <1>3, <2>1, <2>4 DEF Written
<1>10. ASSUME NEW x \in Written(w)' PROVE IntBlob(Container[job], w, t, x[1], x[2]) \in DOMAIN storage'
  <2>1. CASE x \in Written(w)
    BY <1>2, <1>3, <1>6, <2>1 DEF MapTrue
  <2>2. CASE x[1] = p /\ x[2] = f
    BY <1>6, <2>2
  <2> QED BY <1>9, <2>1, <2>2
<1>11. MapTrue(w)'
  <2>1. local'[w].piece \in 1..NPieces /\ local'[w].file \in 0..NReducers
    BY <1>4, <1>8, Sizes
  <2>2. local'[w].file > 0 => local'[w].data = {<<job, t, local'[w].piece>>}
    BY <1>4, <1>8
  <2> QED BY <1>1, <1>3, <1>4, <1>8, <1>10, <2>1, <2>2 DEF MapTrue, IntBlob
<1> QED BY <1>5, <1>11

\* Every step keeps what the map tasks write.
LEMMA MapsNext ==
    ASSUME StorageFails = FALSE, RegInv, JobInv, CallInv, TasksHere, BlobsTrue, MapsTrue, [Next]_vars
    PROVE  BlobsTrue' /\ MapsTrue'
<1>0. /\ DOMAIN running = Workers /\ DOMAIN cq = Workers /\ DOMAIN local = Workers
      /\ DOMAIN conn = Workers
  BY DEF CallInv, QueueType, MapsTrue
<1>1. CASE StartJob
  <2>1. /\ phase = "idle" /\ job < MaxJobs /\ job' = job + 1 /\ running' = running /\ local' = local
        /\ storage' = [n \in {n \in DOMAIN storage : n[2] # Container[job + 1]} |-> storage[n]]
        /\ conn' = conn
    BY <1>1 DEF StartJob
  <2>2. BlobsTrue'
    BY <2>1 DEF BlobsTrue
  <2>3. \A w \in Workers : running'[w].kind # "map"
    BY <2>1 DEF TasksHere, Quiet, NoCall
  <2> QED BY <1>0, <2>1, <2>2, <2>3 DEF MapsTrue
<1>2. CASE job' = job /\ NoWork
  <2>1. BlobsTrue'
    BY <1>2 DEF NoWork, BlobsTrue
  <2>2. ASSUME NEW w \in Workers PROVE running'[w].kind = "map" => MapTrue(w)'
    <3>1. running[w].kind = "map" => MapTrue(w)
      BY DEF MapsTrue
    <3>2. /\ local'[w] = local[w] /\ conn'[w] = conn[w]
          /\ running'[w].kind = running[w].kind /\ running'[w].task = running[w].task
          /\ DOMAIN storage \subseteq DOMAIN storage' /\ job' = job
      BY <1>2 DEF NoWork
    <3> QED BY <3>1, <3>2, MapStays
  <2> QED BY <1>0, <1>2, <2>1, <2>2 DEF NoWork, MapsTrue
<1>3. ASSUME NEW w \in Workers, job' = job, Stop(w) \/ Take(w) \/ Answer(w) PROVE BlobsTrue' /\ MapsTrue'
  <2>1. /\ storage' = storage /\ DOMAIN local' = Workers /\ DOMAIN conn' = Workers /\ local'[w] = NoFiles
        /\ \A v \in Workers \ {w} : local'[v] = local[v] /\ conn'[v] = conn[v] /\ running'[v] = running[v]
    BY <1>0, <1>3 DEF Stop, Take, Answer
  <2>2. BlobsTrue'
    BY <1>3, <2>1 DEF BlobsTrue
  <2>3. MapTrue(w)'
    <3>1. Written(w)' = {}
      BY <2>1 DEF Written, NoFiles, Reducers
    <3> QED BY <2>1, <3>1, Sizes DEF MapTrue, NoFiles
  <2> QED BY <1>0, <1>3, <2>1, <2>2, <2>3, MapsKeep
<1>4. ASSUME NEW w \in Workers, job' = job, Handle(w) PROVE BlobsTrue' /\ MapsTrue'
  <2>1. /\ running' = running /\ DOMAIN local' = Workers /\ DOMAIN conn' = Workers
        /\ \A v \in Workers \ {w} : local'[v] = local[v] /\ running'[v] = running[v]
    BY <1>0, <1>4 DEF Handle, CreateConnection, MapPiece, AddIntermediateBlob, PrepareData, AddOutBlob
  <2>2. CASE CreateConnection(w) \/ PrepareData(w)
    <3>1. storage' = storage /\ running'[w].kind # "map"
      BY <2>2 DEF CreateConnection, PrepareData
    <3>2. \A v \in Workers \ {w} : conn'[v] = conn[v]
      BY <1>0, <2>2 DEF CreateConnection, PrepareData
    <3>3. BlobsTrue'
      BY <1>4, <3>1 DEF BlobsTrue
    <3> QED BY <1>0, <1>4, <2>1, <3>1, <3>2, <3>3, MapsKeep
  <2>3. CASE MapPiece(w)
    <3>1. storage' = storage /\ conn' = conn
      BY <2>3 DEF MapPiece
    <3>2. BlobsTrue'
      BY <1>4, <3>1 DEF BlobsTrue
    <3>3. running'[w].kind = "map" => MapTrue(w)'
      BY <1>4, <2>3, MapsPiece
    <3> QED BY <1>0, <1>4, <2>1, <3>1, <3>2, <3>3, MapsKeep
  <2>4. CASE AddIntermediateBlob(w)
    <3>1. conn' = conn
      BY <2>4 DEF AddIntermediateBlob
    <3>2. /\ running'[w].kind = "map" => MapTrue(w)'
          /\ \E t, p, f : Put(IntBlob(Container[job], w, t, p, f), {<<job, t, p>>})
      BY <1>4, <2>4, MapsBlob
    <3>3. PICK t, p, f : Put(IntBlob(Container[job], w, t, p, f), {<<job, t, p>>})
      BY <3>2
    <3>4. PICK n0 : n0 = IntBlob(Container[job], w, t, p, f)
      OBVIOUS
    <3>5. /\ DOMAIN storage' = DOMAIN storage \cup {n0}
          /\ \A n \in DOMAIN storage' : storage'[n] = IF n = n0 THEN {<<job, t, p>>} ELSE storage[n]
      BY <3>3, <3>4 DEF Put
    <3>6. n0[4] = t /\ n0[5] = p
      BY <3>4 DEF IntBlob
    <3>7. BlobsTrue'
      BY <1>4, <3>5, <3>6 DEF BlobsTrue
    <3> QED BY <1>0, <1>4, <2>1, <3>1, <3>2, <3>5, <3>7, MapsKeep
  <2>5. CASE AddOutBlob(w)
    <3>1. conn' = conn /\ running'[w].kind # "map"
      BY <2>5 DEF AddOutBlob
    <3>2. PICK d : Put(OutBlob(conn[w], running[w].task), d)
      BY <2>5 DEF AddOutBlob
    <3>3. PICK n0 : n0 = OutBlob(conn[w], running[w].task)
      OBVIOUS
    <3>4. /\ DOMAIN storage' = DOMAIN storage \cup {n0}
          /\ \A n \in DOMAIN storage' : storage'[n] = IF n = n0 THEN d ELSE storage[n]
      BY <3>2, <3>3 DEF Put
    <3>5. n0[1] # "int"
      BY <3>3 DEF OutBlob
    <3>6. BlobsTrue'
      BY <1>4, <3>4, <3>5 DEF BlobsTrue
    <3> QED BY <1>0, <1>4, <2>1, <3>1, <3>4, <3>6, MapsKeep
  <2> QED BY <1>4, <2>2, <2>3, <2>4, <2>5 DEF Handle
<1> QED BY <1>1, <1>2, <1>3, <1>4, StepKinds

--------------------------------------------------------------------------------
(* The list of the blobs.                                                      *)

\* A list over a set is one over a larger set.
LEMMA SeqGrows ==
    ASSUME NEW S, NEW T, S \subseteq T, NEW list \in Seq(S)
    PROVE  list \in Seq(T)
<1>1. Len(list) \in Nat /\ list \in [1..Len(list) -> S]
  BY LenProperties
<1>2. list \in [1..Len(list) -> T]
  BY <1>1
<1> QED BY <1>1, <1>2, SeqDef

\* A good list stays good while blobs are only added.
LEMMA GoodStays ==
    ASSUME NEW list, GoodList(list), job' = job, DOMAIN storage \subseteq DOMAIN storage'
    PROVE  /\ list \in Seq(IntName(Container[job]) \cap DOMAIN storage')
           /\ NoneTwice(list) /\ WholeShards(list)
<1>1. PICK S, T : S = IntName(Container[job]) \cap DOMAIN storage /\ T = IntName(Container[job]) \cap DOMAIN storage'
  OBVIOUS
<1>2. S \subseteq T /\ list \in Seq(S)
  BY <1>1 DEF GoodList
<1>3. list \in Seq(T)
  BY <1>2, SeqGrows
<1> QED BY <1>1, <1>3 DEF GoodList

\* What is to be shown of the next list.
LEMMA GoodWillBe ==
    ASSUME NEW list, intblobs' = list, job' = job,
           list \in Seq(IntName(Container[job]) \cap DOMAIN storage'),
           NoneTwice(list), WholeShards(list)
    PROVE  GoodList(intblobs)'
<1>1. IntName(Container[job])' = IntName(Container[job])
  BY DEF IntName, Shards, Reducers, IntBlob
<1>2. NoneTwice(intblobs)'
  BY DEF NoneTwice
<1>3. WholeShards(intblobs)'
  BY DEF WholeShards, Reducers
<1> QED BY <1>1, <1>2, <1>3 DEF GoodList

\* The names of int blobs.
LEMMA NamesAre ==
    ASSUME NEW list, GoodList(list)
    PROVE  MappedIn(list) \subseteq Shards /\ IsFiniteSet(MappedIn(list))
<1>1. \A i \in DOMAIN list : list[i] \in IntName(Container[job])
  BY LenProperties, ElementOfSeq DEF GoodList
<1>2. \A n \in IntName(Container[job]) : n[4] \in Shards
  BY DEF IntName, IntBlob
<1>3. MappedIn(list) \subseteq Shards
  BY <1>1, <1>2 DEF MappedIn, Range
<1>4. IsFiniteSet(Shards)
  BY Sizes, FS_Interval DEF Shards
<1> QED BY <1>3, <1>4, FS_Subset

\* Blobs are removed only for a new job.
LEMMA StorageGrows ==
    ASSUME RegInv, JobInv, CallInv, [Next]_vars, ~StartJob
    PROVE  job' = job /\ DOMAIN storage \subseteq DOMAIN storage'
<1>1. ASSUME NoWork PROVE DOMAIN storage \subseteq DOMAIN storage'
  BY <1>1 DEF NoWork
<1>2. ASSUME NEW w \in Workers, Stop(w) \/ Take(w) \/ Answer(w)
      PROVE  DOMAIN storage \subseteq DOMAIN storage'
  <2>1. storage' = storage
    BY <1>2 DEF Stop, Take, Answer
  <2> QED BY <2>1
<1>3. ASSUME NEW w \in Workers, Handle(w) PROVE DOMAIN storage \subseteq DOMAIN storage'
  BY <1>3 DEF Handle, CreateConnection, MapPiece, AddIntermediateBlob, PrepareData, AddOutBlob, Put
<1>4. /\ job' = job
      /\ NoWork \/ \E w \in Workers : Stop(w) \/ Take(w) \/ Handle(w) \/ Answer(w)
  BY StepKinds
<1> QED BY <1>1, <1>2, <1>3, <1>4

\* A step that leaves the list alone.
LEMMA ListStays ==
    ASSUME ListTrue, job' = job, DOMAIN storage \subseteq DOMAIN storage',
           intblobs' = intblobs, phase' = phase, resumed' = resumed,
           phase = "map" => results' = results
    PROVE  ListTrue'
<1>1. PICK list : list = intblobs
  OBVIOUS
<1>2. InUse => GoodList(intblobs)'
  <2>1. ASSUME InUse PROVE GoodList(list)
    BY <1>1, <2>1 DEF ListTrue
  <2>2. InUse => /\ list \in Seq(IntName(Container[job]) \cap DOMAIN storage')
                 /\ NoneTwice(list) /\ WholeShards(list)
    BY <2>1, GoodStays
  <2> QED BY <1>1, <2>2, GoodWillBe
<1>3. /\ InUse' = InUse
      /\ (phase = "map" => results' = MappedIn(intblobs))
      /\ (phase = "reduce" => MappedIn(intblobs) = Shards)
      /\ (phase \in {"map", "reduce"} /\ ~resumed => InBlocks(intblobs))
      /\ (job = 0 \/ (job = 1 /\ ~resumed /\ phase \in {"update", "exchange"}) => intblobs = <<>>)
  BY DEF ListTrue, InUse
<1>4. MappedIn(intblobs)' = MappedIn(intblobs) /\ InBlocks(intblobs)' = InBlocks(intblobs)
  BY DEF MappedIn, InBlocks, Range
<1> QED BY <1>2, <1>3, <1>4 DEF ListTrue, Shards

\* At first it is empty.
LEMMA ListInit == ClusterInit => ListTrue
BY DEF ClusterInit, ListTrue, InUse

\* A worker's answer to a map call.
LEMMA ListAnswer ==
    ASSUME JobInv, CallInv, MapsTrue, ListTrue, NEW w \in Workers, AnswerCall(w)
    PROVE  ListTrue'
<1>c. PICK c : c = running[w]
  OBVIOUS
<1>1. /\ job' = job /\ phase' = phase /\ resumed' = resumed /\ storage' = storage
      /\ c # NoCall /\ local[w].done
      /\ IF c.live
         THEN /\ results' = results \cup {c.task}
              /\ intblobs' = IF c.kind = "map" THEN intblobs \o BlobsOf(w, c.task) ELSE intblobs
         ELSE results' = results /\ intblobs' = intblobs
  BY <1>c DEF AnswerCall, Answer, WorkDone, Accept, leaderVars
<1>2. CASE ~c.live
  <2>1. results' = results /\ intblobs' = intblobs
    BY <1>1, <1>2
  <2> QED BY <1>1, <2>1, ListStays
<1>3. CASE c.live
  <2>1. c \in OpenAt(w, "running") /\ "running" \in Places
    BY <1>c, <1>3, PlaceIs
  <2>2. c.kind = phase /\ c.task \in TasksOf(phase) \ results
    BY <2>1 DEF CallInv, CallsCurrent
  <2>3. CASE phase # "map"
    <3>1. intblobs' = intblobs
      BY <1>1, <1>3, <2>2, <2>3
    <3> QED BY <1>1, <2>3, <3>1, ListStays
  <2>4. CASE phase = "map"
    <3>1. PICK s, list, S, b :
              /\ s = c.task /\ list = intblobs /\ b = BlobsOf(w, c.task)
              /\ S = IntName(Container[job]) \cap DOMAIN storage
      OBVIOUS
    <3>2. s \in Shards /\ s \notin MappedIn(list)
      <4>1. TasksOf("map") = Shards
        BY TasksAre
      <4> QED BY <2>2, <2>4, <3>1, <4>1 DEF ListTrue
    <3>3. GoodList(list)
      BY <2>4, <3>1 DEF ListTrue, InUse
    <3>4. list \in Seq(S) /\ NoneTwice(list) /\ WholeShards(list) /\ IsFiniteSet(MappedIn(list))
      BY <3>1, <3>3, NamesAre DEF GoodList
    <3>5. MapTrue(w) /\ running[w].task = s
      BY <1>c, <2>2, <2>4, <3>1 DEF MapsTrue
    <3>6. conn[w] = Container[job]
      BY <1>1, <3>5 DEF MapTrue
    <3>7. ASSUME NEW p \in 1..NPieces, NEW r \in Reducers PROVE IntBlob(conn[w], w, s, p, r) \in S
      <4>1. <<p, r>> \in Written(w)
        BY <1>1 DEF Written
      <4>2. IntBlob(Container[job], w, s, p, r) \in DOMAIN storage
        BY <3>5, <4>1 DEF MapTrue
      <4>3. IntBlob(Container[job], w, s, p, r) \in IntName(Container[job])
        BY <3>2 DEF IntName
      <4> QED BY <3>1, <3>6, <4>2, <4>3
    <3>8. b \in Seq(S) /\ IsShard(b, s)
      BY <3>1, <3>7, BlobsAre
    <3>9. PICK new : new = list \o b
      OBVIOUS
    <3>10. /\ new \in Seq(S) /\ NoneTwice(new) /\ WholeShards(new)
           /\ MappedIn(new) = MappedIn(list) \cup {s}
           /\ InBlocks(list) => InBlocks(new)
      BY <3>2, <3>4, <3>8, <3>9, ListGrows
    <3>11. intblobs' = new /\ results' = results \cup {s}
      BY <1>1, <1>3, <2>2, <2>4, <3>1, <3>9
    <3>12. GoodList(intblobs)'
      BY <1>1, <3>1, <3>10, <3>11, GoodWillBe
    <3>13. results' = MappedIn(new) /\ (~resumed => InBlocks(new))
      BY <2>4, <3>1, <3>10, <3>11 DEF ListTrue
    <3>14. MappedIn(intblobs)' = MappedIn(new) /\ InBlocks(intblobs)' = InBlocks(new)
      BY <3>11 DEF MappedIn, InBlocks, Range
    <3>15. job # 0
      BY <2>4 DEF JobInv
    <3> QED BY <1>1, <2>4, <3>12, <3>13, <3>14, <3>15 DEF ListTrue
  <2> QED BY <2>3, <2>4
<1> QED BY <1>2, <1>3

\* A leader starts from a checkpoint.
LEMMA ListTakeOver ==
    ASSUME ListTrue, TakeOver
    PROVE  ListTrue'
<1>1. /\ job = 1 /\ ~resumed /\ phase \in {"exchange", "map", "reduce"}
      /\ job' = job /\ storage' = storage /\ phase' = "update" /\ resumed' = TRUE
  BY DEF TakeOver, EnterPhase
<1>2. PICK n \in 0..Cardinality(MappedIn(intblobs)) :
          intblobs' = SubSeq(intblobs, 1, n * NPieces * NReducers)
  BY DEF TakeOver, Checkpoint
<1>3. n \in Nat /\ n <= Cardinality(MappedIn(intblobs))
  <2>1. CASE phase = "exchange"
    <3>1. intblobs = <<>>
      BY <1>1, <2>1 DEF ListTrue
    <3>2. MappedIn(<<>>) = {} /\ Cardinality({}) = 0
      BY EmptyList, FS_EmptySet
    <3>3. Cardinality(MappedIn(intblobs)) = 0
      BY <3>1, <3>2
    <3> QED BY <1>2, <3>3
  <2>2. CASE phase \in {"map", "reduce"}
    <3>1. IsFiniteSet(MappedIn(intblobs))
      BY <2>2, NamesAre DEF ListTrue, InUse, GoodList
    <3>2. Cardinality(MappedIn(intblobs)) \in Nat
      BY <3>1, FS_CardinalityType
    <3> QED BY <1>2, <3>2
  <2> QED BY <1>1, <2>1, <2>2
<1>4. PICK list, new, S : /\ list = intblobs /\ new = SubSeq(list, 1, n * NPieces * NReducers)
                          /\ S = IntName(Container[job]) \cap DOMAIN storage
  OBVIOUS
<1>5. new \in Seq(S) /\ NoneTwice(new) /\ WholeShards(new)
  <2>1. CASE phase = "exchange"
    <3>1. list = <<>>
      BY <1>1, <1>4, <2>1 DEF ListTrue
    <3>2. MappedIn(<<>>) = {} /\ Cardinality({}) = 0
      BY EmptyList, FS_EmptySet
    <3>3. n <= 0
      BY <1>3, <1>4, <3>1, <3>2
    <3>4. new = <<>>
      BY <1>3, <1>4, <3>1, <3>3, EmptyList
    <3> QED BY <3>4, EmptyList
  <2>2. CASE phase \in {"map", "reduce"}
    <3>1. GoodList(list) /\ InBlocks(list)
      BY <1>1, <1>4, <2>2 DEF ListTrue, InUse
    <3>2. list \in Seq(S) /\ NoneTwice(list) /\ WholeShards(list) /\ IsFiniteSet(MappedIn(list))
      BY <1>4, <3>1, NamesAre DEF GoodList
    <3>3. n <= Cardinality(MappedIn(list))
      BY <1>3, <1>4
    <3> QED BY <1>3, <1>4, <3>1, <3>2, <3>3, ListShrinks
  <2> QED BY <1>1, <2>1, <2>2
<1>6. intblobs' = new
  BY <1>2, <1>4
<1>7. GoodList(intblobs)'
  BY <1>1, <1>4, <1>5, <1>6, GoodWillBe
<1> QED BY <1>1, <1>7 DEF ListTrue

\* A phase ends.
LEMMA ListPhase ==
    ASSUME RegInv, JobInv, ListTrue, EndPhase
    PROVE  ListTrue'
<1>1. /\ job' = job /\ resumed' = resumed /\ storage' = storage
      /\ phase \notin {"idle", "update", "spin"} /\ results = TasksOf(phase) /\ job # 0
  BY DEF EndPhase, AllOver, workerVars, leaderVars, JobInv
<1>2. PICK list, new : list = intblobs /\ new = intblobs'
  OBVIOUS
<1>3. ASSUME GoodList(list), new = list PROVE GoodList(intblobs)'
  BY <1>1, <1>2, <1>3, GoodWillBe DEF GoodList
<1>4. MappedIn(intblobs)' = MappedIn(new) /\ InBlocks(intblobs)' = InBlocks(new)
  BY <1>2 DEF MappedIn, InBlocks, Range
<1>5. CASE phase = "exchange"
  <2>1. CASE resumed
    <3>1. new = list /\ (phase' = "spin" \/ (phase' = "map" /\ results' = MappedIn(list)))
      BY <1>2, <1>5, <2>1 DEF EndPhase, EnterMap, EnterPhase
    <3>2. GoodList(list)
      BY <1>2, <1>5, <2>1 DEF ListTrue, InUse
    <3> QED BY <1>1, <1>3, <1>4, <2>1, <3>1, <3>2 DEF ListTrue, InUse
  <2>2. CASE ~resumed
    <3>1. phase' = "map" /\ results' = {} /\ new = <<>>
      BY <1>2, <1>5, <2>2 DEF EndPhase, EnterMap, EnterPhase
    <3>2. GoodList(intblobs)'
      <4>1. new \in Seq(IntName(Container[job]) \cap DOMAIN storage) /\ NoneTwice(new) /\ WholeShards(new)
        BY <3>1, EmptyList
      <4> QED BY <1>1, <1>2, <4>1, GoodWillBe
    <3>3. MappedIn(new) = {} /\ InBlocks(new)
      BY <3>1, EmptyList
    <3> QED BY <1>1, <1>4, <2>2, <3>1, <3>2, <3>3 DEF ListTrue
  <2> QED BY <2>1, <2>2
<1>6. CASE phase = "map"
  <2>1. phase' = "reduce" /\ new = list
    BY <1>2, <1>6 DEF EndPhase, EnterPhase
  <2>2. GoodList(list) /\ MappedIn(list) = results /\ (~resumed => InBlocks(list))
    BY <1>2, <1>6 DEF ListTrue, InUse
  <2>3. MappedIn(list) = Shards
    BY <1>1, <1>6, <2>2, TasksAre
  <2> QED BY <1>1, <1>3, <1>4, <2>1, <2>2, <2>3 DEF ListTrue, Shards
<1>7. CASE phase = "reduce"
  <2>1. phase' = "idle"
    BY <1>7 DEF EndPhase, EnterPhase
  <2> QED BY <1>1, <2>1 DEF ListTrue, InUse
<1>8. phase \in Phases
  BY DEF RegInv, RegType
<1> QED BY <1>1, <1>5, <1>6, <1>7, <1>8 DEF Phases

\* Every step keeps the list.
LEMMA ListNext ==
    ASSUME RegInv, JobInv, CallInv, MapsTrue, ListTrue, [Next]_vars
    PROVE  ListTrue'
<1>1. CASE StartJob
  <2>1. phase' = "update" /\ resumed' = FALSE /\ intblobs' = intblobs /\ job' = job + 1 /\ job \in Nat
    BY <1>1 DEF StartJob, EnterPhase, JobInv
  <2>2. job' = 1 => intblobs' = <<>>
    BY <2>1 DEF ListTrue
  <2> QED BY <2>1, <2>2 DEF ListTrue, InUse
<1>2. CASE ~StartJob
  <2>0. job' = job /\ DOMAIN storage \subseteq DOMAIN storage'
    BY <1>2, StorageGrows
  <2>1. CASE MasterStep
    <3>1. CASE phase = "update" /\ (\E z \in unread : AddWorker(z)) /\ UNCHANGED masterVars
      BY <2>0, <3>1, ListStays DEF masterVars, leaderVars
    <3>2. CASE EndUpdate
      <4>1. /\ phase = "update" /\ phase' = "exchange" /\ resumed' = resumed
            /\ intblobs' = intblobs /\ storage' = storage
        BY <3>2 DEF EndUpdate, RemoveWorkers, workerVars, leaderVars
      <4>2. PICK list : list = intblobs
        OBVIOUS
      <4>3. resumed => GoodList(list)
        BY <4>1, <4>2 DEF ListTrue, InUse
      <4>4. resumed => GoodList(intblobs)'
        BY <2>0, <4>1, <4>2, <4>3, GoodWillBe DEF GoodList
      <4>5. job = 0 \/ (job = 1 /\ ~resumed) => intblobs = <<>>
        BY <4>1 DEF ListTrue
      <4> QED BY <2>0, <4>1, <4>4, <4>5 DEF ListTrue, InUse
    <3>3. CASE RejectJob
      <4>1. phase' = "idle" /\ phase = "update"
        BY <3>3 DEF RejectJob, EnterPhase
      <4>2. job # 0
        BY <4>1 DEF JobInv
      <4> QED BY <2>0, <4>1, <4>2 DEF ListTrue, InUse
    <3>4. CASE EndPhase
      BY <3>4, ListPhase
    <3>5. ASSUME NEW c \in Range(m_Clients), ExchangeUnreachable(c) PROVE ListTrue'
      <4>1. phase = "exchange" /\ phase' = phase /\ resumed' = resumed /\ intblobs' = intblobs
        BY <3>5 DEF ExchangeUnreachable, leaderVars
      <4> QED BY <2>0, <4>1, ListStays
    <3>6. ASSUME NEW c \in Range(m_Clients), HeartbeatOk(c) \/ HeartbeatFails(c) PROVE ListTrue'
      <4>1. phase' = phase /\ resumed' = resumed /\ intblobs' = intblobs /\ results' = results
        BY <3>6 DEF HeartbeatOk, HeartbeatFails, PingExpires, leaderVars
      <4> QED BY <2>0, <4>1, ListStays
    <3>7. ASSUME NEW c \in Range(m_Clients), NEW t \in todo, Send(c, t) PROVE ListTrue'
      <4>1. phase' = phase /\ resumed' = resumed /\ intblobs' = intblobs /\ results' = results
        BY <3>7 DEF Send, leaderVars
      <4> QED BY <2>0, <4>1, ListStays
    <3> QED BY <1>2, <2>1, <3>1, <3>2, <3>3, <3>4, <3>5, <3>6, <3>7 DEF MasterStep
  <2>2. ASSUME NEW D, FailCalls(D), \A c \in D : c.kind = phase PROVE ListTrue'
    <3>1. phase' = phase /\ resumed' = resumed /\ intblobs' = intblobs
      BY <2>2 DEF FailCalls, leaderVars
    <3>2. phase = "map" => results' = results
      <4>1. ASSUME phase = "map" PROVE {c.task : c \in {x \in D : x.kind = "exchange"}} = {}
        BY <2>2, <4>1
      <4>2. results' = results \cup {c.task : c \in {x \in D : x.kind = "exchange"}}
        BY <2>2 DEF FailCalls
      <4> QED BY <4>1, <4>2
    <3> QED BY <2>0, <3>1, <3>2, ListStays
  <2>3. ASSUME NEW w \in Workers, NEW c \in LiveCallsAt(w) PROVE c.kind = phase
    <3>1. PICK p \in Places : c \in OpenAt(w, p)
      BY LiveCallsAre DEF CallInv
    <3> QED BY <3>1 DEF CallInv, CallsCurrent
  <2>4. ASSUME NEW w \in Workers, WorkerStep(w) PROVE ListTrue'
    <3>1. CASE (Work(w) /\ UNCHANGED <<registryVars, masterVars>>) \/ (Register(w) /\ UNCHANGED masterVars)
      <4>1. phase' = phase /\ resumed' = resumed /\ intblobs' = intblobs /\ results' = results
        BY <3>1 DEF masterVars, leaderVars
      <4> QED BY <2>0, <4>1, ListStays
    <3>2. CASE AnswerCall(w)
      BY <3>2, ListAnswer
    <3>3. CASE WorkerStops(w)
      <4>1. FailCalls(LiveCallsAt(w))
        BY <3>3 DEF WorkerStops
      <4> QED BY <2>2, <2>3, <4>1
    <3> QED BY <2>4, <3>1, <3>2, <3>3 DEF WorkerStep
  <2>5. ASSUME NEW w \in Workers, Crash(w) PROVE ListTrue'
    <3>1. FailCalls(LiveCallsAt(w))
      BY <2>5 DEF Crash
    <3> QED BY <2>2, <2>3, <3>1
  <2>6. ASSUME NEW w \in Workers, NEW c \in LiveCallsAt(w), Expire(w, c) PROVE ListTrue'
    <3>1. FailCalls({c}) /\ c.kind = phase
      BY <2>3, <2>6 DEF Expire
    <3> QED BY <2>2, <3>1
  <2>7. CASE TakeOver
    BY <2>7, ListTakeOver
  <2>8. ASSUME NEW w \in Workers, StraySend(w) PROVE ListTrue'
    <3>1. phase' = phase /\ resumed' = resumed /\ intblobs' = intblobs /\ results' = results
      BY <2>8 DEF StraySend, leaderVars
    <3> QED BY <2>0, <3>1, ListStays
  <2>9. CASE UNCHANGED masterVars
    <3>1. phase' = phase /\ resumed' = resumed /\ intblobs' = intblobs /\ results' = results
      BY <2>9 DEF masterVars, leaderVars
    <3> QED BY <2>0, <3>1, ListStays
  <2> QED BY <2>1, <2>4, <2>5, <2>6, <2>7, <2>8, <2>9 DEF Next, ZooKeeperStep, vars
<1> QED BY <1>1, <1>2

\* The blob list names exactly the blobs there should be.
LEMMA ListImplies ==
    ASSUME RegInv, JobInv, BlobsTrue, ListTrue
    PROVE  IntBlobsRight
<1> SUFFICES ASSUME phase \in {"map", "reduce"}
             PROVE  /\ \A i \in DOMAIN intblobs :
                           /\ intblobs[i] \in DOMAIN storage
                           /\ storage[intblobs[i]] = {<<job, intblobs[i][4], intblobs[i][5]>>}
                    /\ \A sid \in (IF phase = "map" THEN results ELSE Shards), p \in 1..NPieces, r \in Reducers :
                           Cardinality({i \in DOMAIN intblobs :
                               /\ intblobs[i][4] = sid /\ intblobs[i][5] = p /\ intblobs[i][6] = r}) = 1
  BY DEF IntBlobsRight
<1>0. job # 0
  BY DEF JobInv
<1>1. GoodList(intblobs) /\ MappedIn(intblobs) = IF phase = "map" THEN results ELSE Shards
  BY DEF ListTrue, InUse
<1>2. DOMAIN intblobs = 1..Len(intblobs)
  BY <1>1, LenProperties DEF GoodList
<1>3. ASSUME NEW i \in DOMAIN intblobs
      PROVE  /\ intblobs[i] \in DOMAIN storage
             /\ storage[intblobs[i]] = {<<job, intblobs[i][4], intblobs[i][5]>>}
  <2>1. intblobs[i] \in IntName(Container[job]) \cap DOMAIN storage
    BY <1>1, <1>2, ElementOfSeq DEF GoodList
  <2>2. intblobs[i][1] = "int" /\ intblobs[i][2] = Container[job]
    BY <2>1 DEF IntName, IntBlob
  <2> QED BY <1>0, <2>1, <2>2 DEF BlobsTrue
<1>4. ASSUME NEW sid \in MappedIn(intblobs), NEW p \in 1..NPieces, NEW r \in Reducers
      PROVE  Cardinality({i \in DOMAIN intblobs :
                 /\ intblobs[i][4] = sid /\ intblobs[i][5] = p /\ intblobs[i][6] = r}) = 1
  <2>1. PICK k \in 1..Len(intblobs) : intblobs[k][4] = sid
    BY <1>2 DEF MappedIn, Range
  <2>2. PICK j \in 1..Len(intblobs) : intblobs[j][4] = sid /\ intblobs[j][5] = p /\ intblobs[j][6] = r
    BY <1>1, <2>1 DEF GoodList, WholeShards
  <2>3. {i \in DOMAIN intblobs : /\ intblobs[i][4] = sid /\ intblobs[i][5] = p /\ intblobs[i][6] = r} = {j}
    BY <1>1, <1>2, <2>2 DEF GoodList, NoneTwice
  <2> QED BY <2>3, FS_Singleton
<1> QED BY <1>1, <1>3, <1>4

--------------------------------------------------------------------------------
(* The calls of the reducers.                                                  *)

\* A list that names a shard names each of its pieces.
LEMMA WholeHas ==
    ASSUME NEW list, WholeShards(list), NEW i \in 1..Len(list), NEW p \in 1..NPieces, NEW r \in Reducers
    PROVE  \E j \in 1..Len(list) : list[j][4] = list[i][4] /\ list[j][5] = p /\ list[j][6] = r
BY DEF WholeShards

\* The blobs of a partition in a list that names every piece of every shard.
LEMMA FedByList ==
    ASSUME NEW S, NEW list \in Seq(S), WholeShards(list), MappedIn(list) = Shards, NEW r \in Reducers
    PROVE  BlobsFor(r, list) \in Seq(S) /\ Whole(BlobsFor(r, list))
<1>1. PICK P, b : P = {x \in Range(list) : x[6] = r} /\ b = Sublist(list, P)
  OBVIOUS
<1>2. b = BlobsFor(r, list)
  BY <1>1 DEF BlobsFor
<1>3. b \in Seq(S) /\ Range(b) = Range(list) \cap P
  BY <1>1, SublistIs
<1>4. DOMAIN b = 1..Len(b) /\ DOMAIN list = 1..Len(list)
  BY <1>3, LenProperties
<1>5. ASSUME NEW s \in Shards, NEW p \in 1..NPieces
      PROVE  \E i \in 1..Len(b) : b[i][4] = s /\ b[i][5] = p
  <2>1. PICK i \in 1..Len(list) : list[i][4] = s
    BY <1>4 DEF MappedIn, Range
  <2>2. PICK j \in 1..Len(list) : list[j][4] = s /\ list[j][5] = p /\ list[j][6] = r
    <3>1. \E j \in 1..Len(list) : list[j][4] = list[i][4] /\ list[j][5] = p /\ list[j][6] = r
      BY WholeHas
    <3> QED BY <2>1, <3>1, Zenon
  <2>3. list[j] \in Range(list)
    BY <1>4 DEF Range
  <2>4. list[j] \in Range(b)
    BY <1>1, <1>3, <2>2, <2>3
  <2>5. PICK i0 \in 1..Len(b) : list[j] = b[i0]
    BY <1>4, <2>4 DEF Range
  <2> QED BY <2>2, <2>5
<1> QED BY <1>2, <1>3, <1>5 DEF Whole

\* Calls that end name what they named.
LEMMA FedEnded ==
    ASSUME NEW S, NEW c, Fed(c, S), c = NoCall \/ IsCall(c)
    PROVE  Fed(Ended(c), S)
<1>1. CASE c = NoCall
  BY <1>1, EndedCall
<1>2. CASE IsCall(c)
  BY <1>2, EndedCall DEF Fed
<1> QED BY <1>1, <1>2

\* No calls.
LEMMA FedNone == \A S : Fed(NoCall, S) /\ AllFed(<<>>, S)
BY EmptyQueue DEF Fed, AllFed, NoCall

\* A call comes, is taken, ends or is dropped.
LEMMA FedAppend ==
    ASSUME NEW S, NEW q, IsQueue(q), AllFed(q, S), NEW c, Fed(c, S)
    PROVE  AllFed(Append(q, c), S)
<1>1. PICK e, T : e = Append(q, c) /\ T = Range(q) \cup {c}
  OBVIOUS
<1>2. q \in Seq(T) /\ c \in T
  <2>1. q \in Seq(Range(q)) /\ Range(q) \subseteq T
    BY <1>1 DEF IsQueue
  <2> QED BY <1>1, <2>1, SeqGrows
<1>3. Len(q) \in Nat /\ Len(e) = Len(q) + 1 /\ e[Len(q) + 1] = c /\ \A i \in 1..Len(q) : e[i] = q[i]
  BY <1>1, <1>2, AppendProperties, LenProperties
<1>4. \A i \in 1..Len(e) : i \in 1..Len(q) \/ i = Len(q) + 1
  BY <1>3
<1>5. AllFed(e, S)
  BY <1>3, <1>4 DEF AllFed
<1> QED BY <1>1, <1>5

LEMMA FedTail ==
    ASSUME NEW S, NEW q, IsQueue(q), AllFed(q, S), q # <<>>
    PROVE  AllFed(Tail(q), S) /\ Fed(Head(q), S)
<1>1. PICK t : t = Tail(q)
  OBVIOUS
<1>2. q \in Seq(Range(q)) /\ Len(q) \in Nat /\ Len(q) # 0
  BY LenProperties, EmptySeq DEF IsQueue
<1>3. Head(q) = q[1] /\ Len(t) = Len(q) - 1 /\ \A i \in 1..Len(t) : t[i] = q[i + 1]
  BY <1>1, <1>2, HeadTailProperties
<1>4. 1 \in 1..Len(q) /\ \A i \in 1..Len(t) : i + 1 \in 1..Len(q)
  BY <1>2, <1>3
<1>5. AllFed(t, S)
  BY <1>3, <1>4 DEF AllFed
<1> QED BY <1>1, <1>3, <1>4, <1>5 DEF AllFed

LEMMA FedEnd ==
    ASSUME NEW S, NEW q, IsQueue(q), AllFed(q, S)
    PROVE  AllFed(EndAll(q), S) /\ \A c : IsCall(c) /\ c.live => AllFed(EndIn(q, c), S)
<1>1. DOMAIN q = 1..Len(q) /\ \A i \in 1..Len(q) : IsCall(q[i]) /\ Fed(Ended(q[i]), S)
  <2>1. DOMAIN q = 1..Len(q) /\ \A i \in 1..Len(q) : IsCall(q[i])
    BY QueueList
  <2> QED BY <2>1, FedEnded DEF AllFed
<1>2. AllFed(EndAll(q), S)
  <2>1. Len(EndAll(q)) = Len(q)
    BY QueueEndAll
  <2>2. \A i \in 1..Len(q) : EndAll(q)[i] = Ended(q[i])
    BY <1>1 DEF EndAll
  <2> QED BY <1>1, <2>1, <2>2 DEF AllFed
<1>3. ASSUME NEW c, IsCall(c), c.live PROVE AllFed(EndIn(q, c), S)
  <2>1. Len(EndIn(q, c)) = Len(q)
    BY <1>3, QueueEndIn
  <2>2. \A i \in 1..Len(q) : EndIn(q, c)[i] = Ended(q[i]) \/ EndIn(q, c)[i] = q[i]
    BY <1>1 DEF EndIn
  <2> QED BY <1>1, <2>1, <2>2 DEF AllFed
<1> QED BY <1>2, <1>3

LEMMA FedDrop ==
    ASSUME NEW S, NEW q, IsQueue(q), AllFed(q, S), NEW P
    PROVE  AllFed(Sublist(q, P), S)
<1>1. PICK b : b = Sublist(q, P)
  OBVIOUS
<1>2. q \in Seq(Range(q))
  BY DEF IsQueue
<1>3. PICK f \in [1..Len(b) -> 1..Len(q)] : \A i \in 1..Len(b) : b[i] = q[f[i]]
  BY <1>1, <1>2, SublistIs
<1>4. AllFed(b, S)
  BY <1>3 DEF AllFed
<1> QED BY <1>1, <1>4

\* One worker's calls change.
LEMMA FedKeep ==
    ASSUME NEW S, CallsFed(S), NEW w \in Workers,
           \A v \in Workers \ {w} : running'[v] = running[v] /\ cq'[v] = cq[v] /\ pending'[v] = pending[v],
           Fed(running'[w], S), AllFed(cq'[w], S), \A k \in Kinds : AllFed(pending'[w][k], S)
    PROVE  CallsFed(S)'
<1>1. ASSUME NEW v \in Workers
      PROVE  Fed(running'[v], S) /\ AllFed(cq'[v], S) /\ \A k \in Kinds : AllFed(pending'[v][k], S)
  <2>1. CASE v = w
    BY <2>1
  <2>2. CASE v # w
    BY <2>2 DEF CallsFed
  <2> QED BY <2>1, <2>2
<1> QED BY <1>1 DEF CallsFed, Kinds, Fed, AllFed, Whole, Shards

\* None changes.
LEMMA FedSame ==
    ASSUME NEW S, CallsFed(S), running' = running, cq' = cq, pending' = pending
    PROVE  CallsFed(S)'
<1>1. ASSUME NEW v \in Workers
      PROVE  Fed(running'[v], S) /\ AllFed(cq'[v], S) /\ \A k \in Kinds : AllFed(pending'[v][k], S)
  BY Zenon DEF CallsFed
<1> QED BY <1>1 DEF CallsFed, Kinds, Fed, AllFed, Whole, Shards

\* A call reaches a worker.
LEMMA FedArrive ==
    ASSUME NEW S, CallInv, CallsFed(S), NEW w \in Workers, NEW c, IsCall(c), Fed(c, S), Arrive(w, c)
    PROVE  CallsFed(S)'
<1>1. /\ DOMAIN cq = Workers /\ DOMAIN pending = Workers /\ IsQueue(cq[w]) /\ DOMAIN pending[w] = Kinds
      /\ \A k \in Kinds : IsQueue(pending[w][k]) /\ AllFed(pending[w][k], S)
      /\ AllFed(cq[w], S) /\ Fed(running[w], S) /\ c.kind \in Kinds
  BY QueuesOf DEF CallInv, QueueType, CallsFed, IsCall
<1>2. CASE c.kind \in armed[w]
  <2>1. cq' = [cq EXCEPT ![w] = Append(cq[w], c)] /\ pending' = pending /\ running' = running
    BY <1>2 DEF Arrive
  <2>2. AllFed(cq'[w], S)
    <3>1. cq'[w] = Append(cq[w], c)
      BY <1>1, <2>1
    <3> QED BY <1>1, <3>1, FedAppend
  <2>3. \A v \in Workers \ {w} : running'[v] = running[v] /\ cq'[v] = cq[v] /\ pending'[v] = pending[v]
    BY <1>1, <2>1
  <2>4. Fed(running'[w], S) /\ \A k \in Kinds : AllFed(pending'[w][k], S)
    BY <1>1, <2>1, Zenon
  <2> QED BY <2>2, <2>3, <2>4, FedKeep
<1>3. CASE c.kind \notin armed[w]
  <2>1. cq' = cq /\ running' = running /\ pending' = [pending EXCEPT ![w][c.kind] = Append(@, c)]
    BY <1>3 DEF Arrive
  <2>2. /\ \A v \in Workers \ {w} : pending'[v] = pending[v]
        /\ \A k \in Kinds : pending'[w][k] = IF k = c.kind THEN Append(pending[w][k], c) ELSE pending[w][k]
    BY <1>1, <2>1
  <2>3. \A k \in Kinds : AllFed(pending'[w][k], S)
    BY <1>1, <2>2, FedAppend
  <2> QED BY <1>1, <2>1, <2>2, <2>3, FedKeep
<1> QED BY <1>2, <1>3

\* The thread takes one, and gRPC hands over the next of its kind.
LEMMA FedTake ==
    ASSUME NEW S, CallInv, CallsFed(S), NEW w \in Workers, Take(w)
    PROVE  CallsFed(S)'
<1>1. /\ DOMAIN cq = Workers /\ DOMAIN pending = Workers /\ DOMAIN running = Workers
      /\ IsQueue(cq[w]) /\ DOMAIN pending[w] = Kinds
      /\ \A k \in Kinds : IsQueue(pending[w][k]) /\ AllFed(pending[w][k], S)
      /\ AllFed(cq[w], S)
  BY QueuesOf DEF CallInv, QueueType, CallsFed
<1>2. PICK h, t : h = Head(cq[w]) /\ t = Tail(cq[w])
  OBVIOUS
<1>3. Fed(h, S) /\ AllFed(t, S) /\ cq[w] # <<>>
  BY <1>1, <1>2, FedTail DEF Take
<1>4. running' = [running EXCEPT ![w] = h] /\ AddNextToCompletionQueue(w, h.kind)
  BY <1>2 DEF Take
<1>5. \A v \in Workers \ {w} : running'[v] = running[v]
  BY <1>1, <1>4
<1>6. Fed(running'[w], S)
  BY <1>1, <1>3, <1>4
<1>7. CASE pending[w][h.kind] = <<>>
  <2>1. cq' = [cq EXCEPT ![w] = t] /\ pending' = pending
    BY <1>2, <1>4, <1>7 DEF AddNextToCompletionQueue
  <2> QED BY <1>1, <1>3, <1>5, <1>6, <2>1, FedKeep
<1>8. CASE pending[w][h.kind] # <<>>
  <2>0. h.kind \in Kinds /\ IsQueue(t)
    <3>1. IsCall(h) /\ IsQueue(t)
      BY <1>1, <1>2, <1>3, QueueTail
    <3> QED BY <3>1 DEF IsCall
  <2>1. PICK q : q = pending[w][h.kind]
    OBVIOUS
  <2>2. cq' = [cq EXCEPT ![w] = Append(t, Head(q))] /\ pending' = [pending EXCEPT ![w][h.kind] = Tail(@)]
    BY <1>2, <1>4, <1>8, <2>1 DEF AddNextToCompletionQueue
  <2>3. AllFed(Tail(q), S) /\ Fed(Head(q), S)
    BY <1>1, <1>8, <2>0, <2>1, FedTail
  <2>4. AllFed(Append(t, Head(q)), S)
    BY <1>3, <2>0, <2>3, FedAppend
  <2>5. cq'[w] = Append(t, Head(q)) /\ \A v \in Workers \ {w} : cq'[v] = cq[v]
    BY <1>1, <2>2
  <2>6. /\ \A v \in Workers \ {w} : pending'[v] = pending[v]
        /\ \A k \in Kinds : pending'[w][k] = IF k = h.kind THEN Tail(q) ELSE pending[w][k]
    BY <1>1, <2>1, <2>2
  <2>7. \A k \in Kinds : AllFed(pending'[w][k], S)
    BY <1>1, <2>3, <2>6
  <2> QED BY <1>5, <1>6, <2>4, <2>5, <2>6, <2>7, FedKeep
<1> QED BY <1>7, <1>8

\* A worker stops, or answers.
LEMMA FedStop ==
    ASSUME NEW S, CallInv, CallsFed(S), NEW w \in Workers, Stop(w) \/ Answer(w)
    PROVE  CallsFed(S)'
<1>1. /\ DOMAIN cq = Workers /\ DOMAIN pending = Workers /\ DOMAIN running = Workers
      /\ AllFed(cq[w], S) /\ \A k \in Kinds : AllFed(pending[w][k], S)
  BY DEF CallInv, QueueType, CallsFed
<1>2. running'[w] = NoCall /\ \A v \in Workers \ {w} : running'[v] = running[v]
  BY <1>1 DEF Stop, Answer
<1>3. CASE Answer(w)
  <2>1. cq' = cq /\ pending' = pending
    BY <1>3 DEF Answer
  <2> QED BY <1>1, <1>2, <2>1, FedNone, FedKeep
<1>4. CASE Stop(w)
  <2>1. /\ cq'[w] = <<>> /\ \A k \in Kinds : pending'[w][k] = <<>>
        /\ \A v \in Workers \ {w} : cq'[v] = cq[v] /\ pending'[v] = pending[v]
    BY <1>1, <1>4 DEF Stop
  <2> QED BY <1>2, <2>1, FedNone, FedKeep
<1> QED BY <1>3, <1>4

\* A deadline passes.
LEMMA FedExpire ==
    ASSUME NEW S, CallInv, CallsFed(S), NEW w \in Workers, NEW c \in LiveCallsAt(w), Expire(w, c)
    PROVE  CallsFed(S)'
<1>1. /\ DOMAIN cq = Workers /\ DOMAIN pending = Workers /\ DOMAIN running = Workers
      /\ IsQueue(cq[w]) /\ DOMAIN pending[w] = Kinds
      /\ \A k \in Kinds : IsQueue(pending[w][k]) /\ AllFed(pending[w][k], S)
      /\ AllFed(cq[w], S) /\ Fed(running[w], S)
  BY QueuesOf DEF CallInv, QueueType, CallsFed
<1>2. IsCall(c) /\ c.live
  <2>1. PICK p \in Places : c \in OpenAt(w, p)
    BY LiveCallsAre DEF CallInv
  <2> QED BY <2>1, OpenIsCall DEF CallInv, LiveCallsAt
<1>3. Fed(running'[w], S) /\ \A v \in Workers \ {w} : running'[v] = running[v]
  <2>1. running' = [running EXCEPT ![w] = IF running[w] = c THEN Ended(c) ELSE running[w]]
    BY DEF Expire
  <2>2. running'[w] = IF running[w] = c THEN Ended(c) ELSE running[w]
    BY <1>1, <2>1
  <2> QED BY <1>1, <1>2, <2>1, <2>2, FedEnded
<1>4. AllFed(cq'[w], S) /\ \A v \in Workers \ {w} : cq'[v] = cq[v]
  <2>1. cq' = [cq EXCEPT ![w] = EndIn(cq[w], c)]
    BY DEF Expire
  <2>2. AllFed(EndIn(cq[w], c), S)
    BY <1>1, <1>2, FedEnd
  <2> QED BY <1>1, <2>1, <2>2
<1>5. c.kind \in Kinds
  BY <1>2 DEF IsCall
<1>6. PICK q, e : /\ q = pending[w][c.kind]
                  /\ e \in {Sublist(q, Range(q) \ {c}), EndIn(q, c)}
                  /\ pending' = [pending EXCEPT ![w][c.kind] = e]
  <2>1. PICK q : q = pending[w][c.kind]
    OBVIOUS
  <2>2. \/ pending' = [pending EXCEPT ![w][c.kind] = Sublist(q, Range(q) \ {c})]
        \/ pending' = [pending EXCEPT ![w][c.kind] = EndIn(q, c)]
    BY <1>1, <1>5, <2>1 DEF Expire
  <2> QED BY <2>1, <2>2
<1>7. AllFed(e, S)
  BY <1>1, <1>2, <1>5, <1>6, FedEnd, FedDrop
<1>8. /\ \A v \in Workers \ {w} : pending'[v] = pending[v]
      /\ \A k \in Kinds : pending'[w][k] = IF k = c.kind THEN e ELSE pending[w][k]
  BY <1>1, <1>6
<1>9. \A k \in Kinds : AllFed(pending'[w][k], S)
  BY <1>1, <1>7, <1>8
<1> QED BY <1>3, <1>4, <1>8, <1>9, FedKeep

\* The leader is replaced.
LEMMA FedOrphans ==
    ASSUME NEW S, CallInv, CallsFed(S), OrphanCalls
    PROVE  CallsFed(S)'
<1>1. ASSUME NEW w \in Workers
      PROVE  Fed(running'[w], S) /\ AllFed(cq'[w], S) /\ \A k \in Kinds : AllFed(pending'[w][k], S)
  <2>1. /\ IsQueue(cq[w]) /\ AllFed(cq[w], S) /\ (running[w] = NoCall \/ IsCall(running[w]))
        /\ \A k \in Kinds : IsQueue(pending[w][k]) /\ AllFed(pending[w][k], S)
        /\ Fed(running[w], S)
    BY QueuesOf DEF CallInv, CallsFed
  <2>2. /\ running'[w] = Ended(running[w]) /\ cq'[w] = EndAll(cq[w])
        /\ \A k \in Kinds : pending'[w][k] = EndAll(pending[w][k]) \/ pending'[w][k] = <<>>
    BY DEF OrphanCalls
  <2>3. Fed(Ended(running[w]), S) /\ AllFed(EndAll(cq[w]), S)
    BY <2>1, FedEnded, FedEnd
  <2>4. \A k \in Kinds : AllFed(EndAll(pending[w][k]), S) /\ AllFed(<<>>, S)
    BY <2>1, FedEnd, FedNone
  <2> QED BY <2>2, <2>3, <2>4
<1> QED BY <1>1 DEF CallsFed, Kinds, Fed, AllFed, Whole, Shards

\* The calls that are sent are fed with blobs of a list that names every piece.
LEMMA FedNext ==
    ASSUME NEW S, S = Stored, RegInv, JobInv, CallInv, ListTrue, CallsFed(S), OldFed(S), [Next]_vars
    PROVE  CallsFed(S)'
<1>1. CASE MasterStep
  <2>1. CASE running' = running /\ cq' = cq /\ pending' = pending
    BY <2>1, FedSame
  <2>2. ASSUME NEW c \in Range(m_Clients), NEW t \in todo, Send(c, t) PROVE CallsFed(S)'
    <3>w. PICK w, d : w = c.addr /\ d = CallFor(job, phase, t, intblobs)
      OBVIOUS
    <3>1. w \in Workers
      <4>1. PICK i \in DOMAIN m_Clients : c = m_Clients[i]
        BY DEF Range
      <4>2. m_Clients \in Seq(Client)
        BY DEF RegInv, RegType
      <4>3. c \in Client
        BY <4>1, <4>2, LenProperties, ElementOfSeq
      <4> QED BY <2>2, <3>w, <4>3 DEF Client, Addresses, Send, Reachable
    <3>2. Arrive(w, d)
      BY <2>2, <3>w DEF Send, Arrive
    <3>3. t \in TasksOf(phase)
      BY DEF CallInv, TasksSplit
    <3>4. phase \in Kinds
      BY <3>3, TasksAre
    <3>5. IsCall(d)
      <4>1. phase # "idle"
        BY <3>4 DEF Kinds
      <4>2. job \in 1..MaxJobs
        BY <4>1, WorkerAssumption DEF JobInv
      <4> QED BY <3>w, <3>4, <4>2 DEF CallFor, IsCall
    <3>6. Fed(d, S)
      <4>1. CASE phase = "reduce"
        <5>1. d.blobs = BlobsFor(t, intblobs)
          BY <3>w, <4>1 DEF CallFor
        <5>2. GoodList(intblobs) /\ MappedIn(intblobs) = Shards
          BY <4>1 DEF ListTrue, InUse
        <5>3. intblobs \in Seq(S) /\ WholeShards(intblobs) /\ t \in Reducers
          BY <3>3, <4>1, <5>2, TasksAre DEF GoodList, Stored
        <5>4. BlobsFor(t, intblobs) \in Seq(S) /\ Whole(BlobsFor(t, intblobs))
          BY <5>2, <5>3, FedByList
        <5> QED BY <5>1, <5>4 DEF Fed
      <4>2. CASE phase # "reduce"
        BY <3>w, <4>2 DEF CallFor, Fed
      <4> QED BY <4>1, <4>2
    <3> QED BY <3>1, <3>2, <3>5, <3>6, FedArrive
  <2>3. CASE StartJob
    BY <2>1, <2>3 DEF StartJob
  <2>4. CASE phase = "update" /\ (\E z \in unread : AddWorker(z)) /\ UNCHANGED masterVars
    BY <2>1, <2>4 DEF AddWorker, workerVars
  <2>5. CASE EndUpdate \/ RejectJob
    BY <2>1, <2>5 DEF EndUpdate, RejectJob, RemoveWorkers, workerVars
  <2>6. CASE EndPhase
    BY <2>1, <2>6 DEF EndPhase, workerVars
  <2>7. ASSUME NEW c \in Range(m_Clients), ExchangeUnreachable(c) \/ HeartbeatOk(c) \/ HeartbeatFails(c)
        PROVE  CallsFed(S)'
    BY <2>1, <2>7 DEF ExchangeUnreachable, HeartbeatOk, HeartbeatFails, PingExpires, workerVars
  <2> QED BY <1>1, <2>2, <2>3, <2>4, <2>5, <2>6, <2>7 DEF MasterStep
<1>2. ASSUME NEW w \in Workers, WorkerStep(w) PROVE CallsFed(S)'
  <2>1. CASE Work(w) /\ UNCHANGED <<registryVars, masterVars>>
    <3>1. CASE TakeCall(w)
      BY <3>1, FedTake DEF TakeCall
    <3>2. CASE ~TakeCall(w)
      <4>1. running' = running /\ cq' = cq /\ pending' = pending
        BY <2>1, <3>2 DEF Work, CreateConnection, MapPiece, AddIntermediateBlob, PrepareData, AddOutBlob
      <4> QED BY <4>1, FedSame
    <3> QED BY <3>1, <3>2
  <2>2. CASE AnswerCall(w)
    BY <2>2, FedStop DEF AnswerCall
  <2>3. CASE WorkerStops(w)
    BY <2>3, FedStop DEF WorkerStops, EnterFailState, LeaveLoop, UseNoConnection
  <2>4. CASE Register(w) /\ UNCHANGED masterVars
    <3>1. running' = running /\ cq' = cq /\ pending' = pending
      BY <2>4 DEF Register, RegisterWithZk, RegisterAddressWithZk, RunServer, workerVars
    <3> QED BY <3>1, FedSame
  <2> QED BY <1>2, <2>1, <2>2, <2>3, <2>4 DEF WorkerStep
<1>3. ASSUME NEW w \in Workers, Crash(w) PROVE CallsFed(S)'
  BY <1>3, FedStop DEF Crash
<1>4. ASSUME NEW w \in Workers, NEW c \in LiveCallsAt(w), Expire(w, c) PROVE CallsFed(S)'
  BY <1>4, FedExpire
<1>5. CASE TakeOver
  BY <1>5, FedOrphans DEF TakeOver
<1>6. ASSUME NEW w \in Workers, StraySend(w) PROVE CallsFed(S)'
  <2>1. PICK o \in old, p \in {"map", "reduce"} :
            /\ p = "reduce" <=> o.blobs # <<>>
            /\ \E t \in TasksOf(p) : Arrive(w, Ended(CallFor(o.job, p, t, o.blobs)))
    BY <1>6 DEF StraySend
  <2>2. PICK t \in TasksOf(p) : Arrive(w, Ended(CallFor(o.job, p, t, o.blobs)))
    BY <2>1
  <2>3. PICK e, d : e = CallFor(o.job, p, t, o.blobs) /\ d = Ended(e)
    OBVIOUS
  <2>4. IsCall(e)
    <3>1. o.job \in 1..MaxJobs
      BY DEF JobInv
    <3> QED BY <2>3, <3>1 DEF CallFor, IsCall, Kinds
  <2>5. Fed(e, S)
    <3>1. CASE p = "reduce"
      <4>1. t \in Reducers /\ o.blobs # <<>>
        BY <2>1, <3>1, TasksAre
      <4>2. BlobsFor(t, o.blobs) \in Seq(S) /\ Whole(BlobsFor(t, o.blobs))
        BY <4>1 DEF OldFed
      <4> QED BY <2>3, <3>1, <4>2 DEF CallFor, Fed
    <3>2. CASE p # "reduce"
      BY <2>3, <3>2 DEF CallFor, Fed
    <3> QED BY <3>1, <3>2
  <2>6. IsCall(d) /\ Fed(d, S) /\ Arrive(w, d)
    BY <2>2, <2>3, <2>4, <2>5, EndedCall, FedEnded DEF Arrive
  <2> QED BY <2>6, FedArrive
<1>7. CASE (\E z \in DOMAIN znodes : SessionExpires(z)) /\ UNCHANGED masterVars
  <2>1. running' = running /\ cq' = cq /\ pending' = pending
    BY <1>7 DEF SessionExpires, workerVars
  <2> QED BY <2>1, FedSame
<1>8. CASE UNCHANGED vars
  <2>1. running' = running /\ cq' = cq /\ pending' = pending
    BY <1>8 DEF vars, workerVars
  <2> QED BY <2>1, FedSame
<1> QED BY <1>1, <1>2, <1>3, <1>4, <1>5, <1>6, <1>7, <1>8 DEF Next, ZooKeeperStep

\* Every reduce call names all of the input, in blobs that are in storage.
FedInv == CallsFed(Stored) /\ OldFed(Stored)

\* At first there are no calls.
LEMMA FedInit == ClusterInit => FedInv
<1> SUFFICES ASSUME ClusterInit PROVE FedInv
  OBVIOUS
<1>1. old = {} /\ \A w \in Workers : running[w] = NoCall /\ cq[w] = <<>> /\ \A k \in Kinds : pending[w][k] = <<>>
  BY DEF ClusterInit, Init
<1> QED BY <1>1, FedNone DEF FedInv, CallsFed, OldFed

\* More blobs are there.
LEMMA FedMore ==
    ASSUME NEW S, NEW T, S \subseteq T
    PROVE  /\ \A c : Fed(c, S) => Fed(c, T)
           /\ \A q : AllFed(q, S) => AllFed(q, T)
<1>1. ASSUME NEW c, Fed(c, S) PROVE Fed(c, T)
  BY <1>1, SeqGrows DEF Fed
<1>2. ASSUME NEW q, AllFed(q, S) PROVE AllFed(q, T)
  BY <1>1, <1>2 DEF AllFed
<1> QED BY <1>1, <1>2

\* In the next state.
LEMMA FedWillBe ==
    ASSUME NEW T, T = Stored', CallsFed(T)', OldFed(T)'
    PROVE  FedInv'
<1>1. ASSUME NEW w \in Workers
      PROVE  Fed(running'[w], T) /\ AllFed(cq'[w], T) /\ \A k \in Kinds : AllFed(pending'[w][k], T)
  BY DEF CallsFed, Kinds, Fed, AllFed, Whole, Shards
<1>2. CallsFed(Stored)'
  <2>1. ASSUME NEW w \in Workers
        PROVE  /\ Fed(running'[w], Stored') /\ AllFed(cq'[w], Stored')
               /\ \A k \in Kinds : AllFed(pending'[w][k], Stored')
    BY <1>1, Zenon
  <2> QED BY <2>1 DEF CallsFed, Kinds, Fed, AllFed, Whole, Shards
<1>3. OldFed(Stored)'
  BY DEF OldFed
<1> QED BY <1>2, <1>3 DEF FedInv

\* Only a takeover leaves a leader behind.
LEMMA OldStays ==
    ASSUME [Next]_vars, ~TakeOver
    PROVE  old' = old
<1>1. MasterStep => old' = old
  BY DEF MasterStep, StartJob, EndUpdate, RejectJob, EndPhase, ExchangeUnreachable, HeartbeatOk,
         HeartbeatFails, PingExpires, Send, masterVars, leaderVars
<1>2. ASSUME NEW w \in Workers, WorkerStep(w) \/ Crash(w) \/ StraySend(w) PROVE old' = old
  BY <1>2 DEF WorkerStep, AnswerCall, WorkerStops, Crash, StraySend, FailCalls, masterVars, leaderVars
<1>3. ASSUME NEW w \in Workers, NEW c \in LiveCallsAt(w), Expire(w, c) PROVE old' = old
  BY <1>3 DEF Expire, FailCalls, leaderVars
<1> QED BY <1>1, <1>2, <1>3 DEF Next, ZooKeeperStep, vars, masterVars, leaderVars

\* Every step keeps the reduce calls fed.
LEMMA FedStep ==
    ASSUME RegInv, JobInv, CallInv, TasksHere, ListTrue, FedInv, [Next]_vars
    PROVE  FedInv'
<1>0. PICK S, T : S = Stored /\ T = Stored'
  OBVIOUS
<1>s. CallsFed(S) /\ OldFed(S)
  BY <1>0 DEF FedInv
<1>1. CASE StartJob
  <2>1. running' = running /\ cq' = cq /\ pending' = pending /\ old' = old
    BY <1>1 DEF StartJob
  <2>2. old = {} /\ \A w \in Workers : Quiet(w)
    BY <1>1 DEF StartJob, TasksHere
  <2>3. CallsFed(T)
    BY <2>2, FedNone DEF CallsFed, Quiet
  <2>4. CallsFed(T)'
    BY <2>1, <2>3, FedSame
  <2>5. OldFed(T)'
    BY <2>1, <2>2 DEF OldFed
  <2> QED BY <1>0, <2>4, <2>5, FedWillBe
<1>2. CASE ~StartJob
  <2>1. S \subseteq T
    <3>1. job' = job /\ DOMAIN storage \subseteq DOMAIN storage'
      BY <1>2, StorageGrows
    <3>2. IntName(Container[job])' = IntName(Container[job])
      BY <3>1 DEF IntName, Shards, Reducers, IntBlob
    <3> QED BY <1>0, <3>1, <3>2 DEF Stored
  <2>2. CallsFed(T)'
    <3>1. CallsFed(S)'
      BY <1>0, <1>s, FedNext
    <3>2. ASSUME NEW w \in Workers
          PROVE  Fed(running'[w], S) /\ AllFed(cq'[w], S) /\ \A k \in Kinds : AllFed(pending'[w][k], S)
      BY <3>1 DEF CallsFed, Kinds, Fed, AllFed, Whole, Shards
    <3>3. ASSUME NEW w \in Workers
          PROVE  Fed(running'[w], T) /\ AllFed(cq'[w], T) /\ \A k \in Kinds : AllFed(pending'[w][k], T)
      BY <2>1, <3>2, FedMore
    <3> QED BY <3>3 DEF CallsFed, Kinds, Fed, AllFed, Whole, Shards
  <2>3. ASSUME NEW o \in old', o.blobs # <<>>, NEW r \in Reducers
        PROVE  BlobsFor(r, o.blobs) \in Seq(S) /\ Whole(BlobsFor(r, o.blobs))
    <3>1. CASE TakeOver
      <4>1. phase = "reduce" /\ o.blobs = intblobs
        BY <2>3, <3>1 DEF TakeOver
      <4>2. GoodList(intblobs) /\ MappedIn(intblobs) = Shards
        BY <4>1 DEF ListTrue, InUse
      <4>3. intblobs \in Seq(S) /\ WholeShards(intblobs)
        BY <1>0, <4>2 DEF GoodList, Stored
      <4> QED BY <4>1, <4>2, <4>3, FedByList
    <3>2. CASE ~TakeOver
      <4>1. old' = old
        BY <3>2, OldStays
      <4> QED BY <1>s, <2>3, <4>1 DEF OldFed
    <3> QED BY <3>1, <3>2
  <2>4. \A o \in old' : o.blobs # <<>> =>
            \A r \in Reducers : BlobsFor(r, o.blobs) \in Seq(T) /\ Whole(BlobsFor(r, o.blobs))
    BY <2>1, <2>3, SeqGrows
  <2>5. OldFed(T)'
    BY <2>4 DEF OldFed, Reducers, BlobsFor, Whole, Shards
  <2> QED BY <1>0, <2>2, <2>5, FedWillBe
<1> QED BY <1>1, <1>2

--------------------------------------------------------------------------------
(* What the reducers write.                                                    *)

\* At first there are no tasks, no blobs and no jobs.
LEMMA ReducesInit == ClusterInit => ReducesTrue /\ OutHolds /\ OutThere /\ OutputRight
BY DEF ClusterInit, Init, ReducesTrue, OutHolds, OutThere, OutputRight, NoCall

\* A reduce task that does not get on.
LEMMA ReduceStays ==
    ASSUME NEW w, running[w].kind = "reduce" => ReduceTrue(w),
           local'[w] = local[w], job' = job,
           running'[w].kind = running[w].kind, running'[w].task = running[w].task,
           running'[w].blobs = running[w].blobs,
           DOMAIN storage \subseteq DOMAIN storage'
    PROVE  running'[w].kind = "reduce" => ReduceTrue(w)'
<1> SUFFICES ASSUME running[w].kind = "reduce", ReduceTrue(w) PROVE ReduceTrue(w)'
  OBVIOUS
<1>1. PICK f, t, b : f = local[w] /\ t = running[w].task /\ b = running[w].blobs
  OBVIOUS
<1>2. /\ DOMAIN f = {"piece", "file", "data", "done"} /\ f.piece \in 1..Len(b) + 1
      /\ f.data = {<<job, b[i][4], b[i][5]>> : i \in 1..f.piece - 1}
      /\ f.done => OutBlob(Container[job], t) \in DOMAIN storage
  BY <1>1 DEF ReduceTrue
<1>3. local'[w] = f /\ running'[w].task = t /\ running'[w].blobs = b
  BY <1>1
<1> QED BY <1>2, <1>3 DEF ReduceTrue, OutBlob

\* One worker gets on, and blobs are only added.
LEMMA ReducesKeep ==
    ASSUME ReducesTrue, NEW w \in Workers, job' = job,
           \A v \in Workers \ {w} : local'[v] = local[v] /\ running'[v] = running[v],
           DOMAIN storage \subseteq DOMAIN storage',
           running'[w].kind = "reduce" => ReduceTrue(w)'
    PROVE  ReducesTrue'
<1>1. ASSUME NEW v \in Workers PROVE running'[v].kind = "reduce" => ReduceTrue(v)'
  <2>1. CASE v = w
    BY <2>1 DEF ReduceTrue
  <2>2. CASE v # w
    <3>1. running[v].kind = "reduce" => ReduceTrue(v)
      BY DEF ReducesTrue
    <3> QED BY <2>2, <3>1, ReduceStays
  <2> QED BY <2>1, <2>2
<1> QED BY <1>1 DEF ReducesTrue

\* What is known of a reduce task.
LEMMA ReduceIs ==
    ASSUME CallInv, TasksHere, FedInv, ReducesTrue, NEW w \in Workers, running[w].kind = "reduce"
    PROVE  /\ job # 0
           /\ running[w].blobs \in Seq(Stored) /\ Whole(running[w].blobs)
           /\ Len(running[w].blobs) \in Nat
           /\ ReduceTrue(w)
<1>1. IsCall(running[w])
  BY QueuesOf DEF CallInv, NoCall
<1>2. running[w].job = job /\ job # 0
  BY <1>1, Sizes DEF TasksHere, IsCall
<1>3. running[w].blobs \in Seq(Stored) /\ Whole(running[w].blobs)
  BY DEF FedInv, CallsFed, Fed
<1> QED BY <1>2, <1>3, LenProperties DEF ReducesTrue

\* A blob has been read.
LEMMA ReduceReads ==
    ASSUME StorageFails = FALSE, CallInv, TasksHere, BlobsTrue, MapsTrue, FedInv, ReducesTrue,
           NEW w \in Workers, PrepareData(w), job' = job
    PROVE  ReduceTrue(w)'
<1>1. /\ running[w].kind = "reduce" /\ running' = running /\ storage' = storage /\ ~local[w].done
      /\ local[w].piece <= Len(running[w].blobs) /\ DOMAIN local = Workers
  BY DEF PrepareData, MapsTrue
<1>2. PICK f, t, b : f = local[w] /\ t = running[w].task /\ b = running[w].blobs
  OBVIOUS
<1>3. job # 0 /\ b \in Seq(Stored) /\ Len(b) \in Nat /\ ReduceTrue(w)
  BY <1>1, <1>2, ReduceIs
<1>4. /\ DOMAIN f = {"piece", "file", "data", "done"} /\ f.piece \in 1..Len(b) + 1 /\ ~f.done
      /\ f.data = {<<job, b[i][4], b[i][5]>> : i \in 1..f.piece - 1}
      /\ f.piece <= Len(b)
  BY <1>1, <1>2, <1>3 DEF ReduceTrue
<1>5. PICK p : p = f.piece /\ p \in 1..Len(b)
  BY <1>3, <1>4
<1>6. storage[b[p]] = {<<job, b[p][4], b[p][5]>>} /\ b[p] \in DOMAIN storage
  <2>1. b[p] \in Stored
    BY <1>3, <1>5, ElementOfSeq
  <2>2. b[p] \in DOMAIN storage /\ b[p] \in IntName(Container[job])
    BY <2>1 DEF Stored
  <2>3. b[p][1] = "int" /\ b[p][2] = Container[job]
    BY <2>2 DEF IntName, IntBlob
  <2> QED BY <1>3, <2>2, <2>3 DEF BlobsTrue
<1>7. /\ local'[w].piece = p + 1 /\ local'[w].data = f.data \cup {<<job, b[p][4], b[p][5]>>}
      /\ local'[w].done = f.done /\ DOMAIN local'[w] = {"piece", "file", "data", "done"}
  <2>1. Downloaded(b[p]) = {{<<job, b[p][4], b[p][5]>>}}
    BY <1>6 DEF Downloaded
  <2>2. PICK read \in Downloaded(b[p]) : local' = [local EXCEPT ![w].piece = @ + 1, ![w].data = @ \cup read]
    BY <1>2, <1>5 DEF PrepareData
  <2>3. read = {<<job, b[p][4], b[p][5]>>}
    BY <2>1, <2>2
  <2> QED BY <1>1, <1>2, <1>4, <1>5, <2>2, <2>3
<1>8. {<<job, b[i][4], b[i][5]>> : i \in 1..p} = {<<job, b[i][4], b[i][5]>> : i \in 1..p - 1} \cup {<<job, b[p][4], b[p][5]>>}
  <2>1. \A i : i \in 1..p <=> i \in 1..p - 1 \/ i = p
    BY <1>3, <1>5
  <2> QED BY <2>1
<1>9. local'[w].piece - 1 = p /\ local'[w].piece \in 1..Len(b) + 1
  BY <1>3, <1>5, <1>7
<1>10. local'[w].data = {<<job, b[i][4], b[i][5]>> : i \in 1..local'[w].piece - 1}
  BY <1>4, <1>5, <1>7, <1>8, <1>9
<1>11. running'[w].blobs = b /\ ~local'[w].done
  BY <1>1, <1>2, <1>4, <1>7
<1> QED BY <1>7, <1>9, <1>10, <1>11 DEF ReduceTrue

\* The output has been written: it holds all of the input.
LEMMA ReduceWrites ==
    ASSUME StorageFails = FALSE, CallInv, TasksHere, MapsTrue, FedInv, ReducesTrue,
           NEW w \in Workers, AddOutBlob(w), job' = job
    PROVE  /\ ReduceTrue(w)'
           /\ Put(OutBlob(Container[job], running[w].task), InputOf(job))
<1>1. /\ running[w].kind = "reduce" /\ running' = running /\ conn[w] # NoConnection
      /\ local[w].piece > Len(running[w].blobs) /\ DOMAIN local = Workers
      /\ local' = [local EXCEPT ![w].done = TRUE]
  BY DEF AddOutBlob, MapsTrue
<1>2. PICK f, t, b : f = local[w] /\ t = running[w].task /\ b = running[w].blobs
  OBVIOUS
<1>3. b \in Seq(Stored) /\ Whole(b) /\ Len(b) \in Nat /\ ReduceTrue(w)
  BY <1>1, <1>2, ReduceIs
<1>4. /\ DOMAIN f = {"piece", "file", "data", "done"} /\ f.piece \in 1..Len(b) + 1
      /\ f.data = {<<job, b[i][4], b[i][5]>> : i \in 1..f.piece - 1}
      /\ f.piece - 1 = Len(b)
  BY <1>1, <1>2, <1>3 DEF ReduceTrue
<1>5. conn[w] = Container[job]
  BY <1>1 DEF TasksHere
<1>6. ASSUME NEW i \in 1..Len(b) PROVE b[i][4] \in Shards /\ b[i][5] \in 1..NPieces
  <2>1. b[i] \in Stored
    BY <1>3, ElementOfSeq
  <2> QED BY <2>1 DEF Stored, IntName, IntBlob
<1>7. f.data = InputOf(job)
  <2>1. f.data = {<<job, b[i][4], b[i][5]>> : i \in 1..Len(b)}
    BY <1>4
  <2>2. ASSUME NEW x \in f.data PROVE x \in InputOf(job)
    <3>1. PICK i \in 1..Len(b) : x = <<job, b[i][4], b[i][5]>>
      BY <2>1
    <3> QED BY <1>6, <3>1 DEF InputOf
  <2>3. ASSUME NEW x \in InputOf(job) PROVE x \in f.data
    <3>1. PICK s \in Shards, p \in 1..NPieces : x = <<job, s, p>>
      BY DEF InputOf
    <3>2. PICK i \in 1..Len(b) : b[i][4] = s /\ b[i][5] = p
      BY <1>3 DEF Whole
    <3> QED BY <2>1, <3>1, <3>2
  <2> QED BY <2>2, <2>3
<1>8. Put(OutBlob(Container[job], t), InputOf(job))
  <2>1. Reduced(w) = {InputOf(job)}
    BY <1>2, <1>7 DEF Reduced
  <2> QED BY <1>2, <1>5, <2>1 DEF AddOutBlob, Put
<1>9. OutBlob(Container[job], t) \in DOMAIN storage'
  BY <1>8 DEF Put
<1>10. /\ DOMAIN local'[w] = {"piece", "file", "data", "done"}
       /\ local'[w].piece = f.piece /\ local'[w].data = f.data
  BY <1>1, <1>2, <1>4
<1>11. running'[w].blobs = b /\ running'[w].task = t
  BY <1>1, <1>2
<1>12. ReduceTrue(w)'
  BY <1>4, <1>9, <1>10, <1>11 DEF ReduceTrue, OutBlob
<1> QED BY <1>2, <1>8, <1>12

\* The blobs of other containers are left alone.
OthersStay ==
    /\ DOMAIN storage \subseteq DOMAIN storage'
    /\ \A n \in DOMAIN storage : n[2] # Container[job] => storage'[n] = storage[n]

\* Every step keeps what the reduce tasks write.
LEMMA ReducesNext ==
    ASSUME StorageFails = FALSE, RegInv, JobInv, CallInv, TasksHere, BlobsTrue, MapsTrue, FedInv,
           ReducesTrue, OutHolds, FedInv', [Next]_vars
    PROVE  ReducesTrue' /\ OutHolds' /\ (~StartJob => OthersStay)
<1>0. /\ DOMAIN running = Workers /\ DOMAIN cq = Workers /\ DOMAIN local = Workers
      /\ DOMAIN conn = Workers
  BY DEF CallInv, QueueType, MapsTrue
<1>s. ASSUME job' = job, storage' = storage PROVE OutHolds' /\ OthersStay
  BY <1>s DEF OutHolds, OthersStay, InputOf, Shards
<1>1. CASE StartJob
  <2>1. /\ phase = "idle" /\ job < MaxJobs /\ job' = job + 1 /\ running' = running /\ local' = local
        /\ storage' = [n \in {n \in DOMAIN storage : n[2] # Container[job + 1]} |-> storage[n]]
        /\ conn' = conn
    BY <1>1 DEF StartJob
  <2>2. OutHolds'
    BY <2>1 DEF OutHolds
  <2>3. \A w \in Workers : running'[w].kind # "reduce"
    BY <2>1 DEF TasksHere, Quiet, NoCall
  <2> QED BY <1>1, <2>2, <2>3 DEF ReducesTrue
<1>2. CASE job' = job /\ NoWork
  <2>1. storage' = storage
    BY <1>2 DEF NoWork
  <2>2. ASSUME NEW w \in Workers PROVE running'[w].kind = "reduce" => ReduceTrue(w)'
    <3>1. running[w].kind = "reduce" => ReduceTrue(w)
      BY DEF ReducesTrue
    <3>2. /\ local'[w] = local[w] /\ running'[w].blobs = running[w].blobs
          /\ running'[w].kind = running[w].kind /\ running'[w].task = running[w].task
          /\ DOMAIN storage \subseteq DOMAIN storage' /\ job' = job
      BY <1>2 DEF NoWork
    <3> QED BY <3>1, <3>2, ReduceStays
  <2> QED BY <1>2, <1>s, <2>1, <2>2 DEF ReducesTrue
<1>3. ASSUME NEW w \in Workers, job' = job, Stop(w) \/ Take(w) \/ Answer(w)
      PROVE  ReducesTrue' /\ OutHolds' /\ OthersStay
  <2>1. /\ storage' = storage /\ local'[w] = NoFiles
        /\ \A v \in Workers \ {w} : local'[v] = local[v] /\ running'[v] = running[v]
    BY <1>0, <1>3 DEF Stop, Take, Answer
  <2>2. ASSUME running'[w].kind = "reduce" PROVE ReduceTrue(w)'
    <3>1. Len(running'[w].blobs) \in Nat
      <4>1. running'[w].blobs \in Seq(Stored')
        BY <2>2 DEF FedInv, CallsFed, Fed
      <4> QED BY <4>1, LenProperties
    <3>2. 1 \in 1..Len(running'[w].blobs) + 1
      BY <3>1
    <3>3. /\ DOMAIN local'[w] = {"piece", "file", "data", "done"} /\ local'[w].piece = 1
          /\ local'[w].data = {} /\ local'[w].done = FALSE
      BY <2>1 DEF NoFiles
    <3> QED BY <3>2, <3>3 DEF ReduceTrue
  <2> QED BY <1>3, <1>s, <2>1, <2>2, ReducesKeep
<1>4. ASSUME NEW w \in Workers, job' = job, Handle(w)
      PROVE  ReducesTrue' /\ OutHolds' /\ OthersStay
  <2>1. /\ running' = running
        /\ \A v \in Workers \ {w} : local'[v] = local[v] /\ running'[v] = running[v]
    BY <1>0, <1>4 DEF Handle, CreateConnection, MapPiece, AddIntermediateBlob, PrepareData, AddOutBlob
  <2>2. CASE CreateConnection(w) \/ MapPiece(w)
    <3>1. storage' = storage /\ running'[w].kind # "reduce"
      BY <2>2 DEF CreateConnection, MapPiece
    <3> QED BY <1>4, <1>s, <2>1, <3>1, ReducesKeep
  <2>3. CASE PrepareData(w)
    <3>1. storage' = storage
      BY <2>3 DEF PrepareData
    <3>2. ReduceTrue(w)'
      BY <1>4, <2>3, ReduceReads
    <3> QED BY <1>4, <1>s, <2>1, <3>1, <3>2, ReducesKeep
  <2>4. CASE AddIntermediateBlob(w)
    <3>1. \E t, p, f : Put(IntBlob(Container[job], w, t, p, f), {<<job, t, p>>})
      BY <1>4, <2>4, MapsBlob
    <3>2. PICK t, p, f : Put(IntBlob(Container[job], w, t, p, f), {<<job, t, p>>})
      BY <3>1
    <3>3. PICK n0 : n0 = IntBlob(Container[job], w, t, p, f)
      OBVIOUS
    <3>4. /\ DOMAIN storage' = DOMAIN storage \cup {n0}
          /\ \A n \in DOMAIN storage' : storage'[n] = IF n = n0 THEN {<<job, t, p>>} ELSE storage[n]
      BY <3>2, <3>3 DEF Put
    <3>5. n0[1] # "out" /\ n0[2] = Container[job]
      BY <3>3 DEF IntBlob
    <3>6. OutHolds' /\ OthersStay
      BY <1>4, <3>4, <3>5 DEF OutHolds, OthersStay, InputOf, Shards
    <3>7. running'[w].kind # "reduce"
      BY <2>1, <2>4 DEF AddIntermediateBlob
    <3> QED BY <1>4, <2>1, <3>4, <3>6, <3>7, ReducesKeep
  <2>5. CASE AddOutBlob(w)
    <3>1. ReduceTrue(w)' /\ Put(OutBlob(Container[job], running[w].task), InputOf(job))
      BY <1>4, <2>5, ReduceWrites
    <3>2. PICK n0 : n0 = OutBlob(Container[job], running[w].task)
      OBVIOUS
    <3>3. /\ DOMAIN storage' = DOMAIN storage \cup {n0}
          /\ \A n \in DOMAIN storage' : storage'[n] = IF n = n0 THEN InputOf(job) ELSE storage[n]
      BY <3>1, <3>2 DEF Put
    <3>4. n0[2] = Container[job]
      BY <3>2 DEF OutBlob
    <3>5. InputOf(job)' = InputOf(job)
      BY <1>4 DEF InputOf, Shards
    <3>6. OutHolds' /\ OthersStay
      BY <1>4, <3>3, <3>4, <3>5 DEF OutHolds, OthersStay
    <3> QED BY <1>4, <2>1, <3>1, <3>3, <3>6, ReducesKeep
  <2> QED BY <1>4, <2>2, <2>3, <2>4, <2>5 DEF Handle
<1> QED BY <1>1, <1>2, <1>3, <1>4, <1>s, StepKinds DEF NoWork

\* The steps, as the request handler sees them.
LEMMA ResultSteps ==
    ASSUME CallInv, [Next]_vars
    PROVE  \/ StartJob \/ TakeOver \/ EndUpdate \/ RejectJob \/ EndPhase
           \/ /\ phase' = phase /\ rejected' = rejected
              /\ phase = "exchange" \/ results' = results \/ \E w \in Workers : AnswerCall(w)
<1> DEFINE Goal == \/ StartJob \/ TakeOver \/ EndUpdate \/ RejectJob \/ EndPhase
                   \/ /\ phase' = phase /\ rejected' = rejected
                      /\ phase = "exchange" \/ results' = results \/ \E w \in Workers : AnswerCall(w)
<1>1. MasterStep => Goal
  BY DEF MasterStep, ExchangeUnreachable, HeartbeatOk, HeartbeatFails, PingExpires, Send, masterVars
<1>2. ASSUME NEW D, FailCalls(D), \A c \in D : c.kind = phase PROVE Goal
  <2>1. phase' = phase /\ rejected' = rejected
    BY <1>2 DEF FailCalls
  <2>2. results' = results \cup {c.task : c \in {x \in D : x.kind = "exchange"}}
    BY <1>2 DEF FailCalls
  <2>3. phase # "exchange" => results' = results
    BY <1>2, <2>2
  <2> QED BY <2>1, <2>3
<1>3. ASSUME NEW w \in Workers, NEW c \in LiveCallsAt(w) PROVE c.kind = phase
  <2>1. PICK p \in Places : c \in OpenAt(w, p)
    BY LiveCallsAre DEF CallInv
  <2> QED BY <2>1 DEF CallInv, CallsCurrent
<1>4. ASSUME NEW w \in Workers, WorkerStep(w) PROVE Goal
  <2>1. CASE WorkerStops(w)
    <3>1. FailCalls(LiveCallsAt(w))
      BY <2>1 DEF WorkerStops
    <3> QED BY <1>2, <1>3, <3>1
  <2>2. CASE AnswerCall(w)
    <3>1. phase' = phase /\ rejected' = rejected
      BY <2>2 DEF AnswerCall
    <3> QED BY <2>2, <3>1
  <2> QED BY <1>4, <2>1, <2>2 DEF WorkerStep, masterVars
<1>5. ASSUME NEW w \in Workers, Crash(w) PROVE Goal
  <2>1. FailCalls(LiveCallsAt(w))
    BY <1>5 DEF Crash
  <2> QED BY <1>2, <1>3, <2>1
<1>6. ASSUME NEW w \in Workers, NEW c \in LiveCallsAt(w), Expire(w, c) PROVE Goal
  <2>1. FailCalls({c})
    BY <1>6 DEF Expire
  <2> QED BY <1>2, <1>3, <2>1
<1>7. ASSUME NEW w \in Workers, StraySend(w) PROVE Goal
  BY <1>7 DEF StraySend
<1>8. UNCHANGED masterVars => Goal
  BY DEF masterVars
<1> QED BY <1>1, <1>4, <1>5, <1>6, <1>7, <1>8 DEF Next, ZooKeeperStep, vars

\* A partition counts as reduced when a worker that has written its blob says so.
LEMMA OutThereNext ==
    ASSUME RegInv, JobInv, CallInv, ReducesTrue, OutThere, OthersStay, ~StartJob, [Next]_vars
    PROVE  OutThere'
<1>0. job' = job /\ DOMAIN storage \subseteq DOMAIN storage'
  BY StorageGrows
<1>1. CASE TakeOver \/ EndUpdate \/ RejectJob
  <2>1. phase' # "reduce"
    BY <1>1 DEF TakeOver, EndUpdate, RejectJob, EnterPhase
  <2> QED BY <2>1 DEF OutThere
<1>2. CASE EndPhase
  <2>1. phase' = "reduce" => results' = {}
    <3>1. phase \in {"exchange", "map", "reduce"}
      BY <1>2 DEF EndPhase, RegInv, RegType, Phases
    <3>2. CASE phase = "exchange"
      BY <1>2, <3>2 DEF EndPhase, EnterMap, EnterPhase
    <3>3. CASE phase = "map"
      BY <1>2, <3>3 DEF EndPhase, EnterPhase
    <3>4. CASE phase = "reduce"
      BY <1>2, <3>4 DEF EndPhase, EnterPhase
    <3> QED BY <3>1, <3>2, <3>3, <3>4
  <2> QED BY <2>1 DEF OutThere
<1>3. ASSUME phase' = phase, phase = "exchange" \/ results' = results PROVE OutThere'
  BY <1>0, <1>3 DEF OutThere, OutBlob
<1>4. ASSUME NEW w \in Workers, AnswerCall(w) PROVE OutThere'
  <2>c. PICK c : c = running[w]
    OBVIOUS
  <2>1. /\ phase' = phase /\ local[w].done
        /\ results' = IF c.live THEN results \cup {c.task} ELSE results
    BY <1>4, <2>c DEF AnswerCall, Answer, WorkDone, Accept
  <2>2. ASSUME c.live, phase = "reduce" PROVE OutBlob(Container[job], c.task) \in DOMAIN storage
    <3>1. c \in OpenAt(w, "running") /\ "running" \in Places
      BY <2>c, <2>2, PlaceIs
    <3>2. c.kind = "reduce"
      BY <2>2, <3>1 DEF CallInv, CallsCurrent
    <3> QED BY <2>c, <2>1, <3>2 DEF ReducesTrue, ReduceTrue
  <2>3. phase = "reduce" => \A r \in results' : OutBlob(Container[job], r) \in DOMAIN storage
    BY <2>1, <2>2 DEF OutThere
  <2> QED BY <1>0, <2>1, <2>3 DEF OutThere, OutBlob
<1> QED BY <1>1, <1>2, <1>3, <1>4, ResultSteps

\* The out blobs of job j.
OutputIs(j, st) ==
    \A r \in Reducers : OutBlob(Container[j], r) \in DOMAIN st /\ st[OutBlob(Container[j], r)] = InputOf(j)

\* Every step keeps the output of the jobs that were answered.
LEMMA OutputNext ==
    ASSUME RegInv, JobInv, CallInv, OutThere, OutHolds, OutputRight, OutHolds', ~StartJob => OthersStay,
           [Next]_vars
    PROVE  OutputRight'
<1>0. job \in Nat /\ \A j \in 1..job : j \in Nat
  BY DEF JobInv
<1>1. ASSUME NEW j \in 1..job \ rejected, j < job \/ phase = "idle",
             \A i \in j + 1..job : Container[i] # Container[j]
      PROVE  OutputIs(j, storage)
  BY <1>1 DEF OutputRight, OutputIs
<1>2. ASSUME \A j \in 1..job' \ rejected' :
                 (j < job' \/ phase' = "idle") /\ (\A i \in j + 1..job' : Container[i] # Container[j])
                     => OutputIs(j, storage')
      PROVE  OutputRight'
  BY <1>2 DEF OutputRight, OutputIs, OutBlob, InputOf, Reducers, Shards
<1>3. CASE StartJob
  <2>1. /\ phase = "idle" /\ job' = job + 1 /\ phase' = "update" /\ rejected' = rejected
        /\ storage' = [n \in {n \in DOMAIN storage : n[2] # Container[job + 1]} |-> storage[n]]
    BY <1>3 DEF StartJob, EnterPhase
  <2>2. ASSUME NEW j \in 1..job' \ rejected', j < job' \/ phase' = "idle",
               \A i \in j + 1..job' : Container[i] # Container[j]
        PROVE  OutputIs(j, storage')
    <3>1. j \in 1..job \ rejected /\ job + 1 \in j + 1..job'
      BY <1>0, <2>1, <2>2
    <3>2. \A i \in j + 1..job : i \in j + 1..job'
      BY <1>0, <2>1, <3>1
    <3>3. OutputIs(j, storage)
      BY <1>1, <2>1, <2>2, <3>1, <3>2
    <3>4. Container[job + 1] # Container[j]
      BY <2>2, <3>1
    <3>5. ASSUME NEW r \in Reducers
          PROVE  OutBlob(Container[j], r) \in DOMAIN storage' /\ storage'[OutBlob(Container[j], r)] = InputOf(j)
      <4>1. PICK n : n = OutBlob(Container[j], r)
        OBVIOUS
      <4>2. n \in DOMAIN storage /\ storage[n] = InputOf(j)
        BY <3>3, <4>1 DEF OutputIs
      <4>3. n[2] # Container[job + 1]
        BY <3>4, <4>1 DEF OutBlob
      <4>4. n \in DOMAIN storage' /\ storage'[n] = storage[n]
        BY <2>1, <4>2, <4>3
      <4> QED BY <4>1, <4>2, <4>4
    <3> QED BY <3>5 DEF OutputIs
  <2> QED BY <1>2, <2>2
<1>4. CASE ~StartJob
  <2>1. OthersStay /\ job' = job
    BY <1>4, StorageGrows
  <2>2. ASSUME NEW j \in 1..job, OutputIs(j, storage), \A i \in j + 1..job : Container[i] # Container[j]
        PROVE  OutputIs(j, storage')
    <3>1. ASSUME NEW r \in Reducers
          PROVE  OutBlob(Container[j], r) \in DOMAIN storage' /\ storage'[OutBlob(Container[j], r)] = InputOf(j)
      <4>1. PICK n : n = OutBlob(Container[j], r)
        OBVIOUS
      <4>2. n \in DOMAIN storage /\ storage[n] = InputOf(j) /\ n \in DOMAIN storage'
        BY <2>1, <2>2, <4>1 DEF OutputIs, OthersStay
      <4>3. n[1] = "out" /\ n[2] = Container[j]
        BY <4>1 DEF OutBlob
      <4>4. CASE j = job
        <5>1. job # 0
          BY <4>4
        <5>2. storage'[n] = InputOf(job)'
          BY <2>1, <4>2, <4>3, <4>4, <5>1 DEF OutHolds
        <5>3. InputOf(job)' = InputOf(job)
          BY <2>1 DEF InputOf, Shards
        <5> QED BY <4>1, <4>2, <4>4, <5>2, <5>3
      <4>5. CASE j # job
        <5>1. job \in j + 1..job
          BY <1>0, <4>5
        <5>2. n[2] # Container[job]
          BY <2>2, <4>3, <5>1
        <5>3. storage'[n] = storage[n]
          BY <2>1, <4>2, <5>2 DEF OthersStay
        <5> QED BY <4>1, <4>2, <5>3
      <4> QED BY <4>4, <4>5
    <3> QED BY <3>1 DEF OutputIs
  <2>3. rejected \subseteq rejected'
        /\ (phase' = "idle" => \/ phase = "idle"
                               \/ job \in rejected'
                               \/ (phase = "reduce" /\ results = Reducers))
    <3>1. CASE TakeOver \/ EndUpdate
      BY <3>1 DEF TakeOver, EndUpdate, EnterPhase
    <3>2. CASE RejectJob
      BY <3>2 DEF RejectJob
    <3>3. CASE EndPhase
      <4>1. rejected' = rejected /\ results = TasksOf(phase) /\ phase \in {"exchange", "map", "reduce"}
        BY <3>3 DEF EndPhase, AllOver, RegInv, RegType, Phases
      <4>2. phase # "reduce" => phase' # "idle"
        BY <3>3, <4>1 DEF EndPhase, EnterMap, EnterPhase
      <4> QED BY <4>1, <4>2, TasksAre
    <3>4. CASE phase' = phase /\ rejected' = rejected
      BY <3>4
    <3> QED BY <1>4, <3>1, <3>2, <3>3, <3>4, ResultSteps
  <2>4. ASSUME NEW j \in 1..job \ rejected', j < job \/ phase' = "idle",
               \A i \in j + 1..job : Container[i] # Container[j]
        PROVE  OutputIs(j, storage)
    <3>1. CASE j < job \/ phase = "idle"
      BY <1>1, <2>3, <2>4, <3>1
    <3>2. CASE ~(j < job) /\ phase # "idle"
      <4>1. j = job /\ job # 0
        BY <1>0, <3>2
      <4>2. phase = "reduce" /\ results = Reducers
        BY <2>3, <2>4, <3>2, <4>1
      <4>3. ASSUME NEW r \in Reducers
            PROVE  OutBlob(Container[j], r) \in DOMAIN storage /\ storage[OutBlob(Container[j], r)] = InputOf(j)
        <5>1. PICK n : n = OutBlob(Container[j], r)
          OBVIOUS
        <5>2. n \in DOMAIN storage
          BY <4>1, <4>2, <5>1 DEF OutThere
        <5>3. n[1] = "out" /\ n[2] = Container[job]
          BY <4>1, <5>1 DEF OutBlob
        <5>4. storage[n] = InputOf(job)
          BY <4>1, <5>2, <5>3 DEF OutHolds
        <5> QED BY <4>1, <5>1, <5>2, <5>4
      <4> QED BY <4>3 DEF OutputIs
    <3> QED BY <3>1, <3>2
  <2> QED BY <1>2, <2>1, <2>2, <2>4
<1> QED BY <1>3, <1>4

\* All of it together.
DataInv ==
    /\ RegInv /\ JobInv /\ CallInv
    /\ BlobsTrue /\ MapsTrue /\ ListTrue
    /\ FedInv /\ ReducesTrue /\ OutHolds /\ OutThere /\ OutputRight

\* It holds at first.
LEMMA DataInit == ClusterInit => DataInv
BY RegInit, JobInit, CallInit, MapsInit, ListInit, FedInit, ReducesInit DEF DataInv

\* Every step keeps it, while tasks are handled in the container of their job.
LEMMA DataNext ==
    ASSUME StorageFails = FALSE, TasksHere, DataInv, [Next]_vars
    PROVE  DataInv'
<1> USE DEF DataInv
<1>1. RegInv' /\ JobInv' /\ CallInv'
  BY RegNext, JobNext, CallNext
<1>2. BlobsTrue' /\ MapsTrue' /\ ListTrue'
  BY MapsNext, ListNext
<1>3. FedInv'
  BY FedStep
<1>4. ReducesTrue' /\ OutHolds' /\ (~StartJob => OthersStay)
  BY <1>3, ReducesNext
<1>5. OutThere'
  <2>1. CASE StartJob
    <3>1. phase' = "update"
      BY <2>1 DEF StartJob, EnterPhase
    <3> QED BY <3>1 DEF OutThere
  <2>2. CASE ~StartJob
    BY <1>4, <2>2, OutThereNext
  <2> QED BY <2>1, <2>2
<1>6. OutputRight'
  BY <1>4, OutputNext
<1> QED BY <1>1, <1>2, <1>3, <1>4, <1>5, <1>6

\* It is kept in both cases.
LEMMA DataAlways ==
    ASSUME Undisturbed
    PROVE  Spec => []DataInv
<1>1. CASE MaxJobs = 1
  <2>1. ClusterInit => DataInv /\ SoloInv
    BY DataInit, SoloInit
  <2>2. DataInv /\ SoloInv /\ [Next]_vars => DataInv' /\ SoloInv'
    <3> SUFFICES ASSUME DataInv, SoloInv, [Next]_vars PROVE DataInv' /\ SoloInv'
      OBVIOUS
    <3>1. TasksHere /\ StorageFails = FALSE
      BY <1>1, SoloHere DEF Undisturbed, DataInv
    <3>2. DataInv'
      BY <3>1, DataNext
    <3> QED BY <1>1, <3>2, SoloNext DEF DataInv
  <2> QED BY <2>1, <2>2, PTL DEF Spec
<1>2. CASE Punctual
  <2>1. ClusterInit => DataInv /\ ConnInv
    BY DataInit, ConnInit
  <2>2. DataInv /\ ConnInv /\ [Next]_vars => DataInv' /\ ConnInv'
    <3> SUFFICES ASSUME DataInv, ConnInv, [Next]_vars PROVE DataInv' /\ ConnInv'
      OBVIOUS
    <3>1. TasksHere /\ StorageFails = FALSE
      BY <1>2, ConnHere DEF Undisturbed, DataInv
    <3>2. DataInv'
      BY <3>1, DataNext
    <3> QED BY <1>2, <3>2, ConnNext DEF DataInv
  <2> QED BY <2>1, <2>2, PTL DEF Spec
<1> QED BY <1>1, <1>2 DEF Undisturbed

\* m_IntblobList, which the reducers are sent: every blob it names is in storage and
\* holds the data of its piece, and every piece of a mapped shard is named once for
\* every partition, whatever answers were late, whatever attempts were given up and
\* whichever leader asked for them.  For one job with any faults, and for any number
\* of jobs as long as no call is late and no leader is replaced; storage and scripts
\* work.
THEOREM IntBlobsCorrect ==
    ASSUME Undisturbed
    PROVE  Spec => []IntBlobsRight
<1>1. DataInv => IntBlobsRight
  BY ListImplies DEF DataInv
<1> QED BY <1>1, DataAlways, PTL

\* A job that req_handler::process has answered with OK has the out blob of every
\* partition, and each one covers all of the job's input and nothing else, until a
\* job for the same container is posted: crashes, retries and late attempts, and
\* tasks that a replaced leader still sends, leave the output as it is.  For one job
\* with any faults, and for any number of jobs as long as no call is late and no
\* leader is replaced; storage and scripts work.
THEOREM OutputCorrect ==
    ASSUME Undisturbed
    PROVE  Spec => []OutputRight
<1>1. DataInv => OutputRight
  BY DEF DataInv
<1> QED BY <1>1, DataAlways, PTL
================================================================================
