----------------------------- MODULE LeaderElection -----------------------------
(***************************************************************************)
(* Leader election of the masters through ZooKeeper:                       *)
(* Master::register_with_zk, wait_until_leader and elect_leader, and       *)
(* exists_watcher_fn, which runs on the ZooKeeper client's thread.         *)
(*                                                                         *)
(* A master is the sequence number of its znode under /masters; numbers    *)
(* are given in the order of registration, and a restarted master gets a   *)
(* new one.  ZooKeeper is modelled by the nodes the code uses: the         *)
(* children of /masters, the node /leader with its owner and its data, and *)
(* one-shot watches on /leader.  Every ZooKeeper call is one step, so the  *)
(* calls of the masters interleave; a session's ephemeral nodes disappear  *)
(* in one step.                                                            *)
(***************************************************************************)
EXTENDS Integers

CONSTANTS
    NMasters,   \* bound: masters that ever register, restarts included
    AnyTime     \* TRUE: a master may stop in the middle of an election

ASSUME ElectionAssumption == NMasters \in Nat /\ AnyTime \in BOOLEAN

Masters == 1..NMasters
None == 0

VARIABLES
    masters,        \* children of /masters: the masters with a live session
    registered,     \* the last sequence number given
    leaderNode,     \* owner of the ephemeral node /leader, or None
    leaderData,     \* its data: the child of /masters it names, or None
    watch,          \* the masters whose watch on /leader is set
    event,          \* the masters with a watch event to deliver
    pc,             \* per master: where its main thread is
    existLeader,    \* per master: the local of wait_until_leader
    wpc,            \* per master: the watcher callback, idle or rearm
    watchTriggered  \* per master

zkVars == <<masters, registered, leaderNode, leaderData>>
watchVars == <<watch, event>>
vars == <<zkVars, watchVars, pc, existLeader, wpc, watchTriggered>>

Init ==
    /\ masters = {}
    /\ registered = 0
    /\ leaderNode = None
    /\ leaderData = None
    /\ watch = {}
    /\ event = {}
    /\ pc = [m \in Masters |-> "down"]
    /\ existLeader = [m \in Masters |-> FALSE]
    /\ wpc = [m \in Masters |-> "idle"]
    /\ watchTriggered = [m \in Masters |-> FALSE]

Goto(m, place) == pc' = [pc EXCEPT ![m] = place]

\* A change of /leader uses up every watch that is set and queues its event.
FireWatches(W) ==
    /\ event' = event \cup W
    /\ watch' = watch \ W

--------------------------------------------------------------------------------
(* The main thread of a master.                                               *)

\* register_with_zk: a sequential ephemeral node under /masters.
Register(m) ==
    /\ pc[m] = "down"
    /\ m = registered + 1
    /\ masters' = masters \cup {m}
    /\ registered' = m
    /\ Goto(m, "exists")
    /\ UNCHANGED <<leaderNode, leaderData, watchVars, existLeader, wpc, watchTriggered>>

\* The first call of wait_until_leader: does /leader exist? It sets the watch.
CheckExists(m) ==
    /\ pc[m] = "exists"
    /\ existLeader' = [existLeader EXCEPT ![m] = leaderNode # None]
    /\ watch' = watch \cup {m}
    /\ Goto(m, "try")
    /\ UNCHANGED <<zkVars, event, wpc, watchTriggered>>

\* Mutant: the children sorted the wrong way round.
Largest(m) == \A k \in masters : m >= k

\* elect_leader's test: the smallest child of /masters is this master.
Smallest(m) == \A k \in masters : m <= k

\* elect_leader up to its decision: clear watchTriggered and read the children.
ReadChildren(m, lost) ==
    /\ watchTriggered' = [watchTriggered EXCEPT ![m] = FALSE]
    /\ Goto(m, IF Smallest(m) THEN "create" ELSE lost)
    /\ UNCHANGED <<zkVars, watchVars, existLeader, wpc>>

\* tryAgain: elect a leader if there seems to be none.
TryElect(m) ==
    /\ pc[m] = "try"
    /\ ~existLeader[m]
    /\ ReadChildren(m, "getdata")

SkipElection(m) ==
    /\ pc[m] = "try"
    /\ existLeader[m]
    /\ Goto(m, "getdata")
    /\ UNCHANGED <<zkVars, watchVars, existLeader, wpc, watchTriggered>>

\* create()->withFlags(ZOO_EPHEMERAL): fails, unnoticed, if /leader exists or if
\* the session has expired.
CreateLeader(m) ==
    /\ pc[m] = "create"
    /\ IF m \in masters /\ leaderNode = None
       THEN /\ leaderNode' = m
            /\ leaderData' = None
            /\ FireWatches(watch)
       ELSE UNCHANGED <<leaderNode, leaderData, watchVars>>
    /\ Goto(m, "set")
    /\ UNCHANGED <<masters, registered, existLeader, wpc, watchTriggered>>

\* setData on /leader, whoever owns it; then elect_leader returns true.
SetLeaderData(m) ==
    /\ pc[m] = "set"
    /\ IF m \in masters /\ leaderNode # None
       THEN leaderData' = m /\ FireWatches(watch)
       ELSE UNCHANGED <<leaderData, watchVars>>
    /\ Goto(m, "leader")
    /\ UNCHANGED <<masters, registered, leaderNode, existLeader, wpc, watchTriggered>>

\* Mutant: the test the wrong way round.
ReadLeaderInverted(m) ==
    /\ pc[m] = "getdata"
    /\ Goto(m, IF leaderData # None THEN "recheck" ELSE "follow")
    /\ UNCHANGED <<zkVars, watchVars, existLeader, wpc, watchTriggered>>

\* getData on /leader: a name starts the replication server and the wait; no node
\* or no data yet means to try again after two seconds.
ReadLeader(m) ==
    /\ pc[m] = "getdata"
    /\ Goto(m, IF leaderData # None THEN "follow" ELSE "recheck")
    /\ UNCHANGED <<zkVars, watchVars, existLeader, wpc, watchTriggered>>

\* existLeader = checkExists(): ZOK is 0 and ZNONODE is not, so the flag becomes
\* true exactly when /leader does not exist.
RecheckExists(m) ==
    /\ pc[m] = "recheck"
    /\ existLeader' = [existLeader EXCEPT ![m] = leaderNode = None]
    /\ Goto(m, "try")
    /\ UNCHANGED <<zkVars, watchVars, wpc, watchTriggered>>

\* The follower's loop: every second, elect if the watcher saw no leader.
FollowElect(m) ==
    /\ pc[m] = "follow"
    /\ watchTriggered[m]
    /\ ReadChildren(m, "follow")

--------------------------------------------------------------------------------
(* exists_watcher_fn.                                                         *)

\* Mutant: the watcher notices nothing.
WatcherIgnores(m) ==
    /\ m \in event
    /\ wpc[m] = "idle"
    /\ event' = event \ {m}
    /\ wpc' = [wpc EXCEPT ![m] = "rearm"]
    /\ UNCHANGED <<zkVars, watch, pc, existLeader, watchTriggered>>

\* Its first call: is there a leader?
WatcherChecks(m) ==
    /\ m \in event
    /\ wpc[m] = "idle"
    /\ event' = event \ {m}
    /\ watchTriggered' = [watchTriggered EXCEPT ![m] = @ \/ leaderNode = None]
    /\ wpc' = [wpc EXCEPT ![m] = "rearm"]
    /\ UNCHANGED <<zkVars, watch, pc, existLeader>>

\* Its second call sets the watch again.
WatcherRearms(m) ==
    /\ wpc[m] = "rearm"
    /\ m \in masters
    /\ watch' = watch \cup {m}
    /\ wpc' = [wpc EXCEPT ![m] = "idle"]
    /\ UNCHANGED <<zkVars, event, pc, existLeader, watchTriggered>>

--------------------------------------------------------------------------------
(* Failures.                                                                  *)

\* A leader is in place, nobody is in the middle of an election, and no watch
\* event is under way.
Settled ==
    /\ leaderData # None
    /\ \A k \in masters : pc[k] \in {"leader", "follow"} /\ wpc[k] = "idle"
    /\ event = {}

\* The session of a master ends: its node under /masters goes, and /leader if it
\* is the owner.
EndSession(m) ==
    /\ m \in masters
    /\ AnyTime \/ Settled
    /\ masters' = masters \ {m}
    /\ IF leaderNode = m
       THEN /\ leaderNode' = None
            /\ leaderData' = None
            /\ event' = (event \cup watch) \ {m}
            /\ watch' = {}
       ELSE /\ watch' = watch \ {m}
            /\ event' = event \ {m}
            /\ UNCHANGED <<leaderNode, leaderData>>
    /\ UNCHANGED <<registered, existLeader, wpc, watchTriggered>>

\* The process stops, or closes its session in enter_fail_state.
Stop(m) ==
    /\ EndSession(m)
    /\ Goto(m, "gone")

\* The session expires and the process, which believes it has won, goes on.  (One
\* that has not won stops: its next getChildren is empty, and at(0) throws.)
Expire(m) ==
    /\ pc[m] \in {"create", "set", "leader"}
    /\ EndSession(m)
    /\ UNCHANGED pc

--------------------------------------------------------------------------------
MainStep(m) ==
    \/ CheckExists(m) \/ TryElect(m) \/ SkipElection(m)
    \/ CreateLeader(m) \/ SetLeaderData(m)
    \/ ReadLeader(m) \/ RecheckExists(m) \/ FollowElect(m)

WatcherStep(m) == WatcherChecks(m) \/ WatcherRearms(m)

Next ==
    \E m \in Masters :
        Register(m) \/ MainStep(m) \/ WatcherStep(m) \/ Stop(m) \/ Expire(m)

Spec == Init /\ [][Next]_vars

\* A running master's threads keep running; nothing obliges a master to start or
\* to stop.
FairSpec ==
    /\ Spec
    /\ \A m \in Masters : WF_vars(MainStep(m)) /\ WF_vars(WatcherStep(m))

--------------------------------------------------------------------------------
\* Every variable has its type, and ZooKeeper has given every live master a number.
TypeOK ==
    /\ masters \subseteq 1..registered
    /\ registered \in 0..NMasters
    /\ leaderNode \in Masters \cup {None}
    /\ leaderData \in Masters \cup {None}
    /\ watch \subseteq Masters
    /\ event \subseteq Masters
    /\ pc \in [Masters -> {"down", "exists", "try", "create", "set", "leader",
                           "getdata", "recheck", "follow", "gone"}]
    /\ existLeader \in [Masters -> BOOLEAN]
    /\ wpc \in [Masters -> {"idle", "rearm"}]
    /\ watchTriggered \in [Masters -> BOOLEAN]

\* elect_leader never lets two masters with a live session act as leader, although
\* it reads the children, creates /leader and sets its data in separate calls and
\* checks the result of none.
OneLeader ==
    \A m, k \in masters : pc[m] = "leader" /\ pc[k] = "leader" => m = k

\* /leader belongs to the registered master with the smallest number, which is the
\* one every follower's elect_leader would choose.
LeaderIsSmallest ==
    leaderNode # None =>
        leaderNode \in masters /\ \A k \in masters : leaderNode <= k

\* The unchecked setData never writes one master's name into another's node, so a
\* follower that reads /leader learns its owner.
DataNamesOwner == leaderData \in {None, leaderNode}

\* A master that acts as leader with a live session owns /leader, so its end is
\* noticed by the masters that watch the node.
LeaderOwnsNode ==
    \A m \in masters : pc[m] = "leader" => leaderNode = m /\ leaderData = m

\* design.md: when /leader disappears a new leader must be elected.  As long as
\* there are masters, there will be a leader again.
LeaderElected == (masters # {}) ~> (masters = {} \/ leaderData # None)

\* Followers learn of the leader: a registered master ends up leading or following.
MastersSettle ==
    \A m \in Masters : (m \in masters) ~> (m \notin masters \/ pc[m] \in {"leader", "follow"})
================================================================================
