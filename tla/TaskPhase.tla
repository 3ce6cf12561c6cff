------------------------------- MODULE TaskPhase -------------------------------
(***************************************************************************)
(* What a phase of a job promises its caller: results are recorded one     *)
(* task at a time, once per task, and the phase is finished only when      *)
(* every task has one.  The tasks are the shards in the map phase (called  *)
(* from runMapper, and from processReplicatedData on a new leader) and the *)
(* partitions in the reduce phase (called from runReducer).  The master    *)
(* may abandon the phase (it fails or crashes), and then it records        *)
(* nothing more.                                                           *)
(***************************************************************************)
CONSTANT Tasks

VARIABLES
    recorded,   \* the tasks with a recorded result
    phase       \* running, finished or abandoned

Init ==
    /\ recorded \subseteq Tasks
    /\ phase = "running"

Record(t) ==
    /\ phase = "running"
    /\ t \notin recorded
    /\ recorded' = recorded \cup {t}
    /\ UNCHANGED phase

Finish ==
    /\ phase = "running"
    /\ recorded = Tasks
    /\ phase' = "finished"
    /\ UNCHANGED recorded

Abandon ==
    /\ phase # "abandoned"
    /\ phase' = "abandoned"
    /\ UNCHANGED recorded

Next == (\E t \in Tasks : Record(t)) \/ Finish \/ Abandon

Spec == Init /\ [][Next]_<<recorded, phase>>
================================================================================
