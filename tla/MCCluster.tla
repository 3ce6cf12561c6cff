------------------------------- MODULE MCCluster -------------------------------
(* Constants for the runs of Cluster. *)
EXTENDS Cluster

CONSTANTS w1, w2

OneContainer == <<"c1">>
TwoContainers == <<"c1", "c2">>
NobodyFails == [w \in Workers |-> 0]
FirstFails == [w \in Workers |-> IF w = w1 THEN 2 ELSE 0]
===============================================================================
