------------------------------ MODULE MCSharding ------------------------------
(* Containers of at most MaxBlobs blobs of at most MaxSize bytes.            *)
EXTENDS Sharding

CONSTANTS MaxBlobs, MaxSize

MCInputs == UNION {[1..b -> 0..MaxSize] : b \in 0..MaxBlobs}
===============================================================================
