---------------------------- MODULE CrdtReplicasMC -----------------------------
(* A small instance: phone's id sorts before desk's.                         *)
EXTENDS CrdtReplicas

CONSTANTS phone, desk

DeviceRank == [d \in Devices |-> IF d = phone THEN 0 ELSE 1]
=============================================================================
