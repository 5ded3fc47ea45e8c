--------------------------- MODULE MCReplicaAlerts ---------------------------
(* ReplicaAlerts on small instances.                                         *)
EXTENDS ReplicaAlerts, TLC

CONSTANTS r1, r2, healthy, degraded, unhealthy

ReplicaSymmetry == Permutations({r1, r2})
=============================================================================
