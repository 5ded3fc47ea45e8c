-------------------------- MODULE MCStorageBackends --------------------------
(* StorageBackends on a small instance.                                      *)
EXTENDS StorageBackends, TLC

CONSTANTS a, b

NameSymmetry == Permutations({a, b})
==============================================================================
