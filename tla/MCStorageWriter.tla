--------------------------- MODULE MCStorageWriter ---------------------------
(* StorageWriter on a small instance.                                        *)
EXTENDS StorageWriter, TLC

CONSTANTS a, b

Names == Permutations({a, b})
=============================================================================
