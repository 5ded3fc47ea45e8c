----------------------------- MODULE MCThreadPool -----------------------------
(* ThreadPool on small instances.                                            *)
EXTENDS ThreadPool

CONSTANTS o1, o2, o3, w1, w2
=============================================================================
