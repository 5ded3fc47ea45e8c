---------------------------- MODULE MCCheckRunner ----------------------------
(***************************************************************************)
(* CheckRunner on a small instance: a regular probe and a startup probe of *)
(* the same dependency, under one name.                                    *)
(***************************************************************************)
EXTENDS CheckRunner, TLC

CONSTANTS p1, s1, n1, c1

SharedName == p1 :> n1 @@ s1 :> n1

\* Both kinds of storage; deadlines for all probes (the default) and for none.
BothStorages == [inMemory : BOOLEAN, unbounded : {{}, {p1, s1}}]
=============================================================================
