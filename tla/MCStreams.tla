------------------------------ MODULE MCStreams ------------------------------
(* Streams on small instances.                                               *)
EXTENDS Streams

CONSTANTS s1, s2, s3
=============================================================================
