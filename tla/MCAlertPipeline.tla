--------------------------- MODULE MCAlertPipeline ---------------------------
(* AlertPipeline on small instances.                                         *)
EXTENDS AlertPipeline

CONSTANTS a, b, healthy, degraded, unhealthy
=============================================================================
