--------------------------- MODULE MCRequestMetrics ---------------------------
(* RequestMetrics on a small instance.                                       *)
EXTENDS RequestMetrics, TLC

CONSTANTS q1, q2, w1, x, y, h

RequestSymmetry == Permutations({q1, q2})
==============================================================================
