----------------------------- MODULE MCSessions -----------------------------
(* Instances of Sessions for TLC.                                          *)
EXTENDS Sessions

CONSTANTS p1, o1, o2, t1, t2, r1, r2
=============================================================================
