--------------------------- MODULE MCErrorIngest ---------------------------
(* Instances of ErrorIngest for TLC.                                       *)
EXTENDS ErrorIngest, TLC

CONSTANTS p1, p2, r1, r2, r3, r4, x1, x2, x3, k1, t1

Report(p, t) == [project |-> p, kind |-> k1, trace |-> t]

\* Three reports of one error, and one with the same fingerprint from a second project.
Duplicates == r1 :> Report(p1, t1) @@ r2 :> Report(p1, t1) @@
              r3 :> Report(p1, t1) @@ r4 :> Report(p2, t1)
=============================================================================
