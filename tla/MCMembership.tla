---------------------------- MODULE MCMembership ----------------------------
(* Instances of Membership for TLC.                                        *)
EXTENDS Membership

CONSTANTS m1, m2, m3, r1, r2
=============================================================================
