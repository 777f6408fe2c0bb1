--------------------------- MODULE MCRegistration ---------------------------
(* Instances of Registration for TLC.                                      *)
EXTENDS Registration, TLC

CONSTANTS a, p, q, o1, o2, i1, i2, i3, s1, s2, r1, r2, c1, c2

\* Identities of rows and the slots of the web processes are interchangeable.
Symmetry == Permutations(Orgs) \cup Permutations(Invites) \cup Permutations(Signups)
              \cup Permutations(Requests) \cup Permutations(Changes)
              \cup Permutations(People \ {Admin})
=============================================================================
