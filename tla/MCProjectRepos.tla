--------------------------- MODULE MCProjectRepos ---------------------------
(* Instances of ProjectRepos for TLC: two accounts with a repository each.  *)
EXTENDS ProjectRepos, TLC

CONSTANTS o1, o2, i1, i2, f1, r1, p1, x1, x2, k1, w1

Accounts == (x1 :> i1) @@ (x2 :> i2)

\* Organizations are alike, and so are the accounts with their repositories.
Symmetry == Permutations({o1, o2})
            \cup {(x1 :> x2) @@ (x2 :> x1) @@ (i1 :> i2) @@ (i2 :> i1)}
=============================================================================
