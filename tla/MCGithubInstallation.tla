------------------------ MODULE MCGithubInstallation ------------------------
(* Instances of GithubInstallation for TLC.                                *)
EXTENDS GithubInstallation, TLC

CONSTANTS o1, o2, i1, i2, f1, f2, r1, r2

\* Identities are alike.
Symmetry == Permutations({f1, f2}) \cup Permutations({r1, r2})
            \cup Permutations({o1, o2}) \cup Permutations({i1, i2})
=============================================================================
