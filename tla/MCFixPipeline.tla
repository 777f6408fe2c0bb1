--------------------------- MODULE MCFixPipeline ---------------------------
(* Instances of FixPipeline for TLC.                                       *)
EXTENDS FixPipeline, TLC

CONSTANTS p1, e1, e2, a1, a2, a3, a4, j1, j2, w1, w2, r1, r2, g1, g2

\* All errors belong to one project; two errors may share the 8 characters
\* that make up the branch name.
OneProject == [e \in Errors |-> p1]
SharedBranch == [e \in Errors |-> e1]

\* Attempts, pull requests, jobs and repositories are interchangeable identities.
Fresh == Permutations(Attempts) \cup Permutations(Prs) \cup Permutations(Jobs)
         \cup Permutations(Repos)
=============================================================================
