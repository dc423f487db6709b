---------------------------- MODULE MCCommitQueue ----------------------------
(* Small instances of the commit queue for TLC. *)
EXTENDS CommitQueue

CONSTANTS b1, b2, d1, p1, p2

WorkerSymmetry == Permutations(Workers)

OneDatabase == [b \in Branches |-> d1]

\* A package for each of two branches, or two that compete for one.
OnePerBranch == (p1 :> b1) @@ (p2 :> b2)
SameBranch == (p1 :> b1) @@ (p2 :> b1)
==============================================================================
