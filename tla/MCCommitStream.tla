----------------------------- MODULE MCCommitStream ----------------------------
(* CommitStream on small instances: streams of one branch. *)
EXTENDS CommitStream

CONSTANTS s1, s2, main

OneBranch == [s \in Streams |-> main]
\* s1 asks for the head only and for no timeout, s2 for all after the first commit
Since == [s \in Streams |-> IF s = s1 THEN Nothing ELSE 1]
Timeouts == [s \in Streams |-> s # s1]
===============================================================================
