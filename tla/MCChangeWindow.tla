---------------------------- MODULE MCChangeWindow ----------------------------
(* Small instances of the change window for TLC. *)
EXTENDS ChangeWindow, TLC

CONSTANTS r1, r2, w1, b1, x, y

\* r1 inserts x; r2 replaces x; or it replaces y and creates x on the way.
TwoDocuments == (r1 :> {x}) @@ (r2 :> {y})
CreatesOther == (r1 :> {}) @@ (r2 :> {x})

\* Two requests and a transaction, a fault and a restart; or one request and a
\* transaction among a rebase, a reset and a foreign move.
WritesOrMoves == {
  [clients |-> {r1, r2, w1}, docs |-> {x, y}, colds |-> {FALSE}, schemas |-> 1,
   faults |-> 1, resets |-> 0, foreign |-> 0, restarts |-> 1],
  [clients |-> {r1, w1, b1}, docs |-> {x}, colds |-> {TRUE, FALSE}, schemas |-> 0,
   faults |-> 0, resets |-> 1, foreign |-> 1, restarts |-> 0]}

CommitSymmetry == Permutations(CommitIds)
==============================================================================
