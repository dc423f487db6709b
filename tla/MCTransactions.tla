---------------------------- MODULE MCTransactions ----------------------------
(* Small instances of the transactions for TLC. *)
EXTENDS Transactions, TLC

CONSTANTS t1, t2, t3, d1, d2, system, instance, schema

TheKeys == (d1 :> d1) @@ (d2 :> d2) @@ (instance :> system) @@ (schema :> system)
TheNames == (d1 :> "x") @@ (d2 :> "y") @@ (system :> "_system")

\* "alice|x" < "system_meta" < "zoe|y"; the system is published last.
TheLocks == (d1 :> 1) @@ (system :> 2) @@ (d2 :> 3)
TheCommits == (d1 :> 1) @@ (d2 :> 2) @@ (instance :> 3) @@ (schema :> 4)

Does(kind, labels) == [kind |-> kind, labels |-> labels]
Nothing == Does("absent", <<>>)

\* Two databases, in either order, beside a package; a database with its package and its
\* optimization; the system, with its optimization; the system among two databases.
TheCasts == {
  (t1 :> Does("transaction", <<d1, d2>>)) @@ (t2 :> Does("transaction", <<d2, d1>>))
    @@ (t3 :> Does("package", <<d1>>)),
  (t1 :> Does("transaction", <<d1>>)) @@ (t2 :> Does("package", <<d1>>))
    @@ (t3 :> Does("optimizer", <<d1>>)),
  (t1 :> Does("transaction", <<instance, schema>>)) @@ (t2 :> Does("transaction", <<instance, schema>>))
    @@ (t3 :> Does("optimizer", <<instance>>)),
  (t1 :> Does("transaction", <<d2, instance, schema>>))
    @@ (t2 :> Does("transaction", <<d1, d2>>)) @@ (t3 :> Nothing)}

OneTransaction == {
  (t1 :> Does("transaction", <<d1>>)) @@ (t2 :> Nothing) @@ (t3 :> Nothing)}
==============================================================================
