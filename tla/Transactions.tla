----------------------------- MODULE Transactions -----------------------------
(***************************************************************************)
(* Transactions over the named graphs of the store.  A transaction reads the *)
(* heads of its graphs one at a time, runs its body, is validated, and only  *)
(* then takes the meta commit locks of its databases and publishes the new   *)
(* heads by compare-and-set; when it loses one it starts again, a bounded    *)
(* number of times.  A commit package of the queue and an optimization hold  *)
(* the lock of their database from before they read.                        *)
(***************************************************************************)
EXTENDS Naturals, FiniteSets, Sequences

CONSTANTS
  Threads,       \* of the server, each with one transaction, package or optimization
  Labels,        \* the named graphs: one of each database, two of the system
  Keys,          \* the meta commit locks: one of each database, one of the system
  KeyOf,         \* of each label
  NameOf,        \* of each key what tells hierarchies apart: no organization
  LockRank,      \* the order of the keys, as atoms
  CommitRank,    \* the order in which labels are published
  MaxRetries,    \* TERMINUSDB_SERVER_MAX_TRANSACTION_RETRIES
  Casts,         \* bound: what the threads do, and on which labels in which order
  Unread

Kinds == {"transaction", "package", "optimizer", "absent"}

ASSUME LabelAssumption ==
  /\ KeyOf \in [Labels -> Keys]
  /\ DOMAIN NameOf = Keys
ASSUME RankAssumption ==
  /\ LockRank \in [Keys -> Nat] /\ CommitRank \in [Labels -> Nat]
  /\ \A k, m \in Keys : LockRank[k] = LockRank[m] => k = m
  /\ \A l, m \in Labels : CommitRank[l] = CommitRank[m] => l = m
ASSUME RetryAssumption == MaxRetries \in Nat
ASSUME CastAssumption ==
  \A cast \in Casts :
    /\ cast \in [Threads -> [kind : Kinds, labels : Seq(Labels)]]
    /\ \A t \in Threads : cast[t].kind \in {"package", "optimizer"} => Len(cast[t].labels) = 1
ASSUME UnreadAssumption == Unread \notin [version : Nat, log : Seq(Threads)]

VARIABLES
  cast,        \* what each thread does
  store,       \* of each label the version of its head, and whose updates it has
  pc,
  held,        \* the locks of each thread
  seen,        \* the heads that a thread has read
  writes,      \* the graphs its body has changed
  published,   \* those of them whose new head is set
  attempt,     \* its retries so far
  cause,       \* why it had to start again the last time
  signal       \* its transaction_retry_signal

vars == <<cast, store, pc, held, seen, writes, published, attempt, cause, signal>>

Heads == [version : Nat, log : Seq(Threads)]

Is(t, kind) == cast[t].kind = kind
Touches(t) == {cast[t].labels[i] : i \in DOMAIN cast[t].labels}
KeysOf(t) == {KeyOf[l] : l \in Touches(t)}

\* More than one database: a lost update cannot be taken back everywhere.
MultiTransaction(t) == Cardinality({NameOf[k] : k \in KeysOf(t)}) # 1

IsFirst(x, set, rank) == x \in set /\ \A y \in set : rank[x] <= rank[y]

EntryOf == [transaction |-> "reading", package |-> "waiting", optimizer |-> "waiting",
            absent |-> "done"]

Init ==
  /\ cast \in Casts
  /\ store = [l \in Labels |-> [version |-> 0, log |-> <<>>]]
  /\ pc = [t \in Threads |-> EntryOf[cast[t].kind]]
  /\ held = [t \in Threads |-> {}]
  /\ seen = [t \in Threads |-> [l \in Labels |-> Unread]]
  /\ writes = [t \in Threads |-> {}]
  /\ published = [t \in Threads |-> {}]
  /\ attempt = [t \in Threads |-> 0]
  /\ cause = [t \in Threads |-> "none"]
  /\ signal = [t \in Threads |-> FALSE]

Goto(t, location) == pc' = [pc EXCEPT ![t] = location]

------------------------------------------------------------------------------
(* The meta commit locks: mutexes that a thread may enter again *)

Free(k) == \A t \in Threads : k \notin held[t]
Take(t, k) == Free(k) /\ held' = [held EXCEPT ![t] = @ \cup {k}]
ReleaseAll(t) == held' = [held EXCEPT ![t] = {}]

\* The thread ends, out of whatever locks it is in.
End(t, location) == Goto(t, location) /\ ReleaseAll(t)

\* A package and an optimization take the lock of their database first.
TakeOuter(t) ==
  /\ pc[t] = "waiting"
  /\ \E k \in KeysOf(t) : Take(t, k)
  /\ Goto(t, "reading")
  /\ UNCHANGED <<cast, store, seen, writes, published, attempt, cause, signal>>

------------------------------------------------------------------------------
(* One attempt *)

\* The heads are read one by one: of databases in the order of the transaction
\* objects, of the system its instance before its schema.
ReadLabel(t) ==
  /\ pc[t] = "reading"
  /\ \E i \in DOMAIN cast[t].labels :
       /\ \A j \in DOMAIN cast[t].labels : seen[t][cast[t].labels[j]] = Unread <=> i <= j
       /\ seen' = [seen EXCEPT ![t][cast[t].labels[i]] = store[cast[t].labels[i]]]
       /\ Goto(t, IF i < Len(cast[t].labels) THEN "reading"
                  ELSE IF Is(t, "optimizer") THEN "squashing" ELSE "running")
  /\ UNCHANGED <<cast, store, held, writes, published, attempt, cause, signal>>

\* Back to the start, because of the reason: another attempt, if there is one.
StartAgain(t, reason) ==
  /\ Goto(t, "retrying")
  /\ cause' = [cause EXCEPT ![t] = reason]

\* The body succeeds, having changed any of the graphs.
BodySucceeds(t) ==
  /\ pc[t] = "running"
  /\ \E changed \in SUBSET Touches(t) : writes' = [writes EXCEPT ![t] = changed]
  /\ IF Is(t, "transaction") /\ signal[t] THEN StartAgain(t, "signal")
     ELSE Goto(t, "validating") /\ UNCHANGED cause
  /\ UNCHANGED <<cast, store, held, seen, published, attempt, signal>>

\* The body fails, without an error: the end, unless the signal is set.
BodyFails(t) ==
  /\ pc[t] = "running"
  /\ \/ Is(t, "transaction") /\ signal[t] /\ StartAgain(t, "signal") /\ UNCHANGED held
     \/ Is(t, "transaction") /\ ~signal[t] /\ End(t, "failed") /\ UNCHANGED cause
     \/ Is(t, "package") /\ End(t, "threw") /\ UNCHANGED cause
  /\ UNCHANGED <<cast, store, seen, writes, published, attempt, signal>>

\* The body finds that it cannot commit and throws fail_transaction.
BodyFailsTransaction(t) ==
  /\ pc[t] = "running" /\ Is(t, "transaction")
  /\ StartAgain(t, "fail_transaction")
  /\ signal' = [signal EXCEPT ![t] = TRUE]
  /\ UNCHANGED <<cast, store, held, seen, writes, published, attempt>>

Forget(t) ==
  /\ seen' = [seen EXCEPT ![t] = [l \in Labels |-> Unread]]
  /\ writes' = [writes EXCEPT ![t] = {}]
  /\ published' = [published EXCEPT ![t] = {}]
  /\ Goto(t, "reading")

\* A package is elaborated once more, under the same lock.
Reelaborate(t) ==
  /\ pc[t] = "running" /\ Is(t, "package") /\ attempt[t] = 0
  /\ attempt' = [attempt EXCEPT ![t] = 1]
  /\ Forget(t)
  /\ UNCHANGED <<cast, store, held, cause, signal>>

\* An error in the body, witnesses of the validation or of a hook.
Throws(t) ==
  /\ pc[t] \in {"running", "validating"}
  /\ End(t, "threw")
  /\ UNCHANGED <<cast, store, seen, writes, published, attempt, cause, signal>>

\* The layers are built and validated, without a lock.
Validated(t) ==
  /\ pc[t] = "validating"
  /\ Goto(t, "committing")
  /\ UNCHANGED <<cast, store, held, seen, writes, published, attempt, cause, signal>>

------------------------------------------------------------------------------
(* The commit *)

\* Faulty: the compare-and-set is trusted to do without locks.
NothingMissing(t) == {}

MissingKeys(t) == KeysOf(t) \ held[t]

\* Faulty: the locks are taken in any order.
IsAnyKey(k, t) == k \in MissingKeys(t)

\* The lock that comes next, in the order of the keys.
IsNextKey(k, t) == IsFirst(k, MissingKeys(t), LockRank)

TakeLock(t) ==
  /\ pc[t] = "committing"
  /\ \E k \in Keys : IsNextKey(k, t) /\ Take(t, k)
  /\ UNCHANGED <<cast, store, pc, seen, writes, published, attempt, cause, signal>>

\* Faulty: the head is set whatever it is.
IsKnown(t, l) == seen[t][l] # Unread

\* The new layer is a child of the head, if the head is still the one that was read.
IsCurrent(t, l) == seen[t][l].version = store[l].version

SetHead(l, log) == store' = [store EXCEPT ![l] = [version |-> @.version + 1, log |-> log]]

MayPublish(t, l) ==
  /\ pc[t] = "committing" /\ MissingKeys(t) = {}
  /\ IsFirst(l, writes[t] \ published[t], CommitRank)

Publish(t) ==
  /\ \E l \in Labels :
       /\ MayPublish(t, l) /\ IsCurrent(t, l)
       /\ SetHead(l, Append(seen[t][l].log, t))
       /\ published' = [published EXCEPT ![t] = @ \cup {l}]
  /\ UNCHANGED <<cast, pc, held, seen, writes, attempt, cause, signal>>

\* Another thread was faster: commit_validation_objects/2 fails.
PublishLost(t) ==
  /\ \E l \in Labels : MayPublish(t, l) /\ ~IsCurrent(t, l)
  /\ ReleaseAll(t)
  /\ IF Is(t, "transaction") THEN StartAgain(t, "lost")
     ELSE Goto(t, "threw") /\ UNCHANGED cause
  /\ UNCHANGED <<cast, store, seen, writes, published, attempt, signal>>

\* The store fails, or the graph that records the commit is not valid.
PublishThrows(t) ==
  /\ \E l \in Labels : MayPublish(t, l)
  /\ End(t, "threw")
  /\ UNCHANGED <<cast, store, seen, writes, published, attempt, cause, signal>>

Committed(t) ==
  /\ pc[t] = "committing" /\ MissingKeys(t) = {}
  /\ writes[t] \subseteq published[t]
  /\ End(t, "done")
  /\ UNCHANGED <<cast, store, seen, writes, published, attempt, cause, signal>>

\* Faulty: an attempt that lost is never in the way of another one.
NoPartialCommits(t) == FALSE

\* Some graph was changed and its layer built, published or not.
PartialCommits(t) == cause[t] = "lost"

RetryTransaction(t) ==
  /\ pc[t] = "retrying"
  /\ IF attempt[t] = MaxRetries
     THEN Goto(t, "exceeded") /\ UNCHANGED <<seen, writes, published, attempt>>
     ELSE /\ attempt' = [attempt EXCEPT ![t] = @ + 1]
          /\ IF MultiTransaction(t) /\ PartialCommits(t)
             THEN Goto(t, "multi") /\ UNCHANGED <<seen, writes, published>>
             ELSE Forget(t)
  /\ UNCHANGED <<cast, store, held, cause, signal>>

------------------------------------------------------------------------------
(* Optimizations: the head is replaced by one layer with the same content *)

Squash(t) ==
  /\ pc[t] = "squashing"
  /\ \E l \in Touches(t) :
       IF IsCurrent(t, l) THEN SetHead(l, seen[t][l].log) /\ End(t, "done")
       ELSE End(t, "threw") /\ UNCHANGED store
  /\ UNCHANGED <<cast, seen, writes, published, attempt, cause, signal>>

NothingToSquash(t) ==
  /\ pc[t] = "squashing"
  /\ End(t, "done")
  /\ UNCHANGED <<cast, store, seen, writes, published, attempt, cause, signal>>

------------------------------------------------------------------------------
ThreadStep(t) ==
  \/ TakeOuter(t) \/ ReadLabel(t)
  \/ BodySucceeds(t) \/ BodyFails(t) \/ BodyFailsTransaction(t) \/ Reelaborate(t)
  \/ Throws(t) \/ Validated(t) \/ TakeLock(t)
  \/ Publish(t) \/ PublishLost(t) \/ PublishThrows(t) \/ Committed(t)
  \/ RetryTransaction(t) \/ Squash(t) \/ NothingToSquash(t)

Next == \E t \in Threads : ThreadStep(t)

Spec == Init /\ [][Next]_vars

\* A thread that can run does run.
FairSpec == Spec /\ \A t \in Threads : WF_vars(ThreadStep(t))

------------------------------------------------------------------------------
(* Properties *)

Endings == {"done", "failed", "threw", "exceeded", "multi"}
Locations == {"waiting", "reading", "running", "validating", "committing", "retrying",
              "squashing"} \cup Endings

TypeOK ==
  /\ cast \in Casts
  /\ store \in [Labels -> Heads]
  /\ pc \in [Threads -> Locations]
  /\ held \in [Threads -> SUBSET Keys]
  /\ seen \in [Threads -> [Labels -> Heads \cup {Unread}]]
  /\ writes \in [Threads -> SUBSET Labels]
  /\ published \in [Threads -> SUBSET Labels]
  /\ attempt \in [Threads -> Nat]
  /\ cause \in [Threads -> {"none", "lost", "fail_transaction", "signal"}]
  /\ signal \in [Threads -> BOOLEAN]

LocksAreExclusive ==
  \A t, u \in Threads : t # u => held[t] \cap held[u] = {}

\* What a package or an optimization has read of its database, holding its lock,
\* is what is there until it sets the head itself, whatever transactions had read
\* before and are about to publish: neither ever loses its race.
LockedReadsAreCurrent ==
  \A t \in Threads : Is(t, "package") \/ Is(t, "optimizer") =>
    \A l \in Touches(t) \ published[t] :
      (seen[t][l] # Unread /\ pc[t] \notin Endings) => seen[t][l] = store[l]

LocksProtect == TypeOK /\ LocksAreExclusive /\ LockedReadsAreCurrent

\* The updates of a graph are never lost, repeated or reordered by a change of its
\* head: each change adds one update at the end, or none when it is a squashed layer,
\* whoever took which locks.
NoUpdateIsLost ==
  [][\A l \in Labels :
       \/ store'[l].log = store[l].log
       \/ \E t \in Threads : store'[l].log = Append(store[l].log, t)]_vars

Times(t, l) == Cardinality({i \in DOMAIN store[l].log : store[l].log[i] = t})
Nowhere(t) == \A l \in Labels : Times(t, l) = 0

\* Every graph of the transaction is a hierarchy of its own, so that what it has
\* published can be told from what it can take back.
Separate(t) == Cardinality({NameOf[k] : k \in KeysOf(t)}) = Cardinality(Touches(t))

\* The outcome says what is in the store: a transaction that is done has each of its
\* updates there, once, after whatever retries; one whose body failed has none; one that
\* ends with an error has none if it is on one graph, and on several graphs its updates
\* may be there in part, but it is not run again on top of them.
OutcomesAreTold ==
  \A t \in Threads : Separate(t) =>
    /\ pc[t] = "done" => \A l \in Labels : Times(t, l) = (IF l \in writes[t] THEN 1 ELSE 0)
    /\ pc[t] \in {"failed", "running"} => Nowhere(t)
    /\ (pc[t] \in {"threw", "exceeded"} /\ Cardinality(Touches(t)) = 1) => Nowhere(t)
    /\ pc[t] = "multi" => Cardinality(Touches(t)) > 1

\* A transaction that gives up has lost its last attempt to another one, or has itself
\* found that it cannot commit: "retry on fail_transaction" (database.pl:267).
ExceededMeansContended ==
  \A t \in Threads : pc[t] = "exceeded" => cause[t] \in {"lost", "fail_transaction"}

\* Whatever locks the threads take, and in whatever order their databases are named,
\* none of them waits for ever, and retries come to an end.
EveryTransactionEnds == \A t \in Threads : <>(pc[t] \in Endings)
==============================================================================
