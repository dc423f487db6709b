-------------------------- MODULE TransactionsProofs --------------------------
(* Proofs about the transactions, for all threads, databases and retries. *)
EXTENDS Transactions, FiniteSetTheorems, TLAPS

\* A package or an optimization that is under way has the lock of its database.
OuterLocksAreHeld ==
  \A t \in Threads :
    (Is(t, "package") \/ Is(t, "optimizer")) /\ pc[t] \notin Endings \cup {"waiting"}
      => KeysOf(t) \subseteq held[t]

NothingReadYet ==
  \A t \in Threads : pc[t] = "waiting" => \A l \in Labels : seen[t][l] = Unread

ReadBeforeUse ==
  \A t \in Threads : pc[t] \in {"running", "validating", "committing", "squashing"} =>
    \A l \in Touches(t) : seen[t][l] \in Heads

WritesAreOwn == \A t \in Threads : writes[t] \subseteq Touches(t)

SquashersOptimize == \A t \in Threads : pc[t] = "squashing" => Is(t, "optimizer")

\* What was read is of the past, and of now if the version is.
ReadsAreOfThePast ==
  \A t \in Threads, l \in Labels : seen[t][l] \in Heads =>
    /\ seen[t][l].version <= store[l].version
    /\ seen[t][l].version = store[l].version => seen[t][l] = store[l]

IInv ==
  /\ LocksProtect
  /\ OuterLocksAreHeld /\ NothingReadYet /\ ReadBeforeUse
  /\ WritesAreOwn /\ SquashersOptimize /\ ReadsAreOfThePast

Others ==
  /\ LockedReadsAreCurrent /\ OuterLocksAreHeld /\ NothingReadYet /\ ReadBeforeUse
  /\ WritesAreOwn /\ SquashersOptimize /\ ReadsAreOfThePast

\* A step that neither reads nor sets a head.
Quiet(t) ==
  /\ UNCHANGED <<cast, store, seen, published>>
  /\ \/ Goto(t, "validating") /\ pc[t] = "running" /\ UNCHANGED held
     \/ Goto(t, "committing") /\ pc[t] = "validating" /\ UNCHANGED held
     \/ UNCHANGED pc /\ \E k : Take(t, k)
     \/ Goto(t, "retrying") /\ Is(t, "transaction") /\ (UNCHANGED held \/ ReleaseAll(t))
     \/ \E end \in Endings : Goto(t, end) /\ (UNCHANGED held \/ ReleaseAll(t))
  /\ UNCHANGED writes \/ \E changed \in SUBSET Touches(t) : writes' = [writes EXCEPT ![t] = changed]

LEMMA TouchesLabels ==
  ASSUME TypeOK, NEW t \in Threads
  PROVE  /\ cast[t].labels \in Seq(Labels)
         /\ Touches(t) \subseteq Labels
         /\ KeysOf(t) \subseteq Keys
PROOF
  <1> USE LabelAssumption, CastAssumption
  <1>1. cast[t].labels \in Seq(Labels)
    BY DEF TypeOK
  <1>2. Touches(t) \subseteq Labels
    BY <1>1 DEF Touches
  <1> QED BY <1>1, <1>2 DEF KeysOf

LEMMA InitIInv == Init => IInv
PROOF
  <1> SUFFICES ASSUME Init PROVE IInv
    OBVIOUS
  <1> USE CastAssumption, UnreadAssumption DEF Kinds
  <1>1. \A t \in Threads :
          /\ cast[t].kind \in Kinds
          /\ pc[t] = EntryOf[cast[t].kind]
    BY DEF Init
  <1>2. \A t \in Threads : pc[t] \in {"reading", "done", "waiting"}
    BY <1>1 DEF EntryOf
  <1>3. TypeOK
    <2>1. pc \in [Threads -> Locations]
      BY <1>2 DEF Init, Locations, Endings
    <2>2. store \in [Labels -> Heads]
      BY DEF Init, Heads
    <2> QED BY <2>1, <2>2 DEF Init, TypeOK
  <1>4. LocksAreExclusive
    BY DEF Init, LocksAreExclusive
  <1>5. \A t \in Threads, l \in Labels : seen[t][l] = Unread
    BY DEF Init
  <1>6. LockedReadsAreCurrent /\ NothingReadYet
    BY <1>3, <1>5, TouchesLabels DEF LockedReadsAreCurrent, NothingReadYet
  <1>7. \A t \in Threads : (Is(t, "package") \/ Is(t, "optimizer")) => pc[t] = "waiting"
    BY <1>1 DEF Is, EntryOf
  <1>8. OuterLocksAreHeld /\ ReadBeforeUse /\ SquashersOptimize
    BY <1>2, <1>7 DEF OuterLocksAreHeld, ReadBeforeUse, SquashersOptimize
  <1>9. WritesAreOwn
    BY DEF Init, WritesAreOwn
  <1>10. ReadsAreOfThePast
    BY <1>5 DEF ReadsAreOfThePast, Heads
  <1> QED BY <1>3, <1>4, <1>6, <1>8, <1>9, <1>10 DEF IInv, LocksProtect

\* Every step keeps the types.
LEMMA StepTypes ==
  ASSUME TypeOK, ReadBeforeUse, WritesAreOwn, NEW t \in Threads, ThreadStep(t)
  PROVE  TypeOK'
PROOF
  <1>a. /\ cast[t].labels \in Seq(Labels)
        /\ Touches(t) \subseteq Labels
        /\ KeysOf(t) \subseteq Keys
    BY TouchesLabels
  <1> USE <1>a DEF TypeOK, Locations, Endings
  <1>1. CASE TakeOuter(t)
    BY <1>1 DEF TakeOuter, Take, Goto
  <1>2. CASE ReadLabel(t)
    <2> PICK i \in DOMAIN cast[t].labels :
          /\ seen' = [seen EXCEPT ![t][cast[t].labels[i]] = store[cast[t].labels[i]]]
          /\ Goto(t, IF i < Len(cast[t].labels) THEN "reading"
                     ELSE IF Is(t, "optimizer") THEN "squashing" ELSE "running")
      BY <1>2 DEF ReadLabel
    <2>1. cast[t].labels[i] \in Labels
      OBVIOUS
    <2>2. seen' \in [Threads -> [Labels -> Heads \cup {Unread}]]
      BY <2>1
    <2>3. pc' \in [Threads -> Locations]
      BY DEF Goto
    <2> QED BY <1>2, <2>2, <2>3 DEF ReadLabel
  <1>3. CASE BodySucceeds(t)
    <2>1. writes' \in [Threads -> SUBSET Labels]
      <3> PICK changed \in SUBSET Touches(t) : writes' = [writes EXCEPT ![t] = changed]
        BY <1>3 DEF BodySucceeds
      <3>1. changed \in SUBSET Labels
        OBVIOUS
      <3> QED BY <3>1
    <2>2. Goto(t, "retrying") \/ Goto(t, "validating")
      BY <1>3 DEF BodySucceeds, StartAgain
    <2>4. pc' \in [Threads -> Locations]
      BY <2>2 DEF Goto
    <2>3. cause' \in [Threads -> {"none", "lost", "fail_transaction", "signal"}]
      BY <1>3 DEF BodySucceeds, StartAgain
    <2> QED BY <1>3, <2>1, <2>3, <2>4 DEF BodySucceeds
  <1>4. CASE BodyFails(t)
    BY <1>4 DEF BodyFails, StartAgain, End, ReleaseAll, Goto
  <1>5. CASE BodyFailsTransaction(t)
    BY <1>5 DEF BodyFailsTransaction, StartAgain, Goto
  <1>6. CASE Reelaborate(t)
    BY <1>6 DEF Reelaborate, Forget, Goto
  <1>7. CASE Throws(t)
    BY <1>7 DEF Throws, End, ReleaseAll, Goto
  <1>8. CASE Validated(t)
    BY <1>8 DEF Validated, Goto
  <1>9. CASE TakeLock(t)
    BY <1>9 DEF TakeLock, Take
  <1>10. CASE Publish(t)
    <2> PICK l \in Labels :
          /\ MayPublish(t, l)
          /\ SetHead(l, Append(seen[t][l].log, t))
          /\ published' = [published EXCEPT ![t] = @ \cup {l}]
      BY <1>10 DEF Publish
    <2>1. seen[t][l] \in Heads
      BY DEF MayPublish, IsFirst, ReadBeforeUse, WritesAreOwn
    <2>2. [version |-> store[l].version + 1, log |-> Append(seen[t][l].log, t)] \in Heads
      BY <2>1 DEF Heads
    <2>3. store' \in [Labels -> Heads]
      BY <2>2 DEF SetHead
    <2> QED BY <1>10, <2>3 DEF Publish
  <1>11. CASE PublishLost(t)
    BY <1>11 DEF PublishLost, StartAgain, ReleaseAll, Goto
  <1>12. CASE PublishThrows(t)
    BY <1>12 DEF PublishThrows, End, ReleaseAll, Goto
  <1>13. CASE Committed(t)
    BY <1>13 DEF Committed, End, ReleaseAll, Goto
  <1>14. CASE RetryTransaction(t)
    <2>1. CASE attempt[t] = MaxRetries
      BY <1>14, <2>1 DEF RetryTransaction, Goto
    <2>2. CASE attempt[t] # MaxRetries /\ MultiTransaction(t) /\ PartialCommits(t)
      <3>1. /\ attempt' = [attempt EXCEPT ![t] = @ + 1]
            /\ Goto(t, "multi") /\ UNCHANGED <<seen, writes, published>>
        BY <1>14, <2>2 DEF RetryTransaction
      <3> QED BY <1>14, <3>1 DEF RetryTransaction, Goto
    <2>3. CASE attempt[t] # MaxRetries /\ ~(MultiTransaction(t) /\ PartialCommits(t))
      <3>1. attempt' = [attempt EXCEPT ![t] = @ + 1] /\ Forget(t)
        BY <1>14, <2>3 DEF RetryTransaction
      <3>2. UNCHANGED <<cast, store, held, cause, signal>>
        BY <1>14 DEF RetryTransaction
      <3> QED BY <3>1, <3>2 DEF Forget, Goto
    <2> QED BY <2>1, <2>2, <2>3
  <1>15. CASE Squash(t)
    <2> PICK l \in Touches(t) :
          IF IsCurrent(t, l) THEN SetHead(l, seen[t][l].log) /\ End(t, "done")
          ELSE End(t, "threw") /\ UNCHANGED store
      BY <1>15 DEF Squash
    <2>1. seen[t][l] \in Heads
      BY <1>15 DEF Squash, ReadBeforeUse
    <2>2. [version |-> store[l].version + 1, log |-> seen[t][l].log] \in Heads
      BY <2>1 DEF Heads
    <2>3. store' \in [Labels -> Heads]
      BY <2>2 DEF SetHead
    <2> QED BY <1>15, <2>3 DEF Squash, End, ReleaseAll, Goto
  <1>16. CASE NothingToSquash(t)
    BY <1>16 DEF NothingToSquash, End, ReleaseAll, Goto
  <1> QED
    BY <1>1, <1>2, <1>3, <1>4, <1>5, <1>6, <1>7, <1>8, <1>9, <1>10, <1>11, <1>12, <1>13,
       <1>14, <1>15, <1>16 DEF ThreadStep

\* A lock is only taken when no thread holds it.
LEMMA StepExclusive ==
  ASSUME TypeOK, LocksAreExclusive, NEW t \in Threads, ThreadStep(t)
  PROVE  LocksAreExclusive'
PROOF
  <1>1. \/ UNCHANGED held
        \/ ReleaseAll(t)
        \/ \E k : Take(t, k)
    BY DEF ThreadStep, TakeOuter, ReadLabel, BodySucceeds, BodyFails, BodyFailsTransaction,
       Reelaborate, Throws, Validated, TakeLock, Publish, PublishLost, PublishThrows, Committed,
       RetryTransaction, Squash, NothingToSquash, End, SetHead
  <1>2. CASE UNCHANGED held
    BY <1>2 DEF LocksAreExclusive
  <1>3. CASE ReleaseAll(t)
    BY <1>3 DEF ReleaseAll, LocksAreExclusive, TypeOK
  <1>4. CASE \E k : Take(t, k)
    BY <1>4 DEF Take, Free, LocksAreExclusive, TypeOK
  <1> QED BY <1>1, <1>2, <1>3, <1>4

LEMMA QuietStep ==
  ASSUME TypeOK, Others, NEW t \in Threads, Quiet(t)
  PROVE  Others'
PROOF
  <1> USE DEF TypeOK, Endings, Others
  <1>1. /\ cast' = cast /\ store' = store /\ seen' = seen /\ published' = published
        /\ \A u \in Threads : u # t => pc'[u] = pc[u] /\ held'[u] = held[u]
    BY DEF Quiet, Goto, Take, ReleaseAll
  <1>2. \/ pc'[t] = "validating" /\ pc[t] = "running" /\ held'[t] = held[t]
        \/ pc'[t] = "committing" /\ pc[t] = "validating" /\ held'[t] = held[t]
        \/ pc'[t] = pc[t] /\ held[t] \subseteq held'[t]
        \/ pc'[t] = "retrying" /\ Is(t, "transaction")
        \/ pc'[t] \in Endings
    BY DEF Quiet, Goto, Take, ReleaseAll
  <1>3. \A u \in Threads, l \in Labels : pc'[u] \notin Endings => pc[u] \notin Endings \/ pc'[u] = "retrying"
    BY <1>1, <1>2
  <1>4. \A u \in Threads : /\ Touches(u)' = Touches(u) /\ KeysOf(u)' = KeysOf(u)
                           /\ \A kind : Is(u, kind)' <=> Is(u, kind)
    BY <1>1 DEF Touches, KeysOf, Is
  <1>5. LockedReadsAreCurrent'
    BY <1>1, <1>2, <1>3, <1>4 DEF LockedReadsAreCurrent, Is
  <1>6. OuterLocksAreHeld'
    BY <1>1, <1>2, <1>4 DEF OuterLocksAreHeld, Is
  <1>7. NothingReadYet'
    BY <1>1, <1>2 DEF NothingReadYet
  <1>8. ReadBeforeUse'
    BY <1>1, <1>2, <1>4 DEF ReadBeforeUse
  <1>9. WritesAreOwn'
    BY <1>1, <1>4 DEF WritesAreOwn, Quiet
  <1>10. SquashersOptimize'
    BY <1>1, <1>2, <1>4 DEF SquashersOptimize
  <1>11. ReadsAreOfThePast'
    BY <1>1 DEF ReadsAreOfThePast
  <1> QED BY <1>5, <1>6, <1>7, <1>8, <1>9, <1>10, <1>11

\* Setting a head disturbs nobody who read it under the lock.
LEMMA SetHeadStep ==
  ASSUME TypeOK, LocksAreExclusive, Others, TypeOK',
         NEW t \in Threads, NEW l \in Touches(t), NEW log,
         KeysOf(t) \subseteq held[t], SetHead(l, log), UNCHANGED <<cast, seen, writes>>,
         \A u \in Threads : u # t => pc'[u] = pc[u] /\ held'[u] = held[u] /\ published'[u] = published[u],
         \/ UNCHANGED <<pc, held>> /\ published' = [published EXCEPT ![t] = @ \cup {l}]
         \/ Len(cast[t].labels) = 1 /\ End(t, "done") /\ UNCHANGED published
  PROVE  Others'
PROOF
  <1> USE DEF TypeOK, Endings, Others
  <1>1. /\ l \in Labels
        /\ \A m \in Labels : m # l => store'[m] = store[m]
        /\ store'[l].version = store[l].version + 1
    BY TouchesLabels DEF SetHead, Heads
  <1>2. \A u \in Threads : /\ Touches(u)' = Touches(u) /\ KeysOf(u)' = KeysOf(u)
                           /\ \A kind : Is(u, kind)' <=> Is(u, kind)
    BY DEF Touches, KeysOf, Is
  <1>3. \/ pc'[t] = pc[t] /\ held'[t] = held[t] /\ published'[t] = published[t] \cup {l}
        \/ pc'[t] \in Endings
    BY DEF End, Goto
  <1>4. \A u \in Threads : (u # t /\ (Is(u, "package") \/ Is(u, "optimizer")) /\ pc[u] \notin Endings
                             /\ l \in Touches(u)) => seen[u][l] = Unread
    <2> SUFFICES ASSUME NEW u \in Threads, u # t, Is(u, "package") \/ Is(u, "optimizer"),
                        pc[u] \notin Endings, l \in Touches(u)
                 PROVE  seen[u][l] = Unread
      OBVIOUS
    <2>1. KeyOf[l] \in KeysOf(u) /\ KeyOf[l] \in held[t]
      BY DEF KeysOf
    <2>2. KeyOf[l] \notin held[u]
      BY <2>1 DEF LocksAreExclusive
    <2>3. pc[u] = "waiting"
      BY <2>1, <2>2 DEF OuterLocksAreHeld
    <2> QED BY <1>1, <2>3 DEF NothingReadYet
  <1>5. LockedReadsAreCurrent'
    <2> SUFFICES ASSUME NEW u \in Threads, Is(u, "package") \/ Is(u, "optimizer"),
                        NEW m \in Touches(u), m \notin published'[u],
                        seen[u][m] # Unread, pc'[u] \notin Endings
                 PROVE  seen[u][m] = store'[m]
      BY <1>2 DEF LockedReadsAreCurrent
    <2>1. m \in Labels
      BY TouchesLabels
    <2>2. CASE u = t
      <3>1. m # l /\ m \notin published[t] /\ pc[t] \notin Endings
        BY <1>3, <2>2
      <3> QED BY <1>1, <2>1, <2>2, <3>1 DEF LockedReadsAreCurrent
    <2>3. CASE u # t
      <3>1. m # l
        BY <1>4, <2>3
      <3> QED BY <1>1, <2>1, <2>3, <3>1 DEF LockedReadsAreCurrent
    <2> QED BY <2>2, <2>3
  <1>6. OuterLocksAreHeld'
    BY <1>2, <1>3 DEF OuterLocksAreHeld
  <1>7. NothingReadYet'
    BY <1>3 DEF NothingReadYet
  <1>8. ReadBeforeUse'
    BY <1>2, <1>3 DEF ReadBeforeUse
  <1>9. WritesAreOwn'
    BY <1>2 DEF WritesAreOwn
  <1>10. SquashersOptimize'
    BY <1>2, <1>3 DEF SquashersOptimize
  <1>11. ReadsAreOfThePast'
    <2> SUFFICES ASSUME NEW u \in Threads, NEW m \in Labels, seen[u][m] \in Heads
                 PROVE  /\ seen[u][m].version <= store'[m].version
                        /\ seen[u][m].version = store'[m].version => seen[u][m] = store'[m]
      BY DEF ReadsAreOfThePast
    <2>1. seen[u][m].version \in Nat /\ store[m].version \in Nat
      BY DEF Heads
    <2>2. seen[u][m].version <= store[m].version
      BY DEF ReadsAreOfThePast
    <2>3. CASE m = l
      BY <1>1, <2>1, <2>2, <2>3
    <2>4. CASE m # l
      BY <1>1, <2>2, <2>4 DEF ReadsAreOfThePast
    <2> QED BY <2>3, <2>4
  <1> QED BY <1>5, <1>6, <1>7, <1>8, <1>9, <1>10, <1>11

\* To forget what was read is safe in any state with a lock that stays.
LEMMA ForgetStep ==
  ASSUME TypeOK, Others, NEW t \in Threads, Forget(t), UNCHANGED <<cast, store, held>>,
         pc[t] \notin Endings \cup {"waiting"}
  PROVE  Others'
PROOF
  <1> USE DEF TypeOK, Endings, Others
  <1>1. /\ \A u \in Threads : u # t => /\ pc'[u] = pc[u] /\ seen'[u] = seen[u]
                                       /\ writes'[u] = writes[u] /\ published'[u] = published[u]
        /\ pc'[t] = "reading" /\ writes'[t] = {}
        /\ \A l \in Labels : seen'[t][l] = Unread
    BY DEF Forget, Goto
  <1>2. \A u \in Threads : /\ Touches(u)' = Touches(u) /\ KeysOf(u)' = KeysOf(u)
                           /\ \A kind : Is(u, kind)' <=> Is(u, kind)
    BY DEF Touches, KeysOf, Is
  <1>3. \A u \in Threads : Touches(u) \subseteq Labels
    BY TouchesLabels
  <1>5. LockedReadsAreCurrent'
    BY <1>1, <1>2, <1>3 DEF LockedReadsAreCurrent
  <1>6. OuterLocksAreHeld'
    BY <1>1, <1>2 DEF OuterLocksAreHeld
  <1>7. NothingReadYet'
    BY <1>1 DEF NothingReadYet
  <1>8. ReadBeforeUse'
    BY <1>1, <1>2 DEF ReadBeforeUse
  <1>9. WritesAreOwn'
    BY <1>1, <1>2 DEF WritesAreOwn
  <1>10. SquashersOptimize'
    BY <1>1, <1>2 DEF SquashersOptimize
  <1>11. ReadsAreOfThePast'
    <2> SUFFICES ASSUME NEW u \in Threads, NEW m \in Labels, seen'[u][m] \in Heads
                 PROVE  /\ seen'[u][m].version <= store[m].version
                        /\ seen'[u][m].version = store[m].version => seen'[u][m] = store[m]
      BY DEF ReadsAreOfThePast
    <2>1. Unread \notin Heads
      BY UnreadAssumption DEF Heads
    <2>2. u # t
      BY <1>1, <2>1
    <2> QED BY <1>1, <2>2 DEF ReadsAreOfThePast
  <1> QED BY <1>5, <1>6, <1>7, <1>8, <1>9, <1>10, <1>11

\* A head is read: under the lock, or as it was.
LEMMA ReadStep ==
  ASSUME TypeOK, Others, NEW t \in Threads, ReadLabel(t)
  PROVE  Others'
PROOF
  <1> USE DEF TypeOK, Endings, Others
  <1> PICK i \in DOMAIN cast[t].labels :
        /\ \A j \in DOMAIN cast[t].labels : seen[t][cast[t].labels[j]] = Unread <=> i <= j
        /\ seen' = [seen EXCEPT ![t][cast[t].labels[i]] = store[cast[t].labels[i]]]
        /\ Goto(t, IF i < Len(cast[t].labels) THEN "reading"
                   ELSE IF Is(t, "optimizer") THEN "squashing" ELSE "running")
    BY DEF ReadLabel
  <1> DEFINE l == cast[t].labels[i]
  <1>1. UNCHANGED <<cast, store, held, writes, published>>
    BY DEF ReadLabel
  <1>2. \A u \in Threads : /\ Touches(u)' = Touches(u) /\ KeysOf(u)' = KeysOf(u)
                           /\ \A kind : Is(u, kind)' <=> Is(u, kind)
    BY <1>1 DEF Touches, KeysOf, Is
  <1>3. /\ cast[t].labels \in Seq(Labels)
        /\ \A u \in Threads : Touches(u) \subseteq Labels
        /\ l \in Labels
    BY TouchesLabels
  <1>4. /\ pc[t] = "reading" /\ pc'[t] \in {"reading", "squashing", "running"}
        /\ \A u \in Threads : u # t => pc'[u] = pc[u] /\ seen'[u] = seen[u]
        /\ seen'[t][l] = store[l] /\ store[l] \in Heads
        /\ \A m \in Labels : m # l => seen'[t][m] = seen[t][m]
    BY <1>3 DEF ReadLabel, Goto
  <1>5. LockedReadsAreCurrent'
    BY <1>1, <1>2, <1>3, <1>4 DEF LockedReadsAreCurrent
  <1>6. OuterLocksAreHeld'
    BY <1>1, <1>2, <1>4 DEF OuterLocksAreHeld
  <1>7. NothingReadYet'
    BY <1>4 DEF NothingReadYet
  <1>8. pc'[t] # "reading" => \A m \in Touches(t) : seen'[t][m] \in Heads
    <2> SUFFICES ASSUME pc'[t] # "reading", NEW m \in Touches(t) PROVE seen'[t][m] \in Heads
      OBVIOUS
    <2>1. i = Len(cast[t].labels)
      BY <1>3 DEF Goto
    <2> PICK j \in DOMAIN cast[t].labels : m = cast[t].labels[j]
      BY DEF Touches
    <2>2. CASE m = l
      BY <1>4, <2>2
    <2>3. CASE m # l
      <3>1. j < i
        BY <1>3, <2>1, <2>3
      <3>2. seen[t][m] # Unread
        BY <1>3, <3>1
      <3> QED BY <1>3, <1>4, <2>3, <3>2
    <2> QED BY <2>2, <2>3
  <1>9. ReadBeforeUse'
    BY <1>2, <1>4, <1>8 DEF ReadBeforeUse
  <1>10. WritesAreOwn'
    BY <1>1, <1>2 DEF WritesAreOwn
  <1>11. SquashersOptimize'
    <2>1. pc'[t] = "squashing" => Is(t, "optimizer")
      BY DEF Goto
    <2> QED BY <1>2, <1>4, <2>1 DEF SquashersOptimize
  <1>12. ReadsAreOfThePast'
    <2> SUFFICES ASSUME NEW u \in Threads, NEW m \in Labels, seen'[u][m] \in Heads
                 PROVE  /\ seen'[u][m].version <= store[m].version
                        /\ seen'[u][m].version = store[m].version => seen'[u][m] = store[m]
      BY <1>1 DEF ReadsAreOfThePast
    <2>1. CASE u = t /\ m = l
      BY <1>4, <2>1 DEF Heads
    <2>2. CASE ~(u = t /\ m = l)
      BY <1>4, <2>2 DEF ReadsAreOfThePast
    <2> QED BY <2>1, <2>2
  <1> QED BY <1>5, <1>6, <1>7, <1>9, <1>10, <1>11, <1>12

\* The lock of a package or an optimization.
LEMMA TakeOuterStep ==
  ASSUME TypeOK, Others, NEW t \in Threads, TakeOuter(t)
  PROVE  Others'
PROOF
  <1> USE DEF TypeOK, Endings, Others
  <1>1. /\ UNCHANGED <<cast, store, seen, writes, published>>
        /\ pc[t] = "waiting" /\ pc'[t] = "reading"
        /\ \A u \in Threads : u # t => pc'[u] = pc[u] /\ held'[u] = held[u]
    BY DEF TakeOuter, Take, Goto
  <1>2. \A u \in Threads : /\ Touches(u)' = Touches(u) /\ KeysOf(u)' = KeysOf(u)
                           /\ \A kind : Is(u, kind)' <=> Is(u, kind)
    BY <1>1 DEF Touches, KeysOf, Is
  <1>3. \A u \in Threads : Touches(u) \subseteq Labels
    BY TouchesLabels
  <1>4. Is(t, "package") \/ Is(t, "optimizer") => KeysOf(t) \subseteq held'[t]
    <2> SUFFICES ASSUME Is(t, "package") \/ Is(t, "optimizer")
                 PROVE  KeysOf(t) \subseteq held'[t]
      OBVIOUS
    <2>1. Len(cast[t].labels) = 1 /\ cast[t].labels \in Seq(Labels)
      BY CastAssumption, TouchesLabels DEF Is
    <2>2. \A k, m \in KeysOf(t) : k = m
      BY <2>1 DEF KeysOf, Touches
    <2>3. \E k \in KeysOf(t) : k \in held'[t]
      BY DEF TakeOuter, Take
    <2> QED BY <2>2, <2>3
  <1>5. LockedReadsAreCurrent'
    BY <1>1, <1>2, <1>3 DEF LockedReadsAreCurrent, NothingReadYet
  <1>6. OuterLocksAreHeld'
    BY <1>1, <1>2, <1>4 DEF OuterLocksAreHeld
  <1>7. NothingReadYet'
    BY <1>1 DEF NothingReadYet
  <1>8. ReadBeforeUse'
    BY <1>1, <1>2 DEF ReadBeforeUse
  <1>9. WritesAreOwn'
    BY <1>1, <1>2 DEF WritesAreOwn
  <1>10. SquashersOptimize'
    BY <1>1, <1>2 DEF SquashersOptimize
  <1>11. ReadsAreOfThePast'
    BY <1>1 DEF ReadsAreOfThePast
  <1> QED BY <1>5, <1>6, <1>7, <1>8, <1>9, <1>10, <1>11

LEMMA StepOthers ==
  ASSUME IInv, TypeOK', NEW t \in Threads, ThreadStep(t)
  PROVE  Others'
PROOF
  <1> USE QuietStep DEF IInv, LocksProtect, Others
  <1>1. CASE TakeOuter(t)
    BY <1>1, TakeOuterStep
  <1>2. CASE ReadLabel(t)
    BY <1>2, ReadStep
  <1>3. CASE BodySucceeds(t)
    <2>1. Goto(t, "validating") \/ (Goto(t, "retrying") /\ Is(t, "transaction"))
      BY <1>3 DEF BodySucceeds, StartAgain
    <2>2. Quiet(t)
      BY <1>3, <2>1 DEF BodySucceeds, Quiet
    <2> QED BY <2>2
  <1>4. CASE BodyFails(t)
    <2>1. Quiet(t)
      BY <1>4 DEF BodyFails, StartAgain, End, Quiet, Endings
    <2> QED BY <2>1
  <1>5. CASE BodyFailsTransaction(t)
    <2>1. Quiet(t)
      BY <1>5 DEF BodyFailsTransaction, StartAgain, Quiet
    <2> QED BY <2>1
  <1>6. CASE Reelaborate(t)
    <2>1. Forget(t) /\ UNCHANGED <<cast, store, held>> /\ pc[t] = "running"
      BY <1>6 DEF Reelaborate
    <2> QED BY <2>1, ForgetStep DEF Endings
  <1>7. CASE Throws(t)
    <2>1. Quiet(t)
      BY <1>7 DEF Throws, End, Quiet, Endings
    <2> QED BY <2>1
  <1>8. CASE Validated(t)
    <2>1. Quiet(t)
      BY <1>8 DEF Validated, Quiet
    <2> QED BY <2>1
  <1>9. CASE TakeLock(t)
    <2>1. Quiet(t)
      BY <1>9 DEF TakeLock, Quiet
    <2> QED BY <2>1
  <1>10. CASE Publish(t)
    <2> PICK l \in Labels :
          /\ MayPublish(t, l)
          /\ SetHead(l, Append(seen[t][l].log, t))
          /\ published' = [published EXCEPT ![t] = @ \cup {l}]
      BY <1>10 DEF Publish
    <2>1. l \in Touches(t) /\ KeysOf(t) \subseteq held[t]
      BY DEF MayPublish, IsFirst, WritesAreOwn, MissingKeys
    <2>2. UNCHANGED <<cast, pc, held, seen, writes>>
      BY <1>10 DEF Publish
    <2>3. \A u \in Threads : u # t => published'[u] = published[u]
      BY DEF TypeOK
    <2> QED BY <2>1, <2>2, <2>3, SetHeadStep
  <1>11. CASE PublishLost(t)
    <2>1. Goto(t, "threw") \/ (Goto(t, "retrying") /\ Is(t, "transaction"))
      BY <1>11 DEF PublishLost, StartAgain
    <2>2. Quiet(t)
      BY <1>11, <2>1 DEF PublishLost, Quiet, Endings
    <2> QED BY <2>2
  <1>12. CASE PublishThrows(t)
    <2>1. Quiet(t)
      BY <1>12 DEF PublishThrows, End, Quiet, Endings
    <2> QED BY <2>1
  <1>13. CASE Committed(t)
    <2>1. Quiet(t)
      BY <1>13 DEF Committed, End, Quiet, Endings
    <2> QED BY <2>1
  <1>14. CASE RetryTransaction(t)
    <2>1. CASE Forget(t)
      <3>1. UNCHANGED <<cast, store, held>> /\ pc[t] = "retrying"
        BY <1>14 DEF RetryTransaction
      <3> QED BY <2>1, <3>1, ForgetStep DEF Endings
    <2>2. CASE ~Forget(t)
      <3>1. /\ Goto(t, "exceeded") \/ Goto(t, "multi")
            /\ UNCHANGED <<cast, store, held, seen, writes, published>>
        BY <1>14, <2>2 DEF RetryTransaction
      <3>2. Quiet(t)
        BY <3>1 DEF Quiet, Endings
      <3> QED BY <3>2
    <2> QED BY <2>1, <2>2
  <1>15. CASE Squash(t)
    <2> PICK l \in Touches(t) :
          IF IsCurrent(t, l) THEN SetHead(l, seen[t][l].log) /\ End(t, "done")
          ELSE End(t, "threw") /\ UNCHANGED store
      BY <1>15 DEF Squash
    <2>1. CASE IsCurrent(t, l)
      <3>1. Is(t, "optimizer") /\ KeysOf(t) \subseteq held[t]
        BY <1>15 DEF Squash, SquashersOptimize, OuterLocksAreHeld, Endings
      <3>2. Len(cast[t].labels) = 1
        BY <3>1, CastAssumption DEF TypeOK, Is
      <3>3. \A u \in Threads : u # t => /\ pc'[u] = pc[u] /\ held'[u] = held[u]
                                        /\ published'[u] = published[u]
        BY <1>15, <2>1 DEF Squash, End, Goto, ReleaseAll, TypeOK
      <3>4. SetHead(l, seen[t][l].log) /\ End(t, "done")
        BY <2>1
      <3>5. UNCHANGED <<cast, seen, writes, published>>
        BY <1>15 DEF Squash
      <3> QED BY <3>1, <3>2, <3>3, <3>4, <3>5, SetHeadStep
    <2>2. CASE ~IsCurrent(t, l)
      <3>1. Quiet(t)
        BY <1>15, <2>2 DEF Squash, End, Quiet, Endings
      <3> QED BY <3>1
    <2> QED BY <2>1, <2>2
  <1>16. CASE NothingToSquash(t)
    <2>1. Quiet(t)
      BY <1>16 DEF NothingToSquash, End, Quiet, Endings
    <2> QED BY <2>1
  <1> QED
    BY <1>1, <1>2, <1>3, <1>4, <1>5, <1>6, <1>7, <1>8, <1>9, <1>10, <1>11, <1>12, <1>13,
       <1>14, <1>15, <1>16 DEF ThreadStep

LEMMA StepIInv == IInv /\ [Next]_vars => IInv'
PROOF
  <1> SUFFICES ASSUME IInv, [Next]_vars PROVE IInv'
    OBVIOUS
  <1>1. CASE UNCHANGED vars
    <2>1. \A t \in Threads : /\ Touches(t)' = Touches(t) /\ KeysOf(t)' = KeysOf(t)
                             /\ \A kind : Is(t, kind)' <=> Is(t, kind)
      BY <1>1 DEF vars, Touches, KeysOf, Is
    <2>2. TypeOK' /\ LocksAreExclusive'
      BY <1>1 DEF vars, IInv, LocksProtect, TypeOK, LocksAreExclusive
    <2>3. LockedReadsAreCurrent'
      BY <1>1, <2>1 DEF vars, IInv, LocksProtect, LockedReadsAreCurrent
    <2>4. OuterLocksAreHeld' /\ NothingReadYet'
      BY <1>1, <2>1 DEF vars, IInv, OuterLocksAreHeld, NothingReadYet
    <2>5. ReadBeforeUse' /\ WritesAreOwn' /\ SquashersOptimize'
      BY <1>1, <2>1 DEF vars, IInv, ReadBeforeUse, WritesAreOwn, SquashersOptimize
    <2>6. ReadsAreOfThePast'
      BY <1>1 DEF vars, IInv, ReadsAreOfThePast
    <2> QED BY <2>2, <2>3, <2>4, <2>5, <2>6 DEF IInv, LocksProtect
  <1>2. ASSUME NEW t \in Threads, ThreadStep(t) PROVE IInv'
    <2>1. TypeOK'
      BY <1>2, StepTypes DEF IInv, LocksProtect
    <2>2. LocksAreExclusive'
      BY <1>2, StepExclusive DEF IInv, LocksProtect
    <2>3. Others'
      BY <1>2, <2>1, StepOthers
    <2> QED BY <2>1, <2>2, <2>3 DEF IInv, LocksProtect, Others
  <1> QED BY <1>1, <1>2 DEF Next

LEMMA Inductive == Spec => []IInv
PROOF
  <1> QED BY InitIInv, StepIInv, PTL DEF Spec

\* For all threads, databases and retries: the variables have their types, no lock is held
\* twice, and what a package or an optimization reads under its lock stays the head until
\* it sets it, so that the branch queue and the optimizer never lose their compare-and-set
\* to a thread of the server (validate.pl:287, api_optimize.pl:188).
THEOREM LockedReadsStay == Spec => []LocksProtect
PROOF
  <1>1. IInv => LocksProtect
    BY DEF IInv
  <1> QED BY Inductive, <1>1, PTL

\* For all threads, databases and retries: a change of a head keeps the updates that are
\* there, in order, and adds one or none, although what it is built on was read without a
\* lock (validate.pl:287): the version it compares tells the content.
THEOREM UpdatesAreKept == Spec => NoUpdateIsLost
PROOF
  <1>1. IInv /\ [Next]_vars =>
          [\A l \in Labels :
             \/ store'[l].log = store[l].log
             \/ \E t \in Threads : store'[l].log = Append(store[l].log, t)]_vars
    <2> SUFFICES ASSUME IInv, Next, NEW l \in Labels
                 PROVE  \/ store'[l].log = store[l].log
                        \/ \E t \in Threads : store'[l].log = Append(store[l].log, t)
      OBVIOUS
    <2> USE DEF IInv, LocksProtect, TypeOK
    <2> PICK t \in Threads : ThreadStep(t)
      BY DEF Next
    <2>1. CASE Publish(t)
      <3> PICK m \in Labels :
            /\ MayPublish(t, m) /\ IsCurrent(t, m)
            /\ SetHead(m, Append(seen[t][m].log, t))
        BY <2>1 DEF Publish
      <3>1. seen[t][m] \in Heads
        BY DEF MayPublish, IsFirst, WritesAreOwn, ReadBeforeUse
      <3>2. seen[t][m] = store[m]
        BY <3>1 DEF ReadsAreOfThePast, IsCurrent
      <3> QED BY <3>2 DEF SetHead
    <2>2. CASE Squash(t)
      <3> PICK m \in Touches(t) :
            IF IsCurrent(t, m) THEN SetHead(m, seen[t][m].log) /\ End(t, "done")
            ELSE End(t, "threw") /\ UNCHANGED store
        BY <2>2 DEF Squash
      <3>1. m \in Labels /\ seen[t][m] \in Heads
        BY <2>2, TouchesLabels DEF Squash, ReadBeforeUse
      <3>2. IsCurrent(t, m) => seen[t][m] = store[m]
        BY <3>1 DEF ReadsAreOfThePast, IsCurrent
      <3> QED BY <3>1, <3>2, SMTT(30) DEF SetHead
    <2>3. CASE ~Publish(t) /\ ~Squash(t)
      <3>1. UNCHANGED store
        BY <2>3 DEF ThreadStep, TakeOuter, ReadLabel, BodySucceeds, BodyFails,
           BodyFailsTransaction, Reelaborate, Throws, Validated, TakeLock, PublishLost,
           PublishThrows, Committed, RetryTransaction, NothingToSquash
      <3> QED BY <3>1
    <2> QED BY <2>1, <2>2, <2>3
  <1> QED BY Inductive, <1>1, PTL DEF Spec, NoUpdateIsLost

------------------------------------------------------------------------------
(* What the outcome of a transaction tells *)

\* How often a thread occurs in a log.
Occurs(t, log) == {i \in DOMAIN log : log[i] = t}

LEMMA OccursOnce ==
  ASSUME NEW log \in Seq(Threads), NEW t \in Threads, NEW u \in Threads
  PROVE  Cardinality(Occurs(u, Append(log, t)))
           = Cardinality(Occurs(u, log)) + (IF u = t THEN 1 ELSE 0)
PROOF
  <1> DEFINE n == Len(log) + 1
             longer == Append(log, t)
  <1>1. /\ Len(log) \in Nat /\ n \in Nat
        /\ DOMAIN log = 1 .. Len(log) /\ DOMAIN longer = 1 .. n
        /\ longer[n] = t /\ \A i \in 1 .. Len(log) : longer[i] = log[i]
    OBVIOUS
  <1>2. IsFiniteSet(Occurs(u, log)) /\ Cardinality(Occurs(u, log)) \in Nat
    <2>1. IsFiniteSet(1 .. Len(log)) /\ Occurs(u, log) \subseteq 1 .. Len(log)
      BY <1>1, FS_Interval DEF Occurs
    <2> QED BY <2>1, FS_Subset, FS_CardinalityType
  <1> HIDE DEF longer
  <1>3. CASE u = t
    <2>1. Occurs(u, longer) = Occurs(u, log) \cup {n} /\ n \notin Occurs(u, log)
      BY <1>1, <1>3 DEF Occurs
    <2> QED BY <1>2, <1>3, <2>1, FS_AddElement DEF longer
  <1>4. CASE u # t
    <2>1. Occurs(u, longer) = Occurs(u, log)
      BY <1>1, <1>4 DEF Occurs
    <2> QED BY <1>2, <1>4, <2>1 DEF longer
  <1> QED BY <1>3, <1>4

\* A graph that is published by an attempt has the update once, the others do not have it.
Counted ==
  \A t \in Threads : Separate(t) =>
    \A l \in Labels : Times(t, l) = (IF l \in published[t] THEN 1 ELSE 0)

\* What has been changed and published, by where the thread is.
Progress(t) ==
  /\ published[t] \subseteq writes[t]
  /\ pc[t] \in {"waiting", "reading", "running", "squashing"} => writes[t] = {}
  /\ pc[t] \in {"validating", "failed"} => published[t] = {}
  /\ pc[t] = "done" => writes[t] \subseteq published[t]

\* Nothing is published when it starts again, unless it is not to start again.
Restarts(t) ==
  /\ cause[t] = "lost" => Touches(t) # {}
  /\ pc[t] = "retrying" /\ ~(MultiTransaction(t) /\ PartialCommits(t)) => published[t] = {}
  /\ pc[t] \in {"threw", "exceeded"} /\ Cardinality(Touches(t)) = 1 => published[t] = {}
  /\ pc[t] = "multi" => Cardinality(Touches(t)) > 1

TellInv ==
  /\ Counted
  /\ \A t \in Threads : Progress(t) /\ (Separate(t) => Restarts(t))

LEMMA TellImplies == TypeOK /\ TellInv => OutcomesAreTold
PROOF
  <1> SUFFICES ASSUME TypeOK, TellInv, NEW t \in Threads, Separate(t)
               PROVE  /\ pc[t] = "done" =>
                           \A l \in Labels : Times(t, l) = (IF l \in writes[t] THEN 1 ELSE 0)
                      /\ pc[t] \in {"failed", "running"} => Nowhere(t)
                      /\ (pc[t] \in {"threw", "exceeded"} /\ Cardinality(Touches(t)) = 1)
                           => Nowhere(t)
                      /\ pc[t] = "multi" => Cardinality(Touches(t)) > 1
    BY DEF OutcomesAreTold
  <1>1. /\ \A l \in Labels : Times(t, l) = (IF l \in published[t] THEN 1 ELSE 0)
        /\ Progress(t) /\ Restarts(t)
    BY DEF TellInv, Counted
  <1>2. published[t] = {} => Nowhere(t)
    BY <1>1 DEF Nowhere
  <1>3. pc[t] = "done" => published[t] = writes[t]
    BY <1>1 DEF Progress
  <1>4. pc[t] \in {"failed", "running"} => published[t] = {}
    BY <1>1 DEF Progress
  <1> QED BY <1>1, <1>2, <1>3, <1>4 DEF Restarts

\* The graphs of a transaction are finitely many.
LEMMA TouchesFinite ==
  ASSUME TypeOK, NEW t \in Threads
  PROVE  /\ IsFiniteSet(Touches(t)) /\ Cardinality(Touches(t)) \in Nat
         /\ Cardinality(Touches(t)) = 0 <=> Touches(t) = {}
PROOF
  <1> DEFINE s == cast[t].labels
  <1>1. s \in Seq(Labels)
    BY TouchesLabels
  <1>2. IsFiniteSet(1 .. Len(s)) /\ DOMAIN s = 1 .. Len(s)
    BY <1>1, FS_Interval
  <1>3. s \in Surjection(1 .. Len(s), Touches(t))
    BY <1>1, <1>2 DEF Surjection, Touches
  <1> HIDE DEF s
  <1> QED BY <1>2, <1>3, FS_Surjection, FS_CardinalityType, FS_EmptySet

\* Steps that set no head: a thread neither publishes nor, but for the body, changes graphs.
LEMMA TimesSame ==
  ASSUME \A l \in Labels : store'[l].log = store[l].log
  PROVE  \A t \in Threads, l \in Labels : Times(t, l)' = Times(t, l)
PROOF BY DEF Times

\* The progress of a thread is its own affair.
LEMMA OthersProgress ==
  ASSUME TypeOK, NEW t \in Threads, NEW u \in Threads, u # t, ThreadStep(t)
  PROVE  /\ pc'[u] = pc[u] /\ writes'[u] = writes[u] /\ published'[u] = published[u]
         /\ cause'[u] = cause[u]
PROOF
  <1> USE DEF TypeOK, Goto, End, StartAgain, Forget
  <1>1. CASE \/ TakeOuter(t) \/ ReadLabel(t) \/ BodySucceeds(t) \/ BodyFails(t)
             \/ BodyFailsTransaction(t) \/ Reelaborate(t)
    BY <1>1 DEF TakeOuter, ReadLabel, BodySucceeds, BodyFails, BodyFailsTransaction, Reelaborate
  <1>2. CASE \/ Throws(t) \/ Validated(t) \/ TakeLock(t) \/ Publish(t) \/ PublishLost(t)
             \/ PublishThrows(t) \/ Committed(t) \/ NothingToSquash(t) \/ Squash(t)
    BY <1>2 DEF Throws, Validated, TakeLock, Publish, PublishLost, PublishThrows, Committed,
       NothingToSquash, Squash
  <1>3. CASE RetryTransaction(t)
    BY <1>3 DEF RetryTransaction
  <1> QED BY <1>1, <1>2, <1>3 DEF ThreadStep

LEMMA OthersTell ==
  ASSUME TypeOK, TellInv, NEW t \in Threads, NEW u \in Threads, u # t, ThreadStep(t),
         UNCHANGED cast
  PROVE  Progress(u)' /\ (Separate(u)' => Restarts(u)')
PROOF
  <1>1. /\ pc'[u] = pc[u] /\ writes'[u] = writes[u] /\ published'[u] = published[u]
        /\ cause'[u] = cause[u]
    BY OthersProgress
  <1>2. /\ Touches(u)' = Touches(u) /\ (Separate(u)' <=> Separate(u))
        /\ (MultiTransaction(u)' <=> MultiTransaction(u))
    BY DEF Touches, KeysOf, Separate, MultiTransaction
  <1> QED BY <1>1, <1>2 DEF TellInv, Progress, Restarts, PartialCommits

\* A thread that has a head to set, of one graph in all, has set none.
LEMMA FirstOfOne ==
  ASSUME TypeOK, WritesAreOwn, NEW t \in Threads, published[t] \subseteq writes[t],
         NEW l, l \in writes[t] \ published[t], Cardinality(Touches(t)) = 1
  PROVE  published[t] = {}
PROOF
  <1>1. PICK m : Touches(t) = {m}
    BY TouchesFinite, FS_Singleton
  <1> QED BY <1>1 DEF WritesAreOwn

\* The steps of a thread itself.
LEMMA OwnTell ==
  ASSUME TypeOK, IInv, TellInv, NEW t \in Threads, ThreadStep(t), UNCHANGED cast
  PROVE  Progress(t)' /\ (Separate(t)' => Restarts(t)')
PROOF
  <1> DEFINE S == Separate(t)
             M == MultiTransaction(t)
             C == Touches(t)
  <1>0. /\ Touches(t)' = C /\ (Separate(t)' <=> S) /\ (MultiTransaction(t)' <=> M)
    BY DEF Touches, KeysOf, Separate, MultiTransaction
  <1>1. Progress(t) /\ (S => Restarts(t))
    BY DEF TellInv
  <1>2. writes[t] \subseteq C
    BY DEF IInv, WritesAreOwn
  <1>3. S /\ ~M => Cardinality(C) = 1
    BY DEF Separate, MultiTransaction
  <1>15. Cardinality(C) \in Nat /\ (Cardinality(C) = 0 <=> C = {})
    BY TouchesFinite
  <1> HIDE DEF S, M, C
  <1> USE DEF TypeOK
  <1>4. ASSUME NEW location, pc' = [pc EXCEPT ![t] = location],
               UNCHANGED <<writes, published>>,
               published[t] = {}, location \notin {"multi", "done"},
               location \in {"waiting", "reading", "running", "squashing"} => writes[t] = {},
               S /\ cause'[t] = "lost" => C # {}
        PROVE  Progress(t)' /\ (Separate(t)' => Restarts(t)')
    BY <1>0, <1>4 DEF Progress, Restarts
  <1>5. CASE \/ TakeOuter(t) \/ ReadLabel(t) \/ BodyFails(t) \/ BodyFailsTransaction(t)
             \/ Throws(t) \/ Validated(t)
    <2>1. /\ UNCHANGED <<writes, published>>
          /\ pc[t] \in {"waiting", "reading", "running", "validating"}
          /\ cause'[t] = "lost" => cause[t] = "lost"
      BY <1>5 DEF TakeOuter, ReadLabel, BodyFails, BodyFailsTransaction, Throws, Validated,
         StartAgain
    <2>2. PICK location : /\ pc' = [pc EXCEPT ![t] = location]
                          /\ location \notin {"multi", "done", "waiting"}
                          /\ location \in {"reading", "running", "squashing"}
                               => pc[t] \in {"waiting", "reading"}
      BY <1>5 DEF TakeOuter, ReadLabel, BodyFails, BodyFailsTransaction, Throws, Validated,
         StartAgain, End, Goto
    <2>3. published[t] = {} /\ (pc[t] \in {"waiting", "reading"} => writes[t] = {})
      BY <1>1, <2>1 DEF Progress
    <2>4. S /\ cause'[t] = "lost" => C # {}
      BY <1>1, <2>1 DEF Restarts, C
    <2> QED BY <1>4, <2>1, <2>2, <2>3, <2>4
  <1>6. CASE BodySucceeds(t)
    <2>1. /\ pc[t] = "running" /\ pc'[t] \in {"retrying", "validating"}
          /\ published' = published /\ (cause'[t] = "lost" => cause[t] = "lost")
      BY <1>6 DEF BodySucceeds, StartAgain, Goto
    <2>2. published[t] = {}
      BY <1>1, <2>1 DEF Progress
    <2> QED BY <1>0, <1>1, <2>1, <2>2 DEF Progress, Restarts, C
  <1>7. ASSUME Forget(t), UNCHANGED cause
        PROVE  Progress(t)' /\ (Separate(t)' => Restarts(t)')
    <2>1. writes'[t] = {} /\ published'[t] = {} /\ pc'[t] = "reading"
      BY <1>7 DEF Forget, Goto
    <2> QED BY <1>0, <1>1, <1>7, <2>1 DEF Progress, Restarts, C
  <1>8. CASE TakeLock(t)
    BY <1>0, <1>1, <1>8 DEF TakeLock, Progress, Restarts, PartialCommits, C, S, M
  <1>9. CASE Publish(t)
    <2>1. PICK l \in Labels :
            /\ pc[t] = "committing" /\ l \in writes[t]
            /\ published' = [published EXCEPT ![t] = @ \cup {l}]
      BY <1>9 DEF Publish, MayPublish, IsFirst
    <2>2. UNCHANGED <<pc, writes, cause>>
      BY <1>9 DEF Publish
    <2> QED BY <1>0, <1>1, <2>1, <2>2 DEF Progress, Restarts, C
  <1>10. CASE PublishLost(t) \/ PublishThrows(t)
    <2>1. PICK l : l \in writes[t] \ published[t]
      BY <1>10 DEF PublishLost, PublishThrows, MayPublish, IsFirst
    <2>2. Cardinality(C) = 1 => published[t] = {}
      BY <1>1, <2>1, FirstOfOne DEF IInv, Progress, C
    <2>3. UNCHANGED <<writes, published>> /\ pc'[t] \in {"retrying", "threw"}
          /\ (pc'[t] = "retrying" => cause'[t] = "lost")
      BY <1>10 DEF PublishLost, PublishThrows, StartAgain, End, Goto
    <2>4. C # {}
      BY <1>2, <2>1
    <2> QED BY <1>0, <1>1, <1>3, <2>2, <2>3, <2>4 DEF Progress, Restarts, PartialCommits
  <1>11. CASE Committed(t)
    <2>1. /\ writes[t] \subseteq published[t] /\ pc'[t] = "done"
          /\ UNCHANGED <<writes, published, cause>>
      BY <1>11 DEF Committed, End, Goto
    <2> QED BY <1>0, <1>1, <2>1 DEF Progress, Restarts, C
  <1>12. CASE RetryTransaction(t)
    <2>1. pc[t] = "retrying" /\ UNCHANGED cause
      BY <1>12 DEF RetryTransaction
    <2>2. CASE attempt[t] = MaxRetries
      <3>1. pc'[t] = "exceeded" /\ UNCHANGED <<writes, published>>
        BY <1>12, <2>2 DEF RetryTransaction, Goto
      <3>2. Cardinality(C) = 1 /\ S => ~M
        BY DEF S, M, C, Separate, MultiTransaction
      <3> QED BY <1>0, <1>1, <2>1, <3>1, <3>2 DEF Progress, Restarts, C, M
    <2>3. CASE attempt[t] # MaxRetries /\ M /\ PartialCommits(t)
      <3>1. pc'[t] = "multi" /\ UNCHANGED <<writes, published>>
        BY <1>12, <2>3 DEF RetryTransaction, Goto, M
      <3>2. S => Cardinality(C) # 1
        BY <2>3 DEF S, M, C, Separate, MultiTransaction
      <3>3. S => C # {}
        BY <1>1, <2>3 DEF PartialCommits, Restarts, C
      <3>4. S => Cardinality(C) > 1
        <4>1. ASSUME NEW n \in Nat, n # 0, n # 1 PROVE n > 1
          BY <4>1
        <4> QED BY <3>2, <3>3, <1>15, <4>1
      <3> QED BY <1>0, <1>1, <2>1, <3>1, <3>3, <3>4 DEF Progress, Restarts
    <2>4. CASE attempt[t] # MaxRetries /\ ~(M /\ PartialCommits(t))
      <3>1. Forget(t)
        BY <1>12, <2>4 DEF RetryTransaction, M
      <3> QED BY <1>7, <2>1, <3>1
    <2> QED BY <2>2, <2>3, <2>4
  <1>13. CASE Squash(t) \/ NothingToSquash(t)
    <2>1. /\ pc[t] = "squashing" /\ pc'[t] \in {"done", "threw"}
          /\ UNCHANGED <<writes, published, cause>>
      BY <1>13 DEF Squash, NothingToSquash, End, Goto
    <2>2. writes[t] = {} /\ published[t] = {}
      BY <1>1, <2>1 DEF Progress
    <2> QED BY <1>0, <1>1, <2>1, <2>2 DEF Progress, Restarts, C
  <1>14. CASE Reelaborate(t)
    BY <1>7, <1>14 DEF Reelaborate
  <1> QED
    BY <1>5, <1>6, <1>8, <1>9, <1>10, <1>11, <1>12, <1>13, <1>14 DEF ThreadStep

\* The count of what is published follows the heads.
LEMMA CountStep ==
  ASSUME IInv, TellInv, NEW t \in Threads, ThreadStep(t), UNCHANGED cast
  PROVE  Counted'
PROOF
  <1> USE DEF IInv, LocksProtect, TypeOK
  <1>1. \A u \in Threads : Separate(u)' <=> Separate(u)
    BY DEF Touches, KeysOf, Separate
  <1>2. ASSUME \A l \in Labels : store'[l].log = store[l].log,
               \/ UNCHANGED published
               \/ Separate(t) => published[t] = {} /\ published' = [published EXCEPT ![t] = {}]
        PROVE  Counted'
    <2>1. \A u \in Threads, l \in Labels : Times(u, l)' = Times(u, l)
      BY <1>2, TimesSame
    <2>2. \A u \in Threads : Separate(u) => published'[u] = published[u]
      BY <1>2, OthersProgress
    <2> QED BY <1>1, <2>1, <2>2 DEF TellInv, Counted
  <1>3. CASE Publish(t)
    <2>1. PICK m \in Labels :
            /\ m \in writes[t] \ published[t] /\ pc[t] = "committing"
            /\ seen[t][m].version = store[m].version
            /\ SetHead(m, Append(seen[t][m].log, t))
            /\ published' = [published EXCEPT ![t] = @ \cup {m}]
      BY <1>3 DEF Publish, MayPublish, IsFirst, IsCurrent
    <2>2. seen[t][m] = store[m] /\ store[m].log \in Seq(Threads)
      BY <2>1 DEF WritesAreOwn, ReadBeforeUse, ReadsAreOfThePast, Heads
    <2>3. /\ store'[m].log = Append(store[m].log, t)
          /\ \A l \in Labels : l # m => store'[l] = store[l]
      BY <2>1, <2>2 DEF SetHead
    <2>4. \A u \in Threads : Times(u, m)' = Times(u, m) + (IF u = t THEN 1 ELSE 0)
      <3>1. \A u \in Threads : /\ Times(u, m) = Cardinality(Occurs(u, store[m].log))
                               /\ Times(u, m)' = Cardinality(Occurs(u, store'[m].log))
        BY DEF Times, Occurs
      <3> QED BY <2>2, <2>3, <3>1, OccursOnce
    <2>5. \A u \in Threads, l \in Labels : l # m => Times(u, l)' = Times(u, l)
      BY <2>3 DEF Times
    <2>6. ASSUME NEW u \in Threads, Separate(u), NEW l \in Labels
          PROVE  Times(u, l)' = IF l \in published'[u] THEN 1 ELSE 0
      <3>1. Times(u, l) = IF l \in published[u] THEN 1 ELSE 0
        BY <2>6 DEF TellInv, Counted
      <3>2. CASE l # m
        BY <2>1, <2>5, <3>1, <3>2
      <3>3. CASE l = m /\ u = t
        BY <2>1, <2>4, <3>1, <3>3
      <3>4. CASE l = m /\ u # t
        BY <2>1, <2>4, <3>1, <3>4
      <3> QED BY <3>2, <3>3, <3>4
    <2> QED BY <1>1, <2>6 DEF Counted
  <1>4. CASE Squash(t)
    <2>1. PICK m \in Touches(t) :
            \/ IsCurrent(t, m) /\ SetHead(m, seen[t][m].log)
            \/ UNCHANGED store
      BY <1>4 DEF Squash
    <2>2. m \in Labels /\ seen[t][m] \in Heads
      BY <1>4, TouchesLabels DEF Squash, ReadBeforeUse
    <2>3. IsCurrent(t, m) => seen[t][m] = store[m]
      BY <2>2 DEF ReadsAreOfThePast, IsCurrent
    <2>4. \A l \in Labels : store'[l].log = store[l].log
      BY <2>1, <2>2, <2>3, SMTT(30) DEF SetHead
    <2> QED BY <1>2, <1>4, <2>4 DEF Squash
  <1>5. CASE Reelaborate(t)
    <2>1. published[t] = {}
      BY <1>5 DEF Reelaborate, TellInv, Progress
    <2> QED BY <1>2, <1>5, <2>1 DEF Reelaborate, Forget
  <1>6. CASE RetryTransaction(t)
    <2>1. CASE Forget(t)
      <3>1. Separate(t) => published[t] = {}
        <4>1. pc[t] = "retrying" /\ ~(MultiTransaction(t) /\ PartialCommits(t))
          BY <1>6, <2>1 DEF RetryTransaction, Forget, Goto
        <4> QED BY <4>1 DEF TellInv, Restarts
      <3> QED BY <1>2, <1>6, <2>1, <3>1 DEF RetryTransaction, Forget
    <2>2. CASE ~Forget(t)
      BY <1>2, <1>6, <2>2 DEF RetryTransaction
    <2> QED BY <2>1, <2>2
  <1>7. CASE ~(Publish(t) \/ Squash(t) \/ Reelaborate(t) \/ RetryTransaction(t))
    <2>1. UNCHANGED <<store, published>>
      BY <1>7 DEF ThreadStep, TakeOuter, ReadLabel, BodySucceeds, BodyFails,
         BodyFailsTransaction, Throws, Validated, TakeLock, PublishLost,
         PublishThrows, Committed, NothingToSquash
    <2> QED BY <1>2, <2>1
  <1> QED BY <1>3, <1>4, <1>5, <1>6, <1>7

LEMMA TellInit == Init => TellInv
PROOF
  <1> SUFFICES ASSUME Init PROVE TellInv
    OBVIOUS
  <1>1. \A t \in Threads, l \in Labels : Times(t, l) = 0
    <2> SUFFICES ASSUME NEW t \in Threads, NEW l \in Labels PROVE Times(t, l) = 0
      OBVIOUS
    <2>1. {i \in DOMAIN store[l].log : store[l].log[i] = t} = {}
      BY DEF Init
    <2> QED BY <2>1, FS_EmptySet DEF Times
  <1>2. \A t \in Threads : pc[t] \in {"reading", "done", "waiting"}
    BY CastAssumption DEF Init, EntryOf, Kinds
  <1>3. Counted
    BY <1>1 DEF Init, Counted
  <1>4. \A t \in Threads : Progress(t) /\ Restarts(t)
    BY <1>2 DEF Init, Progress, Restarts
  <1> QED BY <1>3, <1>4 DEF TellInv

LEMMA TellStep == IInv /\ TellInv /\ [Next]_vars => TellInv'
PROOF
  <1> SUFFICES ASSUME IInv, TellInv, [Next]_vars PROVE TellInv'
    OBVIOUS
  <1>1. CASE UNCHANGED vars
    <2>1. UNCHANGED <<store, pc, cause, published, writes, cast>>
      BY <1>1 DEF vars
    <2>2. /\ \A t \in Threads, l \in Labels : Times(t, l)' = Times(t, l)
          /\ \A t \in Threads : Touches(t)' = Touches(t) /\ KeysOf(t)' = KeysOf(t)
      BY <2>1 DEF Times, Touches, KeysOf
    <2>3. \A t \in Threads : /\ (Separate(t)' <=> Separate(t))
                             /\ (MultiTransaction(t)' <=> MultiTransaction(t))
                             /\ (PartialCommits(t)' <=> PartialCommits(t))
      BY <2>1, <2>2 DEF Separate, MultiTransaction, PartialCommits
    <2>4. Counted'
      <3> SUFFICES ASSUME NEW t \in Threads, Separate(t)', NEW l \in Labels
                   PROVE  Times(t, l)' = IF l \in published'[t] THEN 1 ELSE 0
        BY DEF Counted
      <3>1. Times(t, l) = IF l \in published[t] THEN 1 ELSE 0
        BY <2>3 DEF TellInv, Counted
      <3> QED BY <2>1, <2>2, <3>1
    <2>5. ASSUME NEW t \in Threads
          PROVE  Progress(t)' /\ (Separate(t)' => Restarts(t)')
      <3>1. Progress(t)'
        BY <2>1, <2>5 DEF TellInv, Progress
      <3>2. Separate(t)' => Restarts(t)'
        <4>1. Separate(t) => Restarts(t)
          BY <2>5 DEF TellInv
        <4>2. /\ Touches(t)' = Touches(t) /\ (Separate(t)' <=> Separate(t))
              /\ (MultiTransaction(t)' <=> MultiTransaction(t))
              /\ (PartialCommits(t)' <=> PartialCommits(t))
          BY <2>2, <2>3, <2>5
        <4>3. pc' = pc /\ cause' = cause /\ published' = published
          BY <2>1
        <4> QED BY <4>1, <4>2, <4>3 DEF Restarts
      <3> QED BY <3>1, <3>2
    <2> QED BY <2>4, <2>5 DEF TellInv
  <1>2. ASSUME NEW t \in Threads, ThreadStep(t) PROVE TellInv'
    <2>1. UNCHANGED cast
      BY <1>2 DEF ThreadStep, TakeOuter, ReadLabel, BodySucceeds, BodyFails,
         BodyFailsTransaction, Reelaborate, Throws, Validated, TakeLock, Publish, PublishLost,
         PublishThrows, Committed, RetryTransaction, Squash, NothingToSquash
    <2>2. Counted'
      BY <1>2, <2>1, CountStep
    <2>3. \A u \in Threads : Progress(u)' /\ (Separate(u)' => Restarts(u)')
      BY <1>2, <2>1, OwnTell, OthersTell DEF IInv, LocksProtect
    <2> QED BY <2>2, <2>3 DEF TellInv
  <1> QED BY <1>1, <1>2 DEF Next

\* The outcome of a transaction tells what it left in the store, for all threads, graphs
\* and retries, among packages and optimizations: once each of its updates when it is
\* done, none when its body failed, none when it was on one graph and ended with an error;
\* and one that has published on several graphs and lost is not run again.
THEOREM OutcomesTold == Spec => []OutcomesAreTold
PROOF
  <1>1. Spec => []TellInv
    BY TellInit, TellStep, Inductive, PTL DEF Spec
  <1>2. IInv /\ TellInv => OutcomesAreTold
    BY TellImplies DEF IInv, LocksProtect
  <1> QED BY <1>1, <1>2, Inductive, PTL
==============================================================================
