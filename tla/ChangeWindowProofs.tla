-------------------------- MODULE ChangeWindowProofs --------------------------
(***************************************************************************)
(* Proofs about the change window: first what the operations of the window   *)
(* do to a window that is in order, then the invariant of the window with    *)
(* its users, and the properties that follow.                                *)
(***************************************************************************)
EXTENDS ChangeWindow, FiniteSetTheorems, WellFoundedInduction, TLAPS

LEMMA Smallest ==
  ASSUME NEW S, S \subseteq Nat, S # {}
  PROVE  \E m \in S : \A i \in S : m <= i
PROOF
  <1>1. PICK m \in S : \A i \in S : ~(<<i, m>> \in OpToRel(<, Nat))
    BY NatLessThanWellFounded, WFMin
  <1>2. \A i \in S : ~(i < m)
    BY <1>1 DEF OpToRel
  <1> QED BY <1>2

------------------------------------------------------------------------------
(* Windows that are in order *)

Entries == [id : Commits, parent : Commits \cup {NoCommit},
            added : SUBSET DocIds, removed : SUBSET DocIds, active : Nat]

\* The entries are numbered on from start, and the index names an entry of its id.
WellFormed(w) ==
  /\ w \in [commits : Seq(Entries), index : UNION {[S -> Nat] : S \in SUBSET Commits}, start : Nat]
  /\ \A id \in DOMAIN w.index :
       /\ w.index[id] - w.start + 1 \in 1 .. Len(w.commits)
       /\ w.commits[w.index[id] - w.start + 1].id = id

\* The entry of a commit that the window knows.
Entry(w, id) == w.commits[Position(w, id)]

LEMMA Known ==
  ASSUME NEW w, WellFormed(w), NEW id
  PROVE  /\ Knows(w, id) <=> id \in DOMAIN w.index
         /\ Knows(w, id) => /\ Position(w, id) = w.index[id] - w.start + 1
                            /\ Position(w, id) \in 1 .. Len(w.commits)
                            /\ Entry(w, id).id = id /\ Entry(w, id) \in Entries
                            /\ id \in Commits
PROOF
  <1>1. /\ w.commits \in Seq(Entries) /\ DOMAIN w.commits = 1 .. Len(w.commits)
        /\ Len(w.commits) \in Nat /\ w.start \in Nat
        /\ \A i \in 1 .. Len(w.commits) : w.commits[i] \in Entries
    BY DEF WellFormed
  <1>2. DOMAIN w.index \subseteq Commits
    BY DEF WellFormed
  <1>3. \A c \in DOMAIN w.index : w.index[c] \in Nat
    BY DEF WellFormed
  <1>4. \A c \in DOMAIN w.index : /\ w.index[c] - w.start + 1 \in 1 .. Len(w.commits)
                                  /\ w.commits[w.index[c] - w.start + 1].id = c
    BY DEF WellFormed
  <1> QED BY <1>1, <1>2, <1>3, <1>4 DEF Knows, Position, Entry

\* w with one more entry at its back.
Extended(w, v, entry) ==
  /\ WellFormed(v)
  /\ Len(v.commits) = Len(w.commits) + 1
  /\ v.commits[Len(v.commits)] = entry
  /\ \A i \in 1 .. Len(w.commits) : v.commits[i] = w.commits[i]
  /\ Knows(v, entry.id) /\ Position(v, entry.id) = Len(v.commits)
  /\ \A id : id # entry.id => Position(v, id) = Position(w, id)

LEMMA PushBackExtends ==
  ASSUME NEW w, WellFormed(w), NEW entry \in Entries
  PROVE  Extended(w, PushBack(w, entry), entry)
PROOF
  <1> DEFINE v == PushBack(w, entry)
             n == Len(w.commits)
             longer == Append(w.commits, entry)
             index == Index(w, entry.id, NextIndex(w))
  <1>1. /\ w.commits \in Seq(Entries) /\ n \in Nat /\ w.start \in Nat
        /\ \A i \in 1 .. n : w.commits[i] \in Entries
    BY DEF WellFormed
  <1>2. /\ longer \in Seq(Entries) /\ Len(longer) = n + 1 /\ longer[n + 1] = entry
        /\ \A i \in 1 .. n : longer[i] = w.commits[i]
    BY <1>1
  <1>3. v.commits = longer /\ v.index = index /\ v.start = w.start
        /\ v = [commits |-> longer, index |-> index, start |-> w.start]
    <2>1. w = [commits |-> w.commits, index |-> w.index, start |-> w.start]
      BY DEF WellFormed
    <2>2. v = [w EXCEPT !.commits = longer, !.index = index]
      BY DEF PushBack
    <2> HIDE DEF v, longer, index
    <2> QED BY <2>1, <2>2
  <1>4. /\ DOMAIN index = DOMAIN w.index \cup {entry.id}
        /\ index[entry.id] = w.start + n
        /\ \A c \in DOMAIN w.index : c # entry.id => index[c] = w.index[c]
    BY DEF Index, NextIndex
  <1>5. DOMAIN w.index \subseteq Commits /\ entry.id \in Commits
    BY DEF WellFormed, Entries
  <1>6. \A c \in DOMAIN w.index : /\ w.index[c] \in Nat
                                  /\ w.index[c] - w.start + 1 \in 1 .. n
                                  /\ w.commits[w.index[c] - w.start + 1].id = c
    BY DEF WellFormed
  <1> HIDE DEF v, n, longer, index
  <1>7. index \in UNION {[S -> Nat] : S \in SUBSET Commits}
    <2>1. index \in [DOMAIN index -> Nat]
      <3>1. index = [c \in DOMAIN index |-> index[c]]
        BY DEF index, Index
      <3> QED BY <1>1, <1>4, <1>6, <3>1
    <2> QED BY <1>4, <1>5, <2>1
  <1>8. \A c \in DOMAIN index : /\ index[c] - w.start + 1 \in 1 .. (n + 1)
                                /\ longer[index[c] - w.start + 1].id = c
    <2> SUFFICES ASSUME NEW c \in DOMAIN index
                 PROVE  /\ index[c] - w.start + 1 \in 1 .. (n + 1)
                        /\ longer[index[c] - w.start + 1].id = c
      OBVIOUS
    <2>1. CASE c = entry.id
      BY <1>1, <1>2, <1>4, <2>1
    <2>2. CASE c # entry.id
      <3> DEFINE p == index[c] - w.start + 1
      <3>1. p \in 1 .. n /\ w.commits[p].id = c
        BY <1>4, <1>6, <2>2
      <3>2. longer[p] = w.commits[p]
        BY <1>2, <3>1
      <3> HIDE DEF p
      <3>3. p \in 1 .. (n + 1) /\ longer[p].id = c
        BY <1>1, <3>1, <3>2
      <3> QED BY <3>3 DEF p
    <2> QED BY <2>1, <2>2
  <1>9. WellFormed(v)
    BY <1>1, <1>2, <1>3, <1>7, <1>8 DEF WellFormed
  <1>10. Knows(v, entry.id) /\ Position(v, entry.id) = n + 1
    BY <1>1, <1>3, <1>4, <1>9, Known
  <1>11. ASSUME NEW id, id # entry.id PROVE Position(v, id) = Position(w, id)
    <2>1. CASE id \in DOMAIN w.index
      BY <1>1, <1>3, <1>4, <1>9, <1>11, <2>1, Known
    <2>2. CASE id \notin DOMAIN w.index
      BY <1>3, <1>4, <1>11, <2>2 DEF Position
    <2> QED BY <2>1, <2>2
  <1> QED BY <1>2, <1>3, <1>9, <1>10, <1>11 DEF Extended, v, n

\* v is w without its first n entries, and without the index of their ids.
Shortened(w, v, n) ==
  /\ WellFormed(v)
  /\ Len(v.commits) = Len(w.commits) - n
  /\ \A i \in 1 .. Len(v.commits) : v.commits[i] = w.commits[i + n]
  /\ \A id : Knows(v, id) <=> Knows(w, id) /\ \A i \in 1 .. n : w.commits[i].id # id
  /\ \A id : Knows(v, id) => Position(v, id) = Position(w, id) - n

LEMMA DropFrontShortens ==
  ASSUME NEW w, WellFormed(w), NEW n \in 0 .. Len(w.commits)
  PROVE  Shortened(w, DropFront(w, n), n)
PROOF
  <1> DEFINE v == DropFront(w, n)
             rest == SubSeq(w.commits, n + 1, Len(w.commits))
             gone == {w.commits[i].id : i \in 1 .. n}
             index == Restrict(w.index, DOMAIN w.index \ gone)
  <1>1. /\ w.commits \in Seq(Entries) /\ Len(w.commits) \in Nat /\ w.start \in Nat
        /\ n \in Nat /\ n <= Len(w.commits) /\ w.start + n \in Nat
    BY DEF WellFormed
  <1>2. /\ rest \in Seq(Entries) /\ Len(rest) = Len(w.commits) - n
        /\ \A i \in 1 .. Len(rest) : rest[i] = w.commits[i + n]
    BY <1>1
  <1>3. /\ DOMAIN index = DOMAIN w.index \ gone
        /\ \A c \in DOMAIN index : index[c] = w.index[c]
        /\ index = [c \in DOMAIN index |-> index[c]]
    BY DEF Restrict
  <1>4. v.commits = rest /\ v.index = index /\ v.start = w.start + n
        /\ v = [commits |-> rest, index |-> index, start |-> w.start + n]
    BY DEF DropFront
  <1>5. /\ DOMAIN w.index \subseteq Commits
        /\ \A c \in DOMAIN w.index : /\ w.index[c] \in Nat
                                     /\ w.index[c] - w.start + 1 \in 1 .. Len(w.commits)
                                     /\ w.commits[w.index[c] - w.start + 1].id = c
    BY DEF WellFormed
  <1>6. \A id : id \in gone <=> \E i \in 1 .. n : w.commits[i].id = id
    OBVIOUS
  <1> HIDE DEF v, rest, gone, index
  <1>7. index \in UNION {[S -> Nat] : S \in SUBSET Commits}
    <2>1. index \in [DOMAIN index -> Nat]
      BY <1>3, <1>5
    <2> QED BY <1>3, <1>5, <2>1
  <1>8. \A c \in DOMAIN index : /\ index[c] - (w.start + n) + 1 \in 1 .. Len(rest)
                                /\ rest[index[c] - (w.start + n) + 1].id = c
    <2> SUFFICES ASSUME NEW c \in DOMAIN index
                 PROVE  /\ index[c] - (w.start + n) + 1 \in 1 .. Len(rest)
                        /\ rest[index[c] - (w.start + n) + 1].id = c
      OBVIOUS
    <2> DEFINE p == index[c] - w.start + 1
               q == index[c] - (w.start + n) + 1
    <2>1. p \in 1 .. Len(w.commits) /\ w.commits[p].id = c /\ c \notin gone
      BY <1>3, <1>5
    <2>2. p \notin 1 .. n
      BY <1>6, <2>1
    <2>3. q = p - n
      BY <1>1, <1>3, <1>5
    <2> HIDE DEF p, q
    <2>4. q \in 1 .. Len(rest) /\ q + n = p
      BY <1>1, <1>2, <2>1, <2>2, <2>3
    <2>5. q \in 1 .. Len(rest) /\ rest[q].id = c
      BY <1>2, <2>1, <2>4
    <2> QED BY <2>5 DEF q
  <1>9. WellFormed(v)
    BY <1>1, <1>2, <1>4, <1>7, <1>8 DEF WellFormed
  <1>10. \A id : Knows(v, id) <=> Knows(w, id) /\ \A i \in 1 .. n : w.commits[i].id # id
    BY <1>3, <1>4, <1>6, <1>9, Known
  <1>11. ASSUME NEW id, Knows(v, id) PROVE Position(v, id) = Position(w, id) - n
    <2>1. Position(v, id) = index[id] - (w.start + n) + 1
      BY <1>4, <1>9, <1>11, Known
    <2>2. id \in DOMAIN w.index /\ index[id] = w.index[id] /\ w.index[id] \in Nat
      BY <1>3, <1>4, <1>5, <1>9, <1>11, Known
    <2>3. Position(w, id) = w.index[id] - w.start + 1
      BY <2>2, Known
    <2> QED BY <1>1, <2>1, <2>2, <2>3
  <1> QED BY <1>2, <1>4, <1>9, <1>10, <1>11 DEF Shortened, v

\* v is w with n more guards on the entry of a commit.
Counted(w, v, id, n) ==
  /\ WellFormed(v)
  /\ Len(v.commits) = Len(w.commits)
  /\ \A i \in 1 .. Len(w.commits) :
       /\ v.commits[i].id = w.commits[i].id /\ v.commits[i].parent = w.commits[i].parent
       /\ v.commits[i].added = w.commits[i].added /\ v.commits[i].removed = w.commits[i].removed
       /\ v.commits[i].active = w.commits[i].active + (IF i = Position(w, id) THEN n ELSE 0)
  /\ \A c : Position(v, c) = Position(w, c)

LEMMA RetainCounts ==
  ASSUME NEW w, WellFormed(w), NEW id, Knows(w, id), NEW n \in Int,
         Entry(w, id).active + n \in Nat
  PROVE  Counted(w, Retain(w, id, n), id, n)
PROOF
  <1> DEFINE v == Retain(w, id, n)
             p == Position(w, id)
             old == w.commits[p]
             new == [old EXCEPT !.active = @ + n]
             s == [w.commits EXCEPT ![p] = new]
  <1>1. p \in 1 .. Len(w.commits) /\ old.id = id /\ old \in Entries /\ old.active + n \in Nat
    BY Known DEF Entry
  <1>2. /\ w.commits \in Seq(Entries) /\ Len(w.commits) \in Nat
        /\ DOMAIN w.commits = 1 .. Len(w.commits) /\ w.start \in Nat
        /\ \A i \in 1 .. Len(w.commits) : w.commits[i] \in Entries
    BY DEF WellFormed
  <1>3. v.commits = s /\ v.index = w.index /\ v.start = w.start
        /\ v = [commits |-> s, index |-> w.index, start |-> w.start]
    <2>1. w = [commits |-> w.commits, index |-> w.index, start |-> w.start]
      BY DEF WellFormed
    <2>2. v = [w EXCEPT !.commits = s]
      BY DEF Retain
    <2> HIDE DEF v, s
    <2> QED BY <2>1, <2>2
  <1>4. /\ new \in Entries /\ new.id = old.id /\ new.parent = old.parent
        /\ new.added = old.added /\ new.removed = old.removed /\ new.active = old.active + n
    BY <1>1 DEF Entries
  <1> HIDE DEF v, p, old, new
  <1>5. s \in Seq(Entries) /\ Len(s) = Len(w.commits) /\ s[p] = new
        /\ \A i \in 1 .. Len(w.commits) : i # p => s[i] = w.commits[i]
    BY <1>1, <1>2, <1>4
  <1> HIDE DEF s
  <1>6. \A i \in 1 .. Len(w.commits) :
          /\ s[i].id = w.commits[i].id /\ s[i].parent = w.commits[i].parent
          /\ s[i].added = w.commits[i].added /\ s[i].removed = w.commits[i].removed
          /\ s[i].active = w.commits[i].active + (IF i = p THEN n ELSE 0)
    <2> SUFFICES ASSUME NEW i \in 1 .. Len(w.commits)
                 PROVE  /\ s[i].id = w.commits[i].id /\ s[i].parent = w.commits[i].parent
                        /\ s[i].added = w.commits[i].added
                        /\ s[i].removed = w.commits[i].removed
                        /\ s[i].active = w.commits[i].active + (IF i = p THEN n ELSE 0)
      OBVIOUS
    <2>1. CASE i = p
      BY <1>4, <1>5, <2>1 DEF old
    <2>2. CASE i # p
      <3>1. w.commits[i].active \in Nat
        BY <1>2 DEF Entries
      <3> QED BY <1>5, <2>2, <3>1
    <2> QED BY <2>1, <2>2
  <1>7. WellFormed(v)
    <2>1. \A c \in DOMAIN w.index :
            /\ w.index[c] - w.start + 1 \in 1 .. Len(w.commits)
            /\ w.commits[w.index[c] - w.start + 1].id = c
      BY DEF WellFormed
    <2>2. v \in [commits : Seq(Entries), index : UNION {[S -> Nat] : S \in SUBSET Commits},
                 start : Nat]
      BY <1>3, <1>5 DEF WellFormed
    <2>3. \A c \in DOMAIN w.index : s[w.index[c] - w.start + 1].id = c
      BY <1>6, <2>1
    <2> QED BY <1>3, <1>5, <2>1, <2>2, <2>3 DEF WellFormed
  <1>8. \A c : Position(v, c) = Position(w, c)
    BY <1>2, <1>3, <1>5 DEF Position
  <1> QED BY <1>3, <1>5, <1>6, <1>7, <1>8 DEF Counted, v, p

\* What is in use and what it descends from is kept.
LEMMA KeepKeeps ==
  ASSUME NEW w, WellFormed(w)
  PROVE  /\ Active(w) \subseteq Keep(w) /\ Newest(w) \subseteq Keep(w)
         /\ \A id \in Keep(w) : Knows(w, id) /\ Entry(w, id).parent # NoCommit
              => Entry(w, id).parent \in Keep(w)
PROOF
  <1> DEFINE ids == Active(w) \cup Newest(w)
             all == ids \cup Parents(w, Ids(w))
             closed == {kept \in SUBSET all : ids \subseteq kept /\ Parents(w, kept) \subseteq kept}
  <1>1. Keep(w) = {id \in all : \A kept \in closed : id \in kept}
    BY DEF Keep, WithAncestors
  <1> HIDE DEF ids
  <1>2. ids \subseteq Keep(w)
    BY <1>1
  <1>3. ASSUME NEW id \in Keep(w), Knows(w, id), Entry(w, id).parent # NoCommit
        PROVE  Entry(w, id).parent \in Keep(w)
    <2>1. \A kept : id \in kept => Entry(w, id).parent \in Parents(w, kept)
      BY <1>3 DEF Parents, Entry
    <2>2. id \in Ids(w)
      <3>1. Position(w, id) \in DOMAIN w.commits /\ Entry(w, id).id = id
        BY <1>3, Known DEF WellFormed
      <3> QED BY <3>1 DEF Ids, Entry
    <2>3. Entry(w, id).parent \in all
      BY <2>1, <2>2
    <2>4. \A kept \in closed : Entry(w, id).parent \in kept
      BY <1>1, <1>3, <2>1
    <2> QED BY <1>1, <2>3, <2>4
  <1> QED BY <1>2, <1>3 DEF ids

\* Pruning drops entries at the front, none of which is kept.
Pruned(w, v, n) ==
  /\ n \in 0 .. Len(w.commits) /\ Shortened(w, v, n)
  /\ \A i \in 1 .. n : w.commits[i].id \notin Keep(w)

LEMMA PrunePrunes ==
  ASSUME NEW w, WellFormed(w)
  PROVE  \E n : Pruned(w, Prune(w), n)
PROOF
  <1> DEFINE len == Len(w.commits)
             kept == {i \in DOMAIN w.commits : w.commits[i].id \in Keep(w)}
             Fits(k) == /\ kept \cap (1 .. k) = {}
                        /\ k = len \/ k + 1 \in kept
             n == CHOOSE k \in 0 .. len : Fits(k)
  <1>1. len \in Nat /\ DOMAIN w.commits = 1 .. len
    BY DEF WellFormed
  <1>2. Prune(w) = DropFront(w, n)
    BY DEF Prune
  <1>3. \E k \in 0 .. len : Fits(k)
    <2>1. CASE kept = {}
      BY <1>1, <2>1
    <2>2. CASE kept # {}
      <3>1. kept \subseteq 1 .. len
        BY <1>1
      <3> HIDE DEF kept, len
      <3>5. kept \subseteq Nat
        BY <1>1, <3>1
      <3>2. PICK m \in kept : \A i \in kept : m <= i
        BY <2>2, <3>5, Smallest
      <3>3. m - 1 \in 0 .. len /\ (m - 1) + 1 = m
        BY <1>1, <3>1
      <3>4. kept \cap (1 .. (m - 1)) = {}
        BY <1>1, <3>1, <3>2
      <3> QED BY <3>2, <3>3, <3>4
    <2> QED BY <2>1, <2>2
  <1> HIDE DEF Fits
  <1>4. n \in 0 .. len /\ Fits(n)
    BY <1>3
  <1> HIDE DEF n
  <1>5. \A i \in 1 .. n : w.commits[i].id \notin Keep(w)
    BY <1>1, <1>4 DEF Fits
  <1> QED BY <1>2, <1>4, <1>5, DropFrontShortens DEF Pruned

\* A kept entry that the window knew it still knows, with all that is in it.
LEMMA PrunedKeeps ==
  ASSUME NEW w, WellFormed(w), NEW v, NEW n, Pruned(w, v, n), NEW id
  PROVE  /\ Knows(v, id) => /\ Knows(w, id) /\ Position(v, id) = Position(w, id) - n
                            /\ Entry(v, id) = Entry(w, id)
         /\ Knows(w, id) /\ id \in Keep(w) => Knows(v, id)
PROOF
  <1>1. /\ n \in 0 .. Len(w.commits) /\ Shortened(w, v, n) /\ WellFormed(v)
        /\ \A i \in 1 .. n : w.commits[i].id \notin Keep(w)
    BY DEF Pruned, Shortened
  <1>2. Len(w.commits) \in Nat
    BY DEF WellFormed
  <1>3. ASSUME Knows(v, id)
        PROVE  /\ Knows(w, id) /\ Position(v, id) = Position(w, id) - n
               /\ Entry(v, id) = Entry(w, id)
    <2>1. Knows(w, id) /\ Position(v, id) = Position(w, id) - n
      BY <1>1, <1>3 DEF Shortened
    <2>2. Position(v, id) \in 1 .. Len(v.commits) /\ Position(w, id) \in 1 .. Len(w.commits)
      BY <1>1, <1>3, <2>1, Known
    <2>3. v.commits[Position(v, id)] = w.commits[Position(v, id) + n]
      BY <1>1, <2>2 DEF Shortened
    <2>4. Position(v, id) + n = Position(w, id)
      BY <1>1, <1>2, <2>1, <2>2
    <2> QED BY <2>1, <2>3, <2>4 DEF Entry
  <1>4. Knows(w, id) /\ id \in Keep(w) => Knows(v, id)
    BY <1>1 DEF Shortened
  <1> QED BY <1>3, <1>4

LEMMA RegisterEffect ==
  ASSUME NEW w, WellFormed(w), NEW id, NEW parent, NEW added, NEW removed,
         CommitChanges(id, parent, added, removed) \in Entries
  PROVE  \E u, n : /\ Extended(w, u, CommitChanges(id, parent, added, removed))
                   /\ Pruned(u, Register(w, id, parent, added, removed), n)
PROOF
  <1> DEFINE entry == CommitChanges(id, parent, added, removed)
             u == PushBack(w, entry)
  <1>1. Extended(w, u, entry)
    BY PushBackExtends
  <1>2. \E n : Pruned(u, Prune(u), n)
    BY <1>1, PrunePrunes DEF Extended
  <1> QED BY <1>1, <1>2 DEF Register

\* The entry that is registered is the last one, and entries in use stay.
LEMMA RegisterKeeps ==
  ASSUME NEW w, WellFormed(w), NEW id, NEW parent, NEW added, NEW removed,
         CommitChanges(id, parent, added, removed) \in Entries,
         NEW v, v = Register(w, id, parent, added, removed)
  PROVE  /\ WellFormed(v)
         /\ Knows(v, id) /\ Position(v, id) = Len(v.commits)
         /\ Entry(v, id) = CommitChanges(id, parent, added, removed)
         /\ \A g : g # id /\ MayClose(w, g) => MayClose(v, g)
PROOF
  <1> DEFINE entry == CommitChanges(id, parent, added, removed)
  <1>1. PICK u, n : Extended(w, u, entry) /\ Pruned(u, v, n)
    BY RegisterEffect
  <1>2. entry.id = id
    BY DEF CommitChanges
  <1> HIDE DEF entry
  <1>3. /\ WellFormed(u) /\ WellFormed(v) /\ Len(v.commits) = Len(u.commits) - n
        /\ Len(u.commits) = Len(w.commits) + 1 /\ Len(w.commits) \in Nat
        /\ u.commits[Len(u.commits)] = entry
        /\ Knows(u, id) /\ Position(u, id) = Len(u.commits)
        /\ \A i \in 1 .. Len(w.commits) : u.commits[i] = w.commits[i]
        /\ \A c : c # id => Position(u, c) = Position(w, c)
    BY <1>1, <1>2 DEF Extended, Pruned, Shortened, WellFormed
  <1>4. id \in Newest(u)
    <2>1. u.commits # <<>>
      BY <1>3
    <2> QED BY <1>2, <1>3, <2>1 DEF Newest
  <1>5. Knows(v, id) /\ Position(v, id) = Len(v.commits) /\ Entry(v, id) = entry
    <2>1. id \in Keep(u)
      BY <1>3, <1>4, KeepKeeps
    <2> QED BY <1>1, <1>3, <2>1, PrunedKeeps DEF Entry
  <1>6. ASSUME NEW g, g # id, MayClose(w, g) PROVE MayClose(v, g)
    <2>1. /\ Knows(w, g) /\ w.commits[Position(w, g)].active > 0
          /\ Position(w, g) \in 1 .. Len(w.commits) /\ w.commits[Position(w, g)].id = g
      BY <1>6, Known DEF MayClose, Entry
    <2>2. Position(u, g) = Position(w, g) /\ u.commits[Position(w, g)] = w.commits[Position(w, g)]
      BY <1>3, <1>6, <2>1
    <2>3. Position(w, g) \in DOMAIN u.commits
      BY <1>3, <2>1 DEF WellFormed
    <2>4. g \in Active(u)
      BY <2>1, <2>2, <2>3 DEF Active
    <2>5. Knows(u, g) /\ g \in Keep(u)
      BY <1>3, <2>1, <2>2, <2>4, KeepKeeps DEF Knows
    <2>6. Knows(v, g) /\ Entry(v, g) = Entry(u, g)
      BY <1>1, <1>3, <2>5, PrunedKeeps
    <2> QED BY <2>1, <2>2, <2>6 DEF MayClose, Entry
  <1> QED BY <1>3, <1>5, <1>6 DEF entry

LEMMA OpenOpens ==
  ASSUME NEW w, WellFormed(w), NEW id \in Commits
  PROVE  WellFormed(Open(w, id)) /\ MayClose(Open(w, id), id)
PROOF
  <1> DEFINE u == Baseline(w, id)
             v == Open(w, id)
             entry == CommitChanges(id, NoCommit, {}, {})
  <1>1. WellFormed(u) /\ Knows(u, id)
    <2>1. CASE Knows(w, id)
      BY <2>1 DEF Baseline
    <2>2. CASE ~Knows(w, id)
      <3>1. entry \in Entries /\ entry.id = id
        BY DEF CommitChanges, Entries
      <3>2. u = PushBack(w, entry)
        BY <2>2 DEF Baseline
      <3> HIDE DEF entry, u
      <3> QED BY <3>1, <3>2, PushBackExtends DEF Extended
    <2> QED BY <2>1, <2>2
  <1>2. v = Retain(u, id, 1)
    BY DEF Open
  <1> HIDE DEF u, v
  <1>3. Entry(u, id).active \in Nat /\ Position(u, id) \in 1 .. Len(u.commits)
    BY <1>1, Known DEF Entries
  <1>4. Counted(u, v, id, 1)
    BY <1>1, <1>2, <1>3, RetainCounts
  <1>5. Position(v, id) = Position(u, id) /\ Entry(v, id).active = Entry(u, id).active + 1
    BY <1>3, <1>4 DEF Counted, Entry
  <1> QED BY <1>1, <1>3, <1>4, <1>5 DEF Counted, MayClose, Knows, Entry, v

\* The guards of a window that is closed once go down by one.
LEMMA CloseEffect ==
  ASSUME NEW w, WellFormed(w), NEW id, MayClose(w, id)
  PROVE  \E u, n : Counted(w, u, id, -1) /\ Pruned(u, Close(w, id), n)
PROOF
  <1> DEFINE u == Retain(w, id, -1)
  <1>1. Knows(w, id) /\ Entry(w, id).active \in Nat /\ Entry(w, id).active > 0
    BY Known DEF MayClose, Entry, Entries
  <1>2. Counted(w, u, id, -1)
    BY <1>1, RetainCounts
  <1>3. \E n : Pruned(u, Prune(u), n)
    BY <1>2, PrunePrunes DEF Counted
  <1> QED BY <1>2, <1>3 DEF Close

------------------------------------------------------------------------------
(* The window and its users: types, and who holds the window open *)

\* A request or a transaction at one of these has the meta commit lock.
Holding == {"begun", "opened", "conflict", "verified", "fresh", "registered", "closing"}

\* The types of all but the window.
Types ==
  /\ scenario \in Scenarios
  /\ DOMAIN history \subseteq Commits
  /\ \A c \in DOMAIN history : history[c] \in Contents /\ history[c].id = c
  /\ head \in DOMAIN history
  /\ rootIsInitial \in BOOLEAN
  /\ lock \in Clients \cup {Nobody}
  /\ pc \in [Clients -> Locations]
  /\ pre \in [Requests -> DOMAIN history \cup {NoCommit}]
  /\ base \in [Clients -> DOMAIN history \cup {NoCommit}]
  /\ guard \in [Requests -> DOMAIN history \cup {NoCommit}]
  /\ made \in [Clients -> Contents \cup {NoContent}]
  /\ faults \in 0..scenario.faults /\ resets \in 0..scenario.resets
  /\ foreign \in 0..scenario.foreign /\ restarts \in 0..scenario.restarts

\* What a client that is at work has read and made.
Places ==
  /\ \A c \in Clients : /\ pc[c] \in Holding => lock = c
                        /\ pc[c] \in Holding \cup {"read", "prepared"} => base[c] \in DOMAIN history
                        /\ pc[c] = "registered" => made[c] \in Contents
  /\ \A r \in Requests : /\ guard[r] # NoCommit => pc[r] \in Holding
                         /\ pc[r] \in Holding \cup {"queued"} => pre[r] \in DOMAIN history

GuardInv == Types /\ WellFormed(window) /\ Places /\ GuardsCanClose

LEMMA GuardImplies == GuardInv => TypeOK
PROOF
  <1> SUFFICES ASSUME GuardInv PROVE TypeOK
    OBVIOUS
  <1>1. \A id \in DOMAIN window.index :
          Knows(window, id) /\ window.commits[Position(window, id)].id = id
    BY Known DEF GuardInv, Entry
  <1>2. \A i \in DOMAIN window.commits : window.commits[i] \in Entries
    BY DEF GuardInv, WellFormed
  <1> QED BY <1>1, <1>2 DEF GuardInv, Types, TypeOK, Entries

LEMMA MoveHeadMoves ==
  ASSUME Types, NEW content \in Contents, MoveHead(content)
  PROVE  /\ head' \in DOMAIN history' /\ DOMAIN history' = DOMAIN history \cup {content.id}
         /\ DOMAIN history' \subseteq Commits
         /\ \A c \in DOMAIN history' : history'[c] \in [id : Commits,
              before : Commits \cup {NoCommit}, docs : SUBSET DocIds, schema : 0..scenario.schemas]
              /\ history'[c].id = c
         /\ \A c \in DOMAIN history : c # content.id => history'[c] = history[c]
         /\ history'[content.id] = content
         /\ rootIsInitial' = rootIsInitial
PROOF
  <1>1. content.id \in Commits
    BY DEF Contents
  <1> QED BY <1>1 DEF MoveHead, Types, Contents

LEMMA EmptyIsWellFormed == WellFormed(EmptyWindow)
PROOF
  <1>1. EmptyWindow.index \in [{} -> Nat] /\ DOMAIN EmptyWindow.index = {}
    BY DEF EmptyWindow
  <1>2. EmptyWindow.index \in UNION {[S -> Nat] : S \in SUBSET Commits}
    BY <1>1
  <1>3. /\ EmptyWindow.commits \in Seq(Entries) /\ EmptyWindow.start \in Nat
        /\ EmptyWindow = [commits |-> EmptyWindow.commits, index |-> EmptyWindow.index,
                          start |-> EmptyWindow.start]
    BY DEF EmptyWindow
  <1> QED BY <1>1, <1>2, <1>3 DEF WellFormed

LEMMA GuardInit == Init => GuardInv
PROOF
  <1> SUFFICES ASSUME Init PROVE GuardInv
    OBVIOUS
  <1>1. WellFormed(EmptyWindow)
    BY EmptyIsWellFormed
  <1> USE DEF Init
  <1>2. WellFormed(window)
    <2>1. CommitChanges(Root, NoCommit, {}, {}) \in Entries
      BY DEF CommitChanges, Entries, Commits
    <2>2. WellFormed(Register(EmptyWindow, Root, NoCommit, {}, {}))
      BY <1>1, <2>1, RegisterKeeps
    <2> QED BY <1>1, <2>2
  <1>3. Types
    <2>1. scenario \in [clients : SUBSET Clients, docs : SUBSET DocIds, colds : SUBSET BOOLEAN,
                        schemas : Nat, faults : Nat, resets : Nat, foreign : Nat, restarts : Nat]
      BY BoundAssumption
    <2>2. PICK docs \in SUBSET scenario.docs :
            history = [c \in {Root} |-> Content(Root, NoCommit, docs, 0)]
      OBVIOUS
    <2>3. docs \in SUBSET DocIds
      BY <2>1
    <2>4. history[Root] = Content(Root, NoCommit, docs, 0) /\ DOMAIN history = {Root}
      BY <2>2
    <2>5. Content(Root, NoCommit, docs, 0) \in Contents
      BY <2>1, <2>3 DEF Content, Contents, Commits
    <2> QED BY <2>1, <2>4, <2>5, StartAssumption DEF Types, Content, Commits, Locations
  <1>4. Places /\ GuardsCanClose
    <2>1. Requests \subseteq Clients /\ \A c \in Clients : pc[c] \in {"idle", "done"}
      BY DEF Clients
    <2>2. \A r \in Requests : guard[r] = NoCommit
      OBVIOUS
    <2> QED BY <2>1, <2>2 DEF Places, Holding, GuardsCanClose
  <1> QED BY <1>2, <1>3, <1>4 DEF GuardInv

\* The lock is held by one client, and by nobody while nobody is at work under it.
LEMMA OneHolder ==
  ASSUME Places, NEW c \in Clients
  PROVE  /\ lock = Nobody => pc[c] \notin Holding
         /\ \A d \in Clients : pc[c] \in Holding /\ pc[d] \in Holding => c = d
PROOF BY ClientAssumption DEF Places

\* The bounds of a behaviour do not change.
LEMMA ScenarioStays == Next => scenario' = scenario
PROOF
  <1> USE DEF boundVars
  <1>1. ASSUME NEW r \in Requests, RequestStep(r) PROVE scenario' = scenario
    BY <1>1 DEF RequestStep, Elaborate, Begin, OpenWindow, Verify, Reelaborate, NoCommitMade,
       ApplyAndRegister, PublishRequest, RequestFails, CloseWindow
  <1>2. ASSUME NEW w \in Writers, WriterStep(w) PROVE scenario' = scenario
    BY <1>2 DEF WriterStep, Read, WriteAndRegister, PublishWrite, WriteFails
  <1>3. ASSUME NEW b \in Rebasers, RebaserStep(b) PROVE scenario' = scenario
    BY <1>3 DEF RebaserStep, PrepareRebase, Rebase, RebaseNothing, RebaseRejected
  <1> QED BY <1>1, <1>2, <1>3 DEF Next, Reset, ForeignMove, Restart

LEMMA RequestGuards ==
  ASSUME GuardInv, NEW r \in Requests, RequestStep(r)
  PROVE  GuardInv'
PROOF
  <1> USE DEF GuardInv
  <1>0. /\ r \in Clients /\ Requests \subseteq Clients
        /\ pc[r] \in Holding => \A d \in Clients : d # r => pc[d] \notin Holding
        /\ pc[r] \in Holding => \A d \in Requests : d # r => guard[d] = NoCommit
    BY OneHolder DEF Places, Clients
  <1>13. scenario' = scenario /\ Contents' = Contents
    BY ScenarioStays DEF Next, Contents
  <1>1. CASE Elaborate(r)
    <2>1. Types'
      BY <1>0, <1>13, <1>1 DEF Elaborate, Types, Goto, repoVars, boundVars, Locations
    <2>2. Places'
      BY <1>0, <1>13, <1>1 DEF Elaborate, Places, Types, Goto, repoVars, Holding
    <2> QED BY <1>1, <2>1, <2>2 DEF Elaborate, GuardsCanClose
  <1>2. CASE Begin(r)
    <2>1. Types'
      BY <1>0, <1>13, <1>2 DEF Begin, Types, Goto, repoVars, boundVars, Locations
    <2>2. Places'
      BY <1>0, <1>13, <1>2, OneHolder DEF Begin, Places, Types, Goto, repoVars, Holding
    <2> QED BY <1>2, <2>1, <2>2 DEF Begin, GuardsCanClose
  <1>3. CASE OpenWindow(r)
    <2>0. pc[r] \in Holding /\ base[r] \in DOMAIN history /\ base[r] \in Commits
      BY <1>0, <1>13, <1>3 DEF OpenWindow, Places, Holding, Types
    <2>1. Types'
      BY <1>0, <1>13, <1>3, <2>0 DEF OpenWindow, Types, Goto, repoVars, boundVars, Locations
    <2>2. Places'
      BY <1>0, <1>13, <1>3, <2>0 DEF OpenWindow, Places, Types, Goto, repoVars, Holding
    <2>3. WellFormed(window)' /\ MayClose(window', base[r])
      BY <1>3, <2>0, OpenOpens DEF OpenWindow
    <2>4. GuardsCanClose'
      BY <1>0, <1>13, <1>3, <2>0, <2>3 DEF OpenWindow, GuardsCanClose, Types
    <2> QED BY <2>1, <2>2, <2>3, <2>4
  <1>4. CASE Verify(r)
    <2>1. Types'
      BY <1>0, <1>13, <1>4 DEF Verify, Types, Goto, repoVars, boundVars, Locations
    <2>2. Places'
      BY <1>0, <1>13, <1>4 DEF Verify, Places, Types, Goto, repoVars, Holding
    <2> QED BY <1>4, <2>1, <2>2 DEF Verify, GuardsCanClose
  <1>5. CASE Reelaborate(r)
    <2>1. Types'
      BY <1>0, <1>13, <1>5 DEF Reelaborate, Types, Goto, repoVars, boundVars, Locations
    <2>2. Places'
      BY <1>0, <1>13, <1>5 DEF Reelaborate, Places, Types, Goto, repoVars, Holding
    <2> QED BY <1>5, <2>1, <2>2 DEF Reelaborate, GuardsCanClose
  <1>6. CASE NoCommitMade(r)
    <2>1. Types'
      BY <1>0, <1>13, <1>6 DEF NoCommitMade, Types, Goto, repoVars, boundVars, Locations
    <2>2. Places'
      BY <1>0, <1>13, <1>6 DEF NoCommitMade, Places, Types, Goto, repoVars, Holding
    <2> QED BY <1>6, <2>1, <2>2 DEF NoCommitMade, GuardsCanClose
  <1>7. CASE ApplyAndRegister(r)
    <2>0. /\ pc[r] \in Holding /\ pc[r] # "registered" /\ base[r] \in DOMAIN history
          /\ base[r] \in Commits
      BY <1>0, <1>7 DEF ApplyAndRegister, Places, Holding, Types
    <2> DEFINE docs == Docs(base[r]) \cup IdsOf[r] \cup CreatesOf[r]
               added == IdsOf[r] \cup (CreatesOf[r] \ Docs(base[r]))
               removed == IdsOf[r] \cap Docs(base[r])
    <2>1. PICK id \in CommitIds :
            Fresh(id) /\ RegisterCommit(r, Content(id, base[r], docs, Schema(base[r])), added, removed)
      BY <1>7 DEF ApplyAndRegister
    <2>2. /\ IdsOf[r] \subseteq DocIds /\ CreatesOf[r] \subseteq DocIds
          /\ Docs(base[r]) \subseteq DocIds /\ Schema(base[r]) \in 0 .. scenario.schemas
      BY <2>0, RequestAssumption DEF Types, Contents, Docs, Schema
    <2>3. Content(id, base[r], docs, Schema(base[r])) \in Contents
      BY <2>0, <2>2 DEF Content, Contents, Commits
    <2>4. CommitChanges(id, AsParent(base[r]), added, removed) \in Entries
      BY <2>0, <2>2 DEF CommitChanges, Entries, Commits, AsParent
    <2> HIDE DEF docs, added, removed
    <2>5. /\ window' = Register(window, id, AsParent(base[r]), added, removed)
          /\ made' = [made EXCEPT ![r] = Content(id, base[r], docs, Schema(base[r]))]
          /\ pc' = [pc EXCEPT ![r] = "registered"]
      BY <2>1 DEF RegisterCommit, Content, Goto
    <2>6. UNCHANGED <<repoVars, lock, pre, base, guard, boundVars>>
      BY <1>7 DEF ApplyAndRegister
    <2>7. Types'
      BY <1>0, <1>13, <2>3, <2>5, <2>6 DEF Types, repoVars, boundVars, Locations
    <2>8. Places'
      BY <1>0, <1>13, <2>0, <2>3, <2>5, <2>6 DEF Places, Types, repoVars, Holding
    <2>9. WellFormed(window') /\ \A g : g # id /\ MayClose(window, g) => MayClose(window', g)
      BY <2>4, <2>5, RegisterKeeps
    <2>10. \A g : MayClose(window, g) => g # id
      <3>1. \A g : Knows(window, g) => g \in Ids(window)
        BY Known DEF Ids, Entry, WellFormed
      <3> QED BY <2>1, <3>1 DEF Fresh, MayClose
    <2>11. GuardsCanClose'
      BY <2>6, <2>9, <2>10 DEF GuardsCanClose
    <2> QED BY <2>7, <2>8, <2>9, <2>11
  <1>8. CASE PublishRequest(r)
    <2>0. pc[r] \in Holding /\ made[r] \in Contents
      BY <1>0, <1>8 DEF PublishRequest, Places, Holding
    <2>1. /\ head' \in DOMAIN history' /\ DOMAIN history \subseteq DOMAIN history'
          /\ DOMAIN history' \subseteq Commits /\ rootIsInitial' = rootIsInitial
          /\ \A c \in DOMAIN history' : history'[c] \in Contents /\ history'[c].id = c
      BY <1>8, <2>0, MoveHeadMoves DEF PublishRequest, Contents
    <2>2. /\ made' = [made EXCEPT ![r] = NoContent] /\ pc' = [pc EXCEPT ![r] = "closing"]
          /\ UNCHANGED <<window, lock, pre, base, guard, boundVars>>
      BY <1>8 DEF PublishRequest, Goto
    <2>3. Types'
      BY <1>0, <1>13, <2>1, <2>2 DEF Types, boundVars, Locations
    <2>4. Places'
      BY <1>0, <1>13, <2>0, <2>1, <2>2 DEF Places, Types, Holding
    <2> QED BY <2>2, <2>3, <2>4 DEF GuardsCanClose
  <1>9. CASE RequestFails(r)
    <2>1. Types'
      BY <1>0, <1>13, <1>9, BoundAssumption
      DEF RequestFails, Types, Goto, repoVars, Locations
    <2>2. Places'
      BY <1>0, <1>13, <1>9 DEF RequestFails, Places, Types, Goto, repoVars, Holding
    <2> QED BY <1>9, <2>1, <2>2 DEF RequestFails, GuardsCanClose
  <1>10. CASE CloseWindow(r)
    <2>0. pc[r] \in Holding
      BY <1>10 DEF CloseWindow, Holding
    <2>1. Types'
      BY <1>0, <1>13, <1>10 DEF CloseWindow, Types, Goto, repoVars, boundVars, Locations
    <2>2. Places'
      BY <1>0, <1>13, <1>10, <2>0 DEF CloseWindow, Places, Types, Goto, repoVars, Holding
    <2>3. WellFormed(window)'
      <3>1. PICK u, n : Counted(window, u, guard[r], -1) /\ Pruned(u, window', n)
        BY <1>10, CloseEffect DEF CloseWindow
      <3> QED BY <3>1 DEF Pruned, Shortened
    <2>4. \A q \in Requests : guard'[q] = NoCommit
      BY <1>0, <1>10, <2>0 DEF CloseWindow, Types
    <2> QED BY <2>1, <2>2, <2>3, <2>4 DEF GuardsCanClose
  <1> QED
    BY <1>1, <1>2, <1>3, <1>4, <1>5, <1>6, <1>7, <1>8, <1>9, <1>10 DEF RequestStep

\* A head that is moved to a commit takes all types with it.
LEMMA MovedTypes ==
  ASSUME Types, NEW content \in Contents, MoveHead(content), Contents' = Contents
  PROVE  /\ head' \in DOMAIN history' /\ DOMAIN history \subseteq DOMAIN history'
         /\ DOMAIN history' \subseteq Commits /\ rootIsInitial' = rootIsInitial
         /\ \A c \in DOMAIN history' : history'[c] \in Contents /\ history'[c].id = c
PROOF BY MoveHeadMoves DEF Contents

LEMMA WriterGuards ==
  ASSUME GuardInv, NEW w \in Writers, WriterStep(w)
  PROVE  GuardInv'
PROOF
  <1> USE DEF GuardInv
  <1>0. /\ w \in Clients /\ Requests \subseteq Clients /\ w \notin Requests
        /\ lock = Nobody => \A d \in Clients : pc[d] \notin Holding
        /\ pc[w] \in Holding => \A d \in Clients : d # w => pc[d] \notin Holding
    BY OneHolder, ClientAssumption DEF Clients
  <1>13. scenario' = scenario /\ Contents' = Contents
    BY ScenarioStays DEF Next, Contents
  <1>1. CASE Read(w)
    <2>1. Types'
      BY <1>0, <1>13, <1>1 DEF Read, Types, Goto, repoVars, boundVars, Locations
    <2>2. Places'
      BY <1>0, <1>13, <1>1 DEF Read, Places, Types, Goto, repoVars, Holding
    <2> QED BY <1>1, <2>1, <2>2 DEF Read, GuardsCanClose
  <1>2. CASE WriteAndRegister(w)
    <2>0. base[w] \in DOMAIN history /\ base[w] \in Commits
      BY <1>0, <1>2 DEF WriteAndRegister, Places, Types
    <2>1. PICK id \in CommitIds, docs \in SUBSET scenario.docs, updated \in SUBSET Docs(base[w]),
               schema \in Schema(base[w])..scenario.schemas :
            RegisterCommit(w, Content(id, base[w], docs, schema),
                           (docs \ Docs(base[w])) \cup updated,
                           (Docs(base[w]) \ docs) \cup updated)
      BY <1>2 DEF WriteAndRegister
    <2> DEFINE added == (docs \ Docs(base[w])) \cup updated
               removed == (Docs(base[w]) \ docs) \cup updated
    <2>2. /\ Docs(base[w]) \subseteq DocIds /\ docs \subseteq DocIds
          /\ Schema(base[w]) \in 0 .. scenario.schemas /\ scenario.schemas \in Nat
      BY <2>0, BoundAssumption DEF Types, Contents, Docs, Schema
    <2>3. Content(id, base[w], docs, schema) \in Contents
      BY <2>0, <2>2 DEF Content, Contents, Commits
    <2>4. CommitChanges(id, AsParent(base[w]), added, removed) \in Entries
      BY <2>0, <2>2 DEF CommitChanges, Entries, Commits, AsParent
    <2>5. /\ window' = Register(window, id, AsParent(base[w]), added, removed)
          /\ made' = [made EXCEPT ![w] = Content(id, base[w], docs, schema)]
          /\ pc' = [pc EXCEPT ![w] = "registered"]
      BY <2>1 DEF RegisterCommit, Content, Goto
    <2> HIDE DEF added, removed
    <2>6. UNCHANGED <<repoVars, pre, base, guard, boundVars>> /\ lock = Nobody /\ lock' = w
      BY <1>2 DEF WriteAndRegister
    <2>7. Types'
      BY <1>0, <1>13, <2>3, <2>5, <2>6 DEF Types, repoVars, boundVars, Locations
    <2>8. Places'
      BY <1>0, <1>13, <2>0, <2>3, <2>5, <2>6 DEF Places, Types, repoVars, Holding
    <2>9. WellFormed(window')
      BY <2>4, <2>5, RegisterKeeps
    <2>10. GuardsCanClose'
      BY <1>0, <2>6 DEF GuardsCanClose, Places
    <2> QED BY <2>7, <2>8, <2>9, <2>10
  <1>3. CASE PublishWrite(w)
    <2>0. pc[w] \in Holding /\ made[w] \in Contents
      BY <1>0, <1>3 DEF PublishWrite, Places, Holding
    <2>1. /\ head' \in DOMAIN history' /\ DOMAIN history \subseteq DOMAIN history'
          /\ DOMAIN history' \subseteq Commits /\ rootIsInitial' = rootIsInitial
          /\ \A c \in DOMAIN history' : history'[c] \in Contents /\ history'[c].id = c
      BY <1>13, <1>3, <2>0, MovedTypes DEF PublishWrite
    <2>2. /\ made' = [made EXCEPT ![w] = NoContent] /\ pc' = [pc EXCEPT ![w] = "done"]
          /\ lock' = Nobody /\ UNCHANGED <<window, pre, base, guard, boundVars>>
      BY <1>3 DEF PublishWrite, Goto
    <2>3. Types'
      BY <1>0, <1>13, <2>1, <2>2 DEF Types, boundVars, Locations
    <2>4. Places'
      BY <1>0, <1>13, <2>0, <2>1, <2>2 DEF Places, Types, Holding
    <2> QED BY <2>2, <2>3, <2>4 DEF GuardsCanClose
  <1>4. CASE WriteFails(w)
    <2>0. pc[w] \in Holding
      BY <1>4 DEF WriteFails, Holding
    <2>1. Types'
      BY <1>0, <1>13, <1>4, BoundAssumption DEF WriteFails, Types, Goto, repoVars, Locations
    <2>2. Places'
      BY <1>0, <1>13, <1>4, <2>0 DEF WriteFails, Places, Types, Goto, repoVars, Holding
    <2> QED BY <1>4, <2>1, <2>2 DEF WriteFails, GuardsCanClose
  <1> QED BY <1>1, <1>2, <1>3, <1>4 DEF WriterStep

\* The head moves, the window is told of at most the move, no guard is held or no entry lost.
LEMMA RebaserGuards ==
  ASSUME GuardInv, NEW b \in Rebasers, RebaserStep(b)
  PROVE  GuardInv'
PROOF
  <1> USE DEF GuardInv
  <1>0. /\ b \in Clients /\ Requests \subseteq Clients /\ b \notin Requests
        /\ lock = Nobody => \A r \in Requests : guard[r] = NoCommit
    BY OneHolder, ClientAssumption DEF Clients, Places
  <1>1. scenario' = scenario /\ Contents' = Contents
    BY ScenarioStays DEF Next, Contents
  <1>2. CASE PrepareRebase(b)
    <2>1. Types'
      BY <1>0, <1>1, <1>2 DEF PrepareRebase, Types, Goto, repoVars, boundVars, Locations
    <2>2. Places'
      BY <1>0, <1>1, <1>2 DEF PrepareRebase, Places, Types, Goto, repoVars, Holding
    <2> QED BY <1>2, <2>1, <2>2 DEF PrepareRebase, GuardsCanClose
  <1>3. ASSUME NEW content \in Contents, NEW parent \in Commits \cup {NoCommit},
               RebaseOnto(content, parent), pc[b] = "prepared", lock = Nobody, Goto(b, "done"),
               UNCHANGED <<lock, pre, base, guard, made, boundVars>>
        PROVE  GuardInv'
    <2>1. WellFormed(window')
      <3>1. CommitChanges(content.id, parent, {}, {}) \in Entries
        BY DEF CommitChanges, Entries, Contents
      <3> QED BY <1>3, <3>1, RegisterKeeps DEF RebaseOnto
    <2>2. /\ head' \in DOMAIN history' /\ DOMAIN history \subseteq DOMAIN history'
          /\ DOMAIN history' \subseteq Commits /\ rootIsInitial' = rootIsInitial
          /\ \A c \in DOMAIN history' : history'[c] \in Contents /\ history'[c].id = c
      BY <1>1, <1>3, MovedTypes DEF RebaseOnto
    <2>3. Types'
      BY <1>0, <1>1, <1>3, <2>2 DEF Types, Goto, boundVars, Locations
    <2>4. Places'
      BY <1>0, <1>1, <1>3, <2>2 DEF Places, Types, Goto, Holding
    <2>5. GuardsCanClose'
      BY <1>0, <1>3 DEF GuardsCanClose
    <2> QED BY <2>1, <2>3, <2>4, <2>5
  <1>4. head \in Commits /\ history[head] \in Contents
    BY DEF Types
  <1>5. CASE Rebase(b)
    <2>1. PICK id \in CommitIds, docs \in SUBSET scenario.docs, parent \in {NoCommit, AsParent(head)} :
            RebaseOnto(Content(id, head, docs, Schema(head)), parent)
      BY <1>5 DEF Rebase
    <2>2. parent \in Commits \cup {NoCommit}
      BY <1>4 DEF AsParent
    <2>3. Content(id, head, docs, Schema(head)) \in Contents
      <3>1. docs \in SUBSET DocIds /\ Schema(head) \in 0 .. scenario.schemas
        BY <1>4, BoundAssumption DEF Types, Contents, Schema
      <3> QED BY <1>4, <3>1 DEF Content, Contents, Commits
    <2> QED BY <1>3, <1>5, <2>1, <2>2, <2>3 DEF Rebase
  <1>6. CASE RebaseNothing(b)
    <2>1. ParentOf(head) \in Commits \cup {NoCommit}
      BY <1>4 DEF ParentOf, AsParent, Contents
    <2> QED BY <1>3, <1>4, <1>6, <2>1 DEF RebaseNothing
  <1>7. CASE RebaseRejected(b)
    <2>1. Types'
      BY <1>0, <1>1, <1>7 DEF RebaseRejected, Types, Goto, repoVars, boundVars, Locations
    <2>2. Places'
      BY <1>0, <1>1, <1>7 DEF RebaseRejected, Places, Types, Goto, repoVars, Holding
    <2> QED BY <1>7, <2>1, <2>2 DEF RebaseRejected, GuardsCanClose
  <1> QED BY <1>2, <1>5, <1>6, <1>7 DEF RebaserStep

LEMMA OtherGuards ==
  ASSUME GuardInv, Reset \/ ForeignMove \/ Restart
  PROVE  GuardInv'
PROOF
  <1> USE DEF GuardInv
  <1>0. Requests \subseteq Clients /\ scenario.resets \in Nat /\ scenario.foreign \in Nat
        /\ scenario.restarts \in Nat
    BY BoundAssumption DEF Clients, Types
  <1>1. scenario' = scenario /\ Contents' = Contents
    BY ScenarioStays DEF Next, Contents
  <1>2. ASSUME NEW content \in Contents, MoveHead(content),
               UNCHANGED <<window, lock, pc, pre, base, guard, made, faults, restarts>>,
               resets' \in 0..scenario.resets, foreign' \in 0..scenario.foreign
        PROVE  GuardInv'
    <2>1. /\ head' \in DOMAIN history' /\ DOMAIN history \subseteq DOMAIN history'
          /\ DOMAIN history' \subseteq Commits /\ rootIsInitial' = rootIsInitial
          /\ \A c \in DOMAIN history' : history'[c] \in Contents /\ history'[c].id = c
      BY <1>1, <1>2, MovedTypes
    <2>2. Types'
      BY <1>1, <1>2, <2>1 DEF Types
    <2>3. Places'
      BY <1>1, <1>2, <2>1 DEF Places, Types
    <2> QED BY <1>2, <2>2, <2>3 DEF GuardsCanClose
  <1>3. CASE Reset
    <2>1. PICK c \in AncestorsOf(head) : MoveHead(history[c])
      BY <1>3 DEF Reset
    <2>2. history[c] \in Contents
      BY <2>1 DEF AncestorsOf, Types
    <2>3. resets' \in 0..scenario.resets /\ foreign' \in 0..scenario.foreign
      BY <1>0, <1>3 DEF Reset, Types
    <2> QED BY <1>2, <1>3, <2>1, <2>2, <2>3 DEF Reset
  <1>4. CASE ForeignMove
    <2>1. PICK id \in CommitIds, docs \in SUBSET scenario.docs :
            MoveHead(Content(id, head, docs, Schema(head)))
      BY <1>4 DEF ForeignMove
    <2>2. Content(id, head, docs, Schema(head)) \in Contents
      <3>1. docs \in SUBSET DocIds /\ head \in Commits /\ Schema(head) \in 0 .. scenario.schemas
        BY BoundAssumption DEF Types, Contents, Schema
      <3> QED BY <3>1 DEF Content, Contents, Commits
    <2>3. resets' \in 0..scenario.resets /\ foreign' \in 0..scenario.foreign
      BY <1>0, <1>4 DEF ForeignMove, Types
    <2> QED BY <1>2, <1>4, <2>1, <2>2, <2>3 DEF ForeignMove
  <1>5. CASE Restart
    <2>1. Types'
      BY <1>0, <1>1, <1>5 DEF Restart, Types, repoVars, Locations
    <2>2. \A c \in Clients : pc'[c] \in {"idle", "done"}
      BY <1>5 DEF Restart
    <2>3. \A r \in Requests : guard'[r] = NoCommit
      BY <1>5 DEF Restart
    <2>4. Places' /\ GuardsCanClose'
      BY <1>0, <2>2, <2>3 DEF Places, Holding, GuardsCanClose
    <2>5. WellFormed(window')
      BY <1>5, EmptyIsWellFormed DEF Restart
    <2> QED BY <2>1, <2>4, <2>5
  <1> QED BY <1>3, <1>4, <1>5

LEMMA GuardStep == GuardInv /\ [Next]_vars => GuardInv'
PROOF
  <1> SUFFICES ASSUME GuardInv, [Next]_vars PROVE GuardInv'
    OBVIOUS
  <1>1. CASE UNCHANGED vars
    BY <1>1 DEF vars, repoVars, boundVars, GuardInv, Types, Places, GuardsCanClose, Contents
  <1> QED BY <1>1, RequestGuards, WriterGuards, RebaserGuards, OtherGuards DEF Next

LEMMA AlwaysGuarded == Spec => []GuardInv
PROOF BY GuardInit, GuardStep, PTL DEF Spec

\* The variables have their types, and each index entry of the window names an entry of its
\* commit, for all commits, documents and clients.
THEOREM TypeCorrect == Spec => []TypeOK
PROOF BY AlwaysGuarded, GuardImplies, PTL

\* A window that is held open can be closed: its commit is still in it and counted, whatever
\* was registered, pruned, rebased, reset, fetched or restarted since it was opened.
THEOREM WindowsCanClose == Spec => []GuardsCanClose
PROOF
  <1>1. GuardInv => GuardsCanClose
    BY DEF GuardInv
  <1> QED BY <1>1, AlwaysGuarded, PTL

------------------------------------------------------------------------------
(* The branch and its window, while only requests and transactions write *)

\* From the head down to the root the branch is a line.
Line ==
  /\ Root \in DOMAIN history /\ history[Root].before = NoCommit
  /\ \A c \in DOMAIN history \ {Root} : history[c].before \in DOMAIN history
  /\ \A c \in DOMAIN history : /\ c \in AncestorsOf(head) /\ Root \in AncestorsOf(c)
                               /\ history[c].before # head

\* There is one entry of a commit at most, and it is indexed.
Unique(w) == \A i \in 1 .. Len(w.commits) : Position(w, w.commits[i].id) = i

\* An entry tells what a commit changes, and what it descends from.
Tells(entry, content) ==
  LET old == Docs(content.before)
  IN  /\ content.docs \ old \subseteq entry.added /\ old \ content.docs \subseteq entry.removed
      /\ entry.parent = AsParent(content.before)

\* Above a commit that the window knows, it knows the next one, further back, and its changes.
Follows ==
  \A c \in DOMAIN history \ {Root} : Knows(window, history[c].before) =>
    /\ Knows(window, c) /\ Position(window, history[c].before) < Position(window, c)
    /\ Tells(Entry(window, c), history[c])

\* An entry has its parent on the branch, or is of the branch itself.
OfBranch ==
  \A i \in 1 .. Len(window.commits) :
    /\ window.commits[i].parent \in DOMAIN history \cup {NoCommit}
    /\ window.commits[i].parent = NoCommit =>
         rootIsInitial \/ window.commits[i].id \in DOMAIN history

\* A request that has the lock works on the head, with its window open there.
AtHead ==
  \A r \in Requests :
    /\ pc[r] \in Holding \ {"closing"} => base[r] = head
    /\ pc[r] = "opened" => guard[r] = base[r]

\* A commit that is to be published is new, and its entry the last one.
Prepared ==
  \A c \in Clients : pc[c] = "registered" =>
    /\ made[c].id \in CommitIds \ DOMAIN history /\ made[c].before = base[c]
    /\ Knows(window, made[c].id) /\ Position(window, made[c].id) = Len(window.commits)
    /\ Tells(Entry(window, made[c].id), made[c])

\* Who does not take part does nothing.
Idle == \A c \in Clients \ scenario.clients : pc[c] = "done"

\* What a request that is verified relies on has not changed.
Verified ==
  \A r \in Requests : pc[r] = "verified" =>
    /\ MustNotExist(r) \cap Docs(base[r]) \subseteq Docs(pre[r])
    /\ MustExist(r) \cap Docs(pre[r]) \subseteq Docs(base[r])
    /\ Schema(pre[r]) = Schema(base[r])

\* What is said of the branch and its window, whoever is at work.
Shape == Line /\ Unique(window) /\ Follows /\ OfBranch

BranchInv ==
  /\ Idle
  /\ OnlyWrites => Shape /\ AtHead /\ Prepared /\ Verified

(* Ancestors in a history h: the least set with a commit and all predecessors. *)

Closed(h, kept, c) ==
  /\ kept \subseteq DOMAIN h /\ c \in kept
  /\ \A a \in kept : h[a].before \in kept \cup {NoCommit}

Below(h, c) == {a \in DOMAIN h : \A kept \in SUBSET DOMAIN h : Closed(h, kept, c) => a \in kept}

\* Each commit but those without one has its predecessor in the history.
Rooted(h) == NoCommit \notin DOMAIN h /\ \A c \in DOMAIN h : h[c].before \in DOMAIN h \cup {NoCommit}

LEMMA AncestorsAreBelow ==
  \A c : AncestorsOf(c) = Below(history, c) /\ AncestorsOf(c)' = Below(history', c)
PROOF
  <1>1. ASSUME NEW h, NEW c
        PROVE  {a \in DOMAIN h :
                  \A kept \in {k \in SUBSET DOMAIN h :
                               c \in k /\ {h[x].before : x \in k} \subseteq k \cup {NoCommit}} :
                    a \in kept} = Below(h, c)
    <2>1. \A kept \in SUBSET DOMAIN h :
            {h[a].before : a \in kept} \subseteq kept \cup {NoCommit}
              <=> \A a \in kept : h[a].before \in kept \cup {NoCommit}
      OBVIOUS
    <2> QED BY <2>1 DEF Below, Closed
  <1> QED BY <1>1 DEF AncestorsOf

LEMMA BelowSelf ==
  ASSUME NEW h, NEW c \in DOMAIN h
  PROVE  c \in Below(h, c)
PROOF BY DEF Below, Closed

\* An ancestor other than the commit itself is one of its predecessor.
LEMMA BelowPredecessor ==
  ASSUME NEW h, Rooted(h), NEW c \in DOMAIN h, NEW a \in Below(h, c), a # c
  PROVE  h[c].before \in DOMAIN h /\ a \in Below(h, h[c].before)
PROOF
  <1> DEFINE b == h[c].before
  <1>1. CASE b = NoCommit
    <2>1. Closed(h, {c}, c)
      BY <1>1 DEF Closed
    <2> QED BY <2>1 DEF Below
  <1>2. CASE b \in DOMAIN h
    <2>1. ASSUME NEW kept \in SUBSET DOMAIN h, Closed(h, kept, b) PROVE a \in kept
      <3>1. Closed(h, kept \cup {c}, c)
        BY <2>1 DEF Closed
      <3> QED BY <3>1 DEF Below
    <2> QED BY <1>2, <2>1 DEF Below
  <1> QED BY <1>1, <1>2 DEF Rooted

\* A set of commits that has all predecessors of its members has all their ancestors.
LEMMA BelowClosed ==
  ASSUME NEW h, NEW c, NEW kept, Closed(h, kept, c)
  PROVE  Below(h, c) \subseteq kept
PROOF BY DEF Below, Closed

\* A commit on top of a history leaves what is below the others.
LEMMA BelowGrows ==
  ASSUME NEW h, Rooted(h), NEW top \in DOMAIN h, NEW id, id \notin DOMAIN h, id # NoCommit,
         NEW g, DOMAIN g = DOMAIN h \cup {id}, \A c \in DOMAIN h : g[c] = h[c],
         g[id].before = top
  PROVE  /\ Rooted(g)
         /\ \A c \in DOMAIN h : Below(h, c) \subseteq Below(g, c)
         /\ Below(h, top) \subseteq Below(g, id) /\ id \in Below(g, id)
PROOF
  <1>1. Rooted(g)
    BY DEF Rooted
  <1>2. ASSUME NEW kept \in SUBSET DOMAIN g, NEW c \in DOMAIN h, Closed(g, kept, c)
        PROVE  Below(h, c) \subseteq kept
    <2>1. Closed(h, kept \cap DOMAIN h, c)
      BY <1>2 DEF Closed, Rooted
    <2> QED BY <2>1, BelowClosed
  <1>3. \A c \in DOMAIN h : Below(h, c) \subseteq Below(g, c)
    BY <1>2 DEF Below
  <1>4. ASSUME NEW kept \in SUBSET DOMAIN g, Closed(g, kept, id)
        PROVE  Below(h, top) \subseteq kept
    <2>1. top \in kept
      BY <1>4 DEF Closed, Rooted
    <2>2. Closed(g, kept, top)
      BY <1>4, <2>1 DEF Closed
    <2> QED BY <1>2, <2>2
  <1>5. Below(h, top) \subseteq Below(g, id)
    BY <1>4 DEF Below
  <1> QED BY <1>1, <1>3, <1>5, BelowSelf

(* What the operations of a window do to one whose commits are unique. *)

\* An entry of w is where it was in v, n entries further to the front, or dropped.
Moved(w, v, n, id) ==
  /\ Knows(v, id) <=> Knows(w, id) /\ Position(w, id) > n
  /\ Knows(v, id) => /\ Position(v, id) = Position(w, id) - n
                     /\ Entry(v, id).parent = Entry(w, id).parent
                     /\ Entry(v, id).added = Entry(w, id).added
                     /\ Entry(v, id).removed = Entry(w, id).removed

LEMMA UniquePruned ==
  ASSUME NEW w, WellFormed(w), Unique(w), NEW v, NEW n, Pruned(w, v, n)
  PROVE  Unique(v) /\ \A id : Moved(w, v, n, id)
PROOF
  <1>1. /\ n \in 0 .. Len(w.commits) /\ WellFormed(v) /\ Len(v.commits) = Len(w.commits) - n
        /\ \A i \in 1 .. Len(v.commits) : v.commits[i] = w.commits[i + n]
        /\ \A id : Knows(v, id) <=> Knows(w, id) /\ \A i \in 1 .. n : w.commits[i].id # id
        /\ \A id : Knows(v, id) => Position(v, id) = Position(w, id) - n
    BY DEF Pruned, Shortened
  <1>2. Len(w.commits) \in Nat
    BY DEF WellFormed
  <1>3. \A id : Knows(v, id) <=> Knows(w, id) /\ Position(w, id) > n
    <2> SUFFICES ASSUME NEW id, Knows(w, id)
                 PROVE  (\A i \in 1 .. n : w.commits[i].id # id) <=> Position(w, id) > n
      BY <1>1
    <2>1. Position(w, id) \in 1 .. Len(w.commits) /\ w.commits[Position(w, id)].id = id
      BY Known DEF Entry
    <2>2. \A i \in 1 .. n : w.commits[i].id = id => Position(w, id) = i
      BY <1>1, <1>2 DEF Unique
    <2> QED BY <1>1, <1>2, <2>1, <2>2
  <1>4. \A id : Knows(v, id) => Entry(v, id) = Entry(w, id)
    BY PrunedKeeps
  <1>5. ASSUME NEW i \in 1 .. Len(v.commits) PROVE Position(v, v.commits[i].id) = i
    <2> DEFINE id == v.commits[i].id
    <2>1. i + n \in 1 .. Len(w.commits) /\ id = w.commits[i + n].id
      BY <1>1, <1>2, <1>5
    <2>2. Position(w, id) = i + n
      BY <2>1 DEF Unique
    <2> HIDE DEF id
    <2>3. Knows(w, id) /\ Position(w, id) > n
      BY <1>1, <1>2, <1>5, <2>1, <2>2 DEF Knows
    <2>4. Position(v, id) = i
      BY <1>1, <1>2, <1>3, <2>2, <2>3
    <2> QED BY <2>4 DEF id
  <1> QED BY <1>1, <1>3, <1>4, <1>5 DEF Moved, Unique

LEMMA UniqueExtended ==
  ASSUME NEW w, WellFormed(w), Unique(w), NEW entry, entry.id \notin Ids(w),
         NEW u, Extended(w, u, entry)
  PROVE  Unique(u) /\ \A id : id # entry.id => Moved(w, u, 0, id)
PROOF
  <1>1. /\ WellFormed(u) /\ Len(u.commits) = Len(w.commits) + 1 /\ Len(w.commits) \in Nat
        /\ u.commits[Len(u.commits)] = entry
        /\ \A i \in 1 .. Len(w.commits) : u.commits[i] = w.commits[i]
        /\ Position(u, entry.id) = Len(u.commits)
        /\ \A id : id # entry.id => Position(u, id) = Position(w, id)
    BY DEF Extended, WellFormed
  <1>2. \A i \in 1 .. Len(w.commits) : w.commits[i].id # entry.id
    BY DEF Ids, WellFormed
  <1>3. Unique(u)
    <2> SUFFICES ASSUME NEW i \in 1 .. Len(u.commits) PROVE Position(u, u.commits[i].id) = i
      BY DEF Unique
    <2>1. CASE i = Len(u.commits)
      BY <1>1, <2>1
    <2>2. CASE i \in 1 .. Len(w.commits)
      BY <1>1, <1>2, <2>2 DEF Unique
    <2> QED BY <1>1, <2>1, <2>2
  <1>4. ASSUME NEW id, id # entry.id PROVE Moved(w, u, 0, id)
    <2>1. Position(u, id) = Position(w, id)
      BY <1>1, <1>4
    <2>2. Knows(w, id) => Position(w, id) \in 1 .. Len(w.commits)
      BY Known
    <2>3. Knows(w, id) => Entry(u, id) = Entry(w, id)
      BY <1>1, <2>1, <2>2 DEF Entry
    <2> QED BY <2>1, <2>2, <2>3 DEF Moved, Knows
  <1> QED BY <1>3, <1>4

LEMMA UniqueCounted ==
  ASSUME NEW w, WellFormed(w), Unique(w), NEW id, NEW n, NEW u, Counted(w, u, id, n)
  PROVE  Unique(u) /\ \A c : Moved(w, u, 0, c)
PROOF
  <1>1. /\ Len(u.commits) = Len(w.commits)
        /\ \A i \in 1 .. Len(w.commits) :
             /\ u.commits[i].id = w.commits[i].id /\ u.commits[i].parent = w.commits[i].parent
             /\ u.commits[i].added = w.commits[i].added
             /\ u.commits[i].removed = w.commits[i].removed
        /\ \A c : Position(u, c) = Position(w, c)
    BY DEF Counted
  <1>2. Unique(u)
    BY <1>1 DEF Unique
  <1>3. ASSUME NEW c PROVE Moved(w, u, 0, c)
    <2>1. Knows(w, c) => Position(w, c) \in 1 .. Len(w.commits)
      BY Known
    <2> QED BY <1>1, <2>1 DEF Moved, Knows, Entry
  <1> QED BY <1>2, <1>3

LEMMA MovedTwice ==
  ASSUME NEW w, WellFormed(w), NEW u, NEW v, NEW n \in Nat, NEW id,
         Moved(w, u, 0, id), Moved(u, v, n, id)
  PROVE  Moved(w, v, n, id)
PROOF
  <1>1. Knows(w, id) => Position(w, id) \in Nat /\ Position(w, id) > 0
    BY Known DEF WellFormed
  <1> QED BY <1>1 DEF Moved

LEMMA RegisterUnique ==
  ASSUME NEW w, WellFormed(w), Unique(w), NEW id, NEW parent, NEW added, NEW removed,
         CommitChanges(id, parent, added, removed) \in Entries, id \notin Ids(w),
         NEW v, v = Register(w, id, parent, added, removed)
  PROVE  /\ Unique(v)
         /\ \E n \in Nat : \A c : c # id => Moved(w, v, n, c)
         /\ \A i \in 1 .. Len(v.commits) :
              \/ v.commits[i] = CommitChanges(id, parent, added, removed)
              \/ \E j \in 1 .. Len(w.commits) : v.commits[i] = w.commits[j]
PROOF
  <1> DEFINE entry == CommitChanges(id, parent, added, removed)
  <1>1. PICK u, n : Extended(w, u, entry) /\ Pruned(u, v, n)
    BY RegisterEffect
  <1>2. entry.id = id
    BY DEF CommitChanges
  <1> HIDE DEF entry
  <1>3. WellFormed(u) /\ Unique(u) /\ \A c : c # id => Moved(w, u, 0, c)
    BY <1>1, <1>2, UniqueExtended DEF Extended
  <1>4. Unique(v) /\ \A c : Moved(u, v, n, c)
    BY <1>1, <1>3, UniquePruned
  <1>5. /\ n \in Nat /\ Len(u.commits) = Len(w.commits) + 1 /\ Len(w.commits) \in Nat
        /\ n \in 0 .. Len(u.commits) /\ Len(v.commits) = Len(u.commits) - n
        /\ \A i \in 1 .. Len(v.commits) : v.commits[i] = u.commits[i + n]
        /\ u.commits[Len(u.commits)] = entry
        /\ \A i \in 1 .. Len(w.commits) : u.commits[i] = w.commits[i]
    BY <1>1 DEF Extended, Pruned, Shortened, WellFormed
  <1>6. \A c : c # id => Moved(w, v, n, c)
    BY <1>3, <1>4, <1>5, MovedTwice
  <1>7. ASSUME NEW i \in 1 .. Len(v.commits)
        PROVE  v.commits[i] = entry \/ \E j \in 1 .. Len(w.commits) : v.commits[i] = w.commits[j]
    <2>1. CASE i + n = Len(u.commits)
      BY <1>5, <2>1
    <2>2. CASE i + n # Len(u.commits)
      <3>1. i + n \in 1 .. Len(w.commits)
        BY <1>5, <2>2
      <3> QED BY <1>5, <3>1
    <2> QED BY <2>1, <2>2
  <1> QED BY <1>4, <1>5, <1>6, <1>7 DEF entry

LEMMA OpenUnique ==
  ASSUME NEW w, WellFormed(w), Unique(w), NEW id \in Commits, NEW v, v = Open(w, id)
  PROVE  /\ Unique(v)
         /\ \A c : c # id \/ Knows(w, id) => Moved(w, v, 0, c)
         /\ \A i \in 1 .. Len(v.commits) :
              \/ v.commits[i].id = id /\ v.commits[i].parent = NoCommit
              \/ \E j \in 1 .. Len(w.commits) : /\ v.commits[i].id = w.commits[j].id
                                                /\ v.commits[i].parent = w.commits[j].parent
PROOF
  <1> DEFINE u == Baseline(w, id)
             entry == CommitChanges(id, NoCommit, {}, {})
  <1>0. entry \in Entries /\ entry.id = id /\ entry.parent = NoCommit
    BY DEF CommitChanges, Entries
  <1>1. CASE Knows(w, id)
    <2>1. u = w
      BY <1>1 DEF Baseline
    <2>2. Entry(w, id).active \in Nat
      BY <1>1, Known DEF Entries
    <2>3. Counted(w, v, id, 1)
      BY <1>1, <2>1, <2>2, RetainCounts DEF Open
    <2>4. Unique(v) /\ \A c : Moved(w, v, 0, c)
      BY <2>3, UniqueCounted
    <2>5. \A i \in 1 .. Len(v.commits) : /\ i \in 1 .. Len(w.commits)
                                         /\ v.commits[i].id = w.commits[i].id
                                         /\ v.commits[i].parent = w.commits[i].parent
      BY <2>3 DEF Counted
    <2> QED BY <2>4, <2>5
  <1>2. CASE ~Knows(w, id)
    <2>1. u = PushBack(w, entry)
      BY <1>2 DEF Baseline
    <2> HIDE DEF entry, u
    <2>2. Extended(w, u, entry)
      BY <1>0, <2>1, PushBackExtends
    <2>3. id \notin Ids(w)
      BY <1>2 DEF Ids, Unique, Knows, WellFormed
    <2>4. WellFormed(u) /\ Knows(u, id) /\ Unique(u) /\ \A c : c # id => Moved(w, u, 0, c)
      BY <1>0, <2>2, <2>3, UniqueExtended DEF Extended
    <2>5. Entry(u, id).active \in Nat
      BY <2>4, Known DEF Entries
    <2>6. Counted(u, v, id, 1)
      BY <2>4, <2>5, RetainCounts DEF Open, u
    <2>7. Unique(v) /\ \A c : Moved(u, v, 0, c)
      BY <2>4, <2>6, UniqueCounted
    <2>8. \A c : c # id => Moved(w, v, 0, c)
      BY <2>4, <2>7, MovedTwice
    <2>9. ASSUME NEW i \in 1 .. Len(v.commits)
          PROVE  \/ v.commits[i].id = id /\ v.commits[i].parent = NoCommit
                 \/ \E j \in 1 .. Len(w.commits) : /\ v.commits[i].id = w.commits[j].id
                                                   /\ v.commits[i].parent = w.commits[j].parent
      <3>1. /\ Len(v.commits) = Len(w.commits) + 1 /\ Len(w.commits) \in Nat
            /\ v.commits[i].id = u.commits[i].id /\ v.commits[i].parent = u.commits[i].parent
            /\ u.commits[Len(w.commits) + 1] = entry
            /\ \A j \in 1 .. Len(w.commits) : u.commits[j] = w.commits[j]
        <4>0. Len(w.commits) \in Nat
          BY DEF WellFormed
        <4>1. /\ Len(u.commits) = Len(w.commits) + 1
              /\ u.commits[Len(u.commits)] = entry
              /\ \A j \in 1 .. Len(w.commits) : u.commits[j] = w.commits[j]
          BY <2>2 DEF Extended
        <4>2. /\ Len(v.commits) = Len(u.commits)
              /\ \A j \in 1 .. Len(u.commits) : /\ v.commits[j].id = u.commits[j].id
                                                /\ v.commits[j].parent = u.commits[j].parent
          BY <2>6 DEF Counted
        <4> QED BY <2>9, <4>0, <4>1, <4>2
      <3>2. CASE i = Len(w.commits) + 1
        BY <1>0, <3>1, <3>2
      <3>3. CASE i # Len(w.commits) + 1
        BY <3>1, <3>3
      <3> QED BY <3>2, <3>3
    <2> QED BY <1>2, <2>7, <2>8, <2>9
  <1> QED BY <1>1, <1>2

LEMMA CloseUnique ==
  ASSUME NEW w, WellFormed(w), Unique(w), NEW id, MayClose(w, id), NEW v, v = Close(w, id)
  PROVE  /\ Unique(v)
         /\ \E n \in Nat : \A c : Moved(w, v, n, c)
         /\ \A i \in 1 .. Len(v.commits) :
              \E j \in 1 .. Len(w.commits) : /\ v.commits[i].id = w.commits[j].id
                                             /\ v.commits[i].parent = w.commits[j].parent
PROOF
  <1>1. PICK u, n : Counted(w, u, id, -1) /\ Pruned(u, v, n)
    BY CloseEffect
  <1>2. WellFormed(u) /\ Unique(u) /\ \A c : Moved(w, u, 0, c)
    BY <1>1, UniqueCounted, ZenonT(30) DEF Counted
  <1>3. Unique(v) /\ \A c : Moved(u, v, n, c)
    BY <1>1, <1>2, UniquePruned
  <1>4. /\ n \in 0 .. Len(w.commits) /\ Len(v.commits) = Len(w.commits) - n
        /\ Len(w.commits) \in Nat
        /\ \A i \in 1 .. Len(v.commits) : v.commits[i] = u.commits[i + n]
        /\ \A i \in 1 .. Len(w.commits) : /\ u.commits[i].id = w.commits[i].id
                                          /\ u.commits[i].parent = w.commits[i].parent
    BY <1>1 DEF Counted, Pruned, Shortened, WellFormed
  <1>5. \A i \in 1 .. Len(v.commits) : i + n \in 1 .. Len(w.commits)
    BY <1>4
  <1>6. \A i \in 1 .. Len(v.commits) :
          \E j \in 1 .. Len(w.commits) : /\ v.commits[i].id = w.commits[j].id
                                         /\ v.commits[i].parent = w.commits[j].parent
    BY <1>4, <1>5
  <1>8. n \in Nat
    BY <1>4
  <1>7. \A c : Moved(w, v, n, c)
    BY <1>2, <1>3, <1>8, MovedTwice
  <1> QED BY <1>3, <1>6, <1>7, <1>8

\* The predecessor of an ancestor is an ancestor.
LEMMA BelowBelow ==
  ASSUME NEW h, Rooted(h), NEW c, NEW a \in Below(h, c), h[a].before \in DOMAIN h
  PROVE  h[a].before \in Below(h, c)
PROOF BY DEF Below, Closed, Rooted

(* A window that follows the branch. *)

LEMMA LineIsRooted == Types /\ Line => Rooted(history)
PROOF BY CommitAssumption DEF Types, Line, Rooted, Commits

\* Above a commit that the window knows it knows all, in order, with what they change.
LEMMA Contiguous ==
  ASSUME Types, WellFormed(window), Line, Follows,
         NEW c \in DOMAIN history, NEW a \in Below(history, c), a # c, Knows(window, a)
  PROVE  /\ c # Root /\ history[c].before \in DOMAIN history
         /\ a \in Below(history, history[c].before)
         /\ Knows(window, c) /\ Knows(window, history[c].before)
         /\ Position(window, a) <= Position(window, history[c].before)
         /\ Position(window, history[c].before) < Position(window, c)
         /\ Tells(Entry(window, c), history[c])
PROOF
  <1> DEFINE b == history[c].before
             unknown == {x \in DOMAIN history : ~Knows(window, x)}
             lower == {x \in DOMAIN history :
                         Knows(window, x) => Position(window, x) <= Position(window, b)}
  <1>1. b \in DOMAIN history /\ a \in Below(history, b)
    BY LineIsRooted, BelowPredecessor
  <1>2. c # Root
    BY <1>1, LineIsRooted DEF Line, Rooted
  <1>3. Knows(window, b)
    <2>1. SUFFICES ASSUME ~Knows(window, b) PROVE FALSE
      OBVIOUS
    <2>2. Closed(history, unknown, b)
      <3>1. ASSUME NEW x \in unknown PROVE history[x].before \in unknown \cup {NoCommit}
        BY <3>1 DEF Line, Follows
      <3> QED BY <1>1, <2>1, <3>1 DEF Closed
    <2>3. a \in unknown
      BY <1>1, <2>2, BelowClosed
    <2> QED BY <2>3
  <1>4. /\ Knows(window, c) /\ Position(window, b) < Position(window, c)
        /\ Tells(Entry(window, c), history[c])
    BY <1>2, <1>3 DEF Follows
  <1>5. \A x : Knows(window, x) => Position(window, x) \in Nat
    BY Known DEF WellFormed
  <1>6. Position(window, a) <= Position(window, b)
    <2>1. Closed(history, lower, b)
      <3>1. ASSUME NEW x \in lower PROVE history[x].before \in lower \cup {NoCommit}
        <4>1. CASE x = Root
          BY <4>1 DEF Line
        <4>2. CASE x # Root
          <5> DEFINE y == history[x].before
          <5>1. y \in DOMAIN history
            BY <3>1, <4>2 DEF Line
          <5>2. Knows(window, y) => Knows(window, x) /\ Position(window, y) < Position(window, x)
            BY <3>1, <4>2 DEF Follows
          <5>3. Knows(window, x) => Position(window, x) <= Position(window, b)
            BY <3>1
          <5> HIDE DEF y
          <5>4. Knows(window, y) => Position(window, y) <= Position(window, b)
            BY <1>3, <1>5, <5>2, <5>3
          <5> QED BY <5>1, <5>4 DEF y
        <4> QED BY <4>1, <4>2
      <3>2. b \in lower
        BY <1>1, <1>3, <1>5
      <3> QED BY <3>1, <3>2 DEF Closed
    <2>2. a \in lower
      BY <1>1, <2>1, BelowClosed
    <2> QED BY <2>2
  <1> QED BY <1>1, <1>2, <1>3, <1>4, <1>6

LEMMA FollowsIsContiguous ==
  ASSUME Types, WellFormed(window), OnlyWrites => Line /\ Follows
  PROVE  HistoryIsContiguous
PROOF
  <1> SUFFICES ASSUME OnlyWrites, NEW a \in AncestorsOf(head), NEW c \in AncestorsOf(head),
                      a # c, a \in AncestorsOf(c), Knows(window, a), Knows(window, c)
               PROVE  /\ Knows(window, history[c].before)
                      /\ Position(window, history[c].before) < Position(window, c)
                      /\ Complete(c)
    BY DEF HistoryIsContiguous
  <1>1. c \in DOMAIN history /\ a \in Below(history, c) /\ history[c].docs = Docs(c)
    BY AncestorsAreBelow DEF Below, Docs
  <1>2. /\ Knows(window, history[c].before) /\ Tells(Entry(window, c), history[c])
        /\ Position(window, history[c].before) < Position(window, c)
    BY <1>1, Contiguous
  <1> QED BY <1>1, <1>2 DEF Complete, Tells, Entry

\* The walk from a commit down to one of its ancestors passes all changes between the two.
LEMMA WalkFinds ==
  ASSUME Types, WellFormed(window), Line, Follows,
         NEW current \in DOMAIN history, NEW old \in Below(history, current),
         Knows(window, current), NEW exist, NEW absent,
         ~Intersects(window, old, current, exist, absent)
  PROVE  absent \cap Docs(current) \subseteq Docs(old) /\ exist \cap Docs(old) \subseteq Docs(current)
PROOF
  <1> DEFINE Same(c) == absent \cap Docs(c) \subseteq Docs(old) /\ exist \cap Docs(old) \subseteq Docs(c)
             others == {c \in Below(history, current) : old \in Below(history, c) /\ ~Same(c)}
  <1> SUFFICES ASSUME old # current, ~Same(current) PROVE FALSE
    OBVIOUS
  <1>1. /\ current \in DOMAIN window.index /\ ~ReachesFront(window, old, current)
        /\ \A i \in Walked(window, old, current) : ~Conflicting(window.commits[i], exist, absent)
    BY Known DEF Intersects
  <1>2. /\ Knows(window, old) /\ Stop(window, old, current) = Position(window, old)
    BY <1>1, Known DEF ReachesFront, Stop
  <1>3. \A x : Knows(window, x) => Position(window, x) \in Nat
    BY Known DEF WellFormed
  <1>4. ASSUME NEW c \in others
        PROVE  history[c].before \in others
    <2> DEFINE b == history[c].before
    <2>1. c \in DOMAIN history /\ c \in Below(history, current) /\ old \in Below(history, c)
          /\ c # old
      BY <1>4 DEF Below
    <2>2. /\ b \in DOMAIN history /\ old \in Below(history, b) /\ Knows(window, c)
          /\ Knows(window, b)
          /\ Position(window, old) <= Position(window, b)
          /\ Position(window, b) < Position(window, c)
          /\ Tells(Entry(window, c), history[c])
      BY <1>2, <2>1, Contiguous
    <2>3. Position(window, c) <= Position(window, current)
      <3>1. CASE c = current
        BY <1>3, <2>2, <3>1
      <3>2. CASE c # current
        <4> DEFINE d == history[current].before
        <4>1. /\ Knows(window, d) /\ Knows(window, current)
              /\ Position(window, c) <= Position(window, d)
              /\ Position(window, d) < Position(window, current)
          BY <2>1, <2>2, <3>2, Contiguous
        <4> HIDE DEF d
        <4> QED BY <1>3, <2>2, <4>1
      <3> QED BY <3>1, <3>2
    <2> HIDE DEF b
    <2>4. Position(window, c) \in Walked(window, old, current)
      BY <1>2, <1>3, <2>2, <2>3 DEF Walked
    <2>5. ~Conflicting(Entry(window, c), exist, absent)
      BY <1>1, <2>4 DEF Entry
    <2>6. /\ Docs(c) \ Docs(b) \subseteq Entry(window, c).added
          /\ Docs(b) \ Docs(c) \subseteq Entry(window, c).removed
      BY <2>2 DEF Tells, Docs, b
    <2>7. ~Same(b)
      BY <1>4, <2>5, <2>6 DEF Conflicting
    <2>8. b \in Below(history, current)
      BY <2>1, <2>2, LineIsRooted, BelowBelow DEF b
    <2> QED BY <2>2, <2>7, <2>8 DEF b
  <1>5. Closed(history, others, current)
    <2>1. current \in others
      BY BelowSelf
    <2> QED BY <1>4, <2>1 DEF Closed, Below
  <1>6. old \in others
    BY <1>5, BelowClosed
  <1> QED BY <1>6

(* Each step keeps the window following the branch. *)

LEMMA LineGrows ==
  ASSUME Types, Line, NEW content \in Contents, content.id \in CommitIds \ DOMAIN history,
         content.before = head, MoveHead(content)
  PROVE  Line'
PROOF
  <1> DEFINE id == content.id
  <1>1. /\ head' = id /\ DOMAIN history' = DOMAIN history \cup {id}
        /\ history'[id] = content /\ \A c \in DOMAIN history : history'[c] = history[c]
    BY DEF MoveHead
  <1>2. /\ Rooted(history) /\ head \in DOMAIN history /\ head # id
        /\ id \notin DOMAIN history /\ id # NoCommit /\ id # Root
    BY LineIsRooted, CommitAssumption DEF Types, Commits
  <1>3. /\ \A c \in DOMAIN history : Below(history, c) \subseteq Below(history', c)
        /\ Below(history, head) \subseteq Below(history', id) /\ id \in Below(history', id)
    BY <1>1, <1>2, BelowGrows
  <1>4. \A c \in DOMAIN history : c \in Below(history, head) /\ Root \in Below(history, c)
    BY AncestorsAreBelow DEF Line
  <1>5. \A c \in DOMAIN history' : c \in Below(history', id) /\ Root \in Below(history', c)
    BY <1>1, <1>2, <1>3, <1>4 DEF Line
  <1>6. \A c \in DOMAIN history' : c \in AncestorsOf(head)' /\ Root \in AncestorsOf(c)'
    <2>1. \A c : AncestorsOf(c)' = Below(history', c)
      BY AncestorsAreBelow
    <2>2. AncestorsOf(head)' = Below(history', head')
      BY DEF AncestorsOf, Below, Closed
    <2> QED BY <1>1, <1>5, <2>1, <2>2
  <1>7. \A c \in DOMAIN history' : history'[c].before # head'
    BY <1>1, <1>2 DEF Line, Rooted
  <1> QED BY <1>1, <1>2, <1>6, <1>7 DEF Line

\* The same entry tells the same, as long as the commits it tells of are the same.
LEMMA TellsStays ==
  ASSUME NEW old, NEW new, NEW content, Tells(old, content), rootIsInitial' = rootIsInitial,
         history'[content.before] = history[content.before],
         new.parent = old.parent, new.added = old.added, new.removed = old.removed
  PROVE  Tells(new, content)'
PROOF
  <1>1. Docs(content.before)' = Docs(content.before) /\ AsParent(content.before)' = AsParent(content.before)
    BY DEF Docs, AsParent
  <1> QED BY <1>1 DEF Tells

\* The window changes, the branch does not.
LEMMA ShapeMoves ==
  ASSUME Types, WellFormed(window), Shape, UNCHANGED repoVars, Unique(window'), NEW n \in Nat,
         \A c \in DOMAIN history : c # head \/ Knows(window, head) => Moved(window, window', n, c),
         \A i \in 1 .. Len(window'.commits) :
           /\ window'.commits[i].parent \in DOMAIN history \cup {NoCommit}
           /\ window'.commits[i].parent = NoCommit =>
                rootIsInitial \/ window'.commits[i].id \in DOMAIN history
  PROVE  Shape'
PROOF
  <1>1. history' = history /\ head' = head /\ rootIsInitial' = rootIsInitial
    BY DEF repoVars
  <1>2. Line'
    <2>1. \A c : AncestorsOf(c)' = AncestorsOf(c)
      BY <1>1, AncestorsAreBelow
    <2>2. AncestorsOf(head)' = AncestorsOf(head)
      BY <1>1 DEF AncestorsOf
    <2> QED BY <1>1, <2>1, <2>2 DEF Shape, Line
  <1>3. Follows'
    <2> SUFFICES ASSUME NEW c \in DOMAIN history \ {Root}, Knows(window', history[c].before)
                 PROVE  /\ Knows(window', c)
                        /\ Position(window', history[c].before) < Position(window', c)
                        /\ Tells(Entry(window, c), history[c])'
      BY <1>1 DEF Follows
    <2> DEFINE b == history[c].before
    <2>1. b \in DOMAIN history /\ b # head
      BY DEF Shape, Line
    <2>2. Moved(window, window', n, b)
      BY <2>1
    <2>3. Knows(window, b) /\ Position(window, b) > n /\ Position(window', b) = Position(window, b) - n
      BY <2>2 DEF Moved
    <2>4. /\ Knows(window, c) /\ Position(window, b) < Position(window, c)
          /\ Tells(Entry(window, c), history[c])
      BY <2>3 DEF Shape, Follows
    <2>5. Moved(window, window', n, c)
      BY <2>4
    <2>6. Position(window, b) \in Nat /\ Position(window, c) \in Nat
      BY <2>3, <2>4, Known DEF WellFormed
    <2> HIDE DEF b
    <2>7. /\ Knows(window', c) /\ Position(window', c) = Position(window, c) - n
          /\ Entry(window', c).parent = Entry(window, c).parent
          /\ Entry(window', c).added = Entry(window, c).added
          /\ Entry(window', c).removed = Entry(window, c).removed
      BY <2>3, <2>4, <2>5, <2>6 DEF Moved
    <2>8. Position(window', b) < Position(window', c)
      BY <2>3, <2>4, <2>6, <2>7
    <2>9. Tells(Entry(window, c), history[c])'
      <3>1. ASSUME NEW old, NEW new, NEW content, Tells(old, content),
                   new.parent = old.parent, new.added = old.added, new.removed = old.removed
            PROVE  Tells(new, content)'
        BY <1>1, <3>1, TellsStays
      <3>2. PICK new, content : new = Entry(window', c) /\ content = history[c]
        OBVIOUS
      <3>3. Tells(new, content)'
        BY <2>4, <2>7, <3>1, <3>2
      <3>4. new = Entry(window', c) /\ content = history'[c]
        BY <1>1, <3>2
      <3> QED BY <3>3, <3>4 DEF Tells
    <2> QED BY <2>7, <2>8, <2>9 DEF b
  <1>4. OfBranch'
    BY <1>1 DEF OfBranch
  <1> QED BY <1>2, <1>3, <1>4 DEF Shape

\* The branch grows by a commit whose entry is the last one of the window.
LEMMA ShapeGrows ==
  ASSUME Types, WellFormed(window), Shape, UNCHANGED window, NEW content \in Contents,
         content.id \in CommitIds \ DOMAIN history, content.before = head, MoveHead(content),
         Knows(window, content.id), Position(window, content.id) = Len(window.commits),
         Tells(Entry(window, content.id), content)
  PROVE  Shape'
PROOF
  <1> DEFINE id == content.id
  <1>1. /\ head' = id /\ DOMAIN history' = DOMAIN history \cup {id}
        /\ history'[id] = content /\ \A c \in DOMAIN history : history'[c] = history[c]
        /\ rootIsInitial' = rootIsInitial /\ window' = window
    BY DEF MoveHead
  <1>2. head \in DOMAIN history /\ head # id /\ Line
    BY DEF Types, Shape
  <1>3. Line'
    BY <1>2, LineGrows
  <1>4. ASSUME NEW c \in DOMAIN history, c # Root, Knows(window, history[c].before)
        PROVE  /\ Knows(window, c) /\ Position(window, history[c].before) < Position(window, c)
               /\ Tells(Entry(window, c), history[c])'
    <2>1. /\ Knows(window, c) /\ Position(window, history[c].before) < Position(window, c)
          /\ Tells(Entry(window, c), history[c])
      BY <1>4 DEF Shape, Follows
    <2>2. history[c].before \in DOMAIN history
      BY <1>2, <1>4 DEF Line
    <2>3. PICK old, was : old = Entry(window, c) /\ was = history[c]
      OBVIOUS
    <2>4. Tells(old, was)'
      BY <1>1, <2>1, <2>2, <2>3, TellsStays
    <2>5. Entry(window', c) = old /\ history'[c] = was
      BY <1>1, <2>3
    <2>6. Tells(Entry(window, c), history[c])'
      BY <2>4, <2>5 DEF Tells
    <2> QED BY <2>1, <2>6
  <1>5. ASSUME Knows(window, head)
        PROVE  /\ Position(window, head) < Position(window, id)
               /\ Tells(Entry(window, id), content)'
    <2>1. /\ Position(window, head) \in 1 .. Len(window.commits) /\ Entry(window, head).id = head
          /\ Entry(window, id).id = id /\ Len(window.commits) \in Nat
      BY <1>5, Known, SMTT(30) DEF WellFormed
    <2>2. Position(window, head) # Position(window, id)
      BY <1>2, <2>1 DEF Entry
    <2>3. PICK old : old = Entry(window, id)
      OBVIOUS
    <2>4. Tells(old, content)'
      BY <1>1, <1>2, <2>3, TellsStays
    <2>5. Tells(Entry(window, id), content)'
      BY <1>1, <2>3, <2>4 DEF Tells
    <2> QED BY <2>1, <2>2, <2>5
  <1>6. Follows'
    <2> SUFFICES ASSUME NEW c \in DOMAIN history' \ {Root}, Knows(window', history'[c].before)
                 PROVE  /\ Knows(window', c)
                        /\ Position(window', history'[c].before) < Position(window', c)
                        /\ Tells(Entry(window, c), history[c])'
      BY DEF Follows
    <2>1. CASE c = id
      <3>1. Knows(window, head) /\ history'[c] = content
        BY <1>1, <2>1
      <3>2. Tells(Entry(window, c), history[c])'
        BY <1>1, <1>5, <2>1, <3>1 DEF Tells
      <3> QED BY <1>1, <1>5, <2>1, <3>1, <3>2
    <2>2. CASE c # id
      BY <1>1, <1>4, <2>2
    <2> QED BY <2>1, <2>2
  <1>7. Unique(window')
    BY <1>1 DEF Shape
  <1>8. OfBranch'
    BY <1>1 DEF Shape, OfBranch
  <1> QED BY <1>3, <1>6, <1>7, <1>8 DEF Shape

LEMMA ShapeStays ==
  ASSUME Shape, UNCHANGED <<repoVars, window>>
  PROVE  Shape'
PROOF
  <1>1. history' = history /\ head' = head /\ rootIsInitial' = rootIsInitial /\ window' = window
    BY DEF repoVars
  <1>2. Line'
    <2>1. AncestorsOf(head)' = AncestorsOf(head) /\ \A c : AncestorsOf(c)' = AncestorsOf(c)
      BY <1>1 DEF AncestorsOf
    <2> QED BY <1>1, <2>1 DEF Shape, Line
  <1>3. Follows'
    BY <1>1 DEF Shape, Follows, Tells, Docs, AsParent
  <1> QED BY <1>1, <1>2, <1>3 DEF Shape, OfBranch

LEMMA ShapeRegisters ==
  ASSUME Types, WellFormed(window), Shape, UNCHANGED repoVars, NEW parent \in DOMAIN history,
         NEW id \in CommitIds, id \notin DOMAIN history \cup Ids(window), NEW added, NEW removed,
         CommitChanges(id, AsParent(parent), added, removed) \in Entries,
         window' = Register(window, id, AsParent(parent), added, removed)
  PROVE  Shape'
PROOF
  <1> DEFINE entry == CommitChanges(id, AsParent(parent), added, removed)
  <1>1. /\ entry.parent \in DOMAIN history \cup {NoCommit}
        /\ entry.parent = NoCommit => rootIsInitial
    BY CommitAssumption DEF CommitChanges, AsParent, Types, Commits
  <1>2. PICK n \in Nat : \A c : c # id => Moved(window, window', n, c)
    BY RegisterUnique DEF Shape
  <1>3. /\ Unique(window')
        /\ \A i \in 1 .. Len(window'.commits) :
             \/ window'.commits[i] = entry
             \/ \E j \in 1 .. Len(window.commits) : window'.commits[i] = window.commits[j]
    BY RegisterUnique DEF Shape
  <1> HIDE DEF entry
  <1>4. \A i \in 1 .. Len(window'.commits) :
          /\ window'.commits[i].parent \in DOMAIN history \cup {NoCommit}
          /\ window'.commits[i].parent = NoCommit =>
               rootIsInitial \/ window'.commits[i].id \in DOMAIN history
    BY <1>1, <1>3 DEF Shape, OfBranch
  <1> QED BY <1>2, <1>3, <1>4, ShapeMoves

LEMMA PreparedStays ==
  ASSUME Types, Prepared, UNCHANGED <<repoVars, window>>, Places,
         \A c \in Clients : pc'[c] = "registered" =>
           pc[c] = "registered" /\ made'[c] = made[c] /\ base'[c] = base[c]
  PROVE  Prepared'
PROOF
  <1>1. history' = history /\ rootIsInitial' = rootIsInitial /\ window' = window
    BY DEF repoVars
  <1> SUFFICES ASSUME NEW c \in Clients, pc'[c] = "registered"
               PROVE  /\ made'[c].id \in CommitIds \ DOMAIN history' /\ made'[c].before = base'[c]
                      /\ Knows(window', made'[c].id)
                      /\ Position(window', made'[c].id) = Len(window'.commits)
                      /\ Tells(Entry(window, made[c].id), made[c])'
    BY DEF Prepared
  <1>2. pc[c] = "registered" /\ made'[c] = made[c] /\ base'[c] = base[c]
    OBVIOUS
  <1>3. Tells(Entry(window, made[c].id), made[c])
    BY <1>2 DEF Prepared
  <1>4. Tells(Entry(window, made[c].id), made[c])'
    BY <1>1, <1>2, <1>3 DEF Tells, Docs, AsParent
  <1> QED BY <1>1, <1>2, <1>4 DEF Prepared

LEMMA VerifiedStays ==
  ASSUME Places, Verified, \A c \in DOMAIN history : history'[c] = history[c],
         \A r \in Requests : pc'[r] = "verified" =>
           pc[r] = "verified" /\ base'[r] = base[r] /\ pre'[r] = pre[r]
  PROVE  Verified'
PROOF
  <1> SUFFICES ASSUME NEW r \in Requests, pc'[r] = "verified"
               PROVE  /\ MustNotExist(r) \cap Docs(base[r])' \subseteq Docs(pre[r])'
                      /\ MustExist(r) \cap Docs(pre[r])' \subseteq Docs(base[r])'
                      /\ Schema(pre[r])' = Schema(base[r])'
    BY DEF Verified, MustNotExist, MustExist
  <1>1. /\ pc[r] = "verified" /\ base'[r] = base[r] /\ pre'[r] = pre[r]
        /\ base[r] \in DOMAIN history /\ pre[r] \in DOMAIN history
    BY DEF Places, Holding, Clients
  <1>2. /\ Docs(base[r])' = Docs(base[r]) /\ Docs(pre[r])' = Docs(pre[r])
        /\ Schema(base[r])' = Schema(base[r]) /\ Schema(pre[r])' = Schema(pre[r])
    BY <1>1 DEF Docs, Schema
  <1> QED BY <1>1, <1>2 DEF Verified

\* The entry that is registered tells of the commit that is made.
LEMMA RegisteredIsPrepared ==
  ASSUME GuardInv, NEW c \in Clients, NEW content, NEW added, NEW removed, UNCHANGED repoVars,
         base[c] \in DOMAIN history, base' = base, content.before = base[c],
         content.id \in CommitIds \ DOMAIN history,
         content.docs \ Docs(base[c]) \subseteq added, Docs(base[c]) \ content.docs \subseteq removed,
         CommitChanges(content.id, AsParent(base[c]), added, removed) \in Entries,
         RegisterCommit(c, content, added, removed),
         \A d \in Clients : d # c => pc[d] # "registered"
  PROVE  Prepared'
PROOF
  <1> DEFINE entry == CommitChanges(content.id, AsParent(base[c]), added, removed)
  <1>0. /\ window' = Register(window, content.id, AsParent(base[c]), added, removed)
        /\ made' = [made EXCEPT ![c] = content] /\ pc' = [pc EXCEPT ![c] = "registered"]
    BY DEF RegisterCommit, Goto
  <1>1. /\ Knows(window', content.id) /\ Position(window', content.id) = Len(window'.commits)
        /\ Entry(window', content.id) = entry
    BY <1>0, RegisterKeeps DEF GuardInv
  <1>2. /\ made'[c] = content /\ \A d \in Clients : pc'[d] = "registered" => d = c
    BY <1>0 DEF GuardInv, Types
  <1>3. history' = history /\ rootIsInitial' = rootIsInitial /\ base'[c] = base[c]
    BY DEF repoVars
  <1>4. Tells(Entry(window, made[c].id), made[c])'
    <2>1. /\ entry.added = added /\ entry.removed = removed /\ entry.parent = AsParent(base[c])
      BY DEF CommitChanges
    <2> HIDE DEF entry
    <2>2. Entry(window', made'[c].id) = entry
      BY <1>1, <1>2
    <2> QED BY <1>2, <1>3, <2>1, <2>2 DEF Tells, Docs, AsParent
  <1> QED BY <1>1, <1>2, <1>3, <1>4 DEF Prepared

LEMMA RequestBranch ==
  ASSUME GuardInv, Shape, AtHead, Prepared, Verified, NEW r \in Requests, RequestStep(r)
  PROVE  Shape' /\ AtHead' /\ Prepared' /\ Verified'
PROOF
  <1> USE DEF GuardInv
  <1>0. /\ r \in Clients /\ Requests \subseteq Clients /\ pc \in [Clients -> Locations]
        /\ pre \in [Requests -> DOMAIN history \cup {NoCommit}]
        /\ base \in [Clients -> DOMAIN history \cup {NoCommit}]
        /\ guard \in [Requests -> DOMAIN history \cup {NoCommit}]
        /\ made \in [Clients -> Contents \cup {NoContent}]
    BY DEF Clients, Types
  <1>00. /\ lock = Nobody => \A d \in Clients : pc[d] \notin Holding
         /\ pc[r] \in Holding => \A d \in Clients : d # r => pc[d] \notin Holding
    BY <1>0, OneHolder
  \* The steps that leave the branch and the window alone, and make no commit.
  <1>1. ASSUME UNCHANGED <<repoVars, window>>, NEW location, pc' = [pc EXCEPT ![r] = location],
               location # "registered", \A d \in Clients : d # r => base'[d] = base[d] /\ made'[d] = made[d],
               \A q \in Requests : q # r => pre'[q] = pre[q] /\ guard'[q] = guard[q],
               location \in Holding \ {"closing"} => base'[r] = head,
               location = "opened" => guard'[r] = base'[r],
               location = "verified" =>
                 /\ base'[r] = base[r] /\ pre'[r] = pre[r]
                 /\ MustNotExist(r) \cap Docs(base[r]) \subseteq Docs(pre[r])
                 /\ MustExist(r) \cap Docs(pre[r]) \subseteq Docs(base[r])
                 /\ Schema(pre[r]) = Schema(base[r])
        PROVE  Shape' /\ AtHead' /\ Prepared' /\ Verified'
    <2>1. history' = history /\ head' = head
      BY <1>1 DEF repoVars
    <2>2. Shape'
      BY <1>1, ShapeStays
    <2>3. AtHead'
      BY <1>0, <1>1, <2>1 DEF AtHead
    <2>4. Prepared'
      BY <1>0, <1>1, PreparedStays
    <2>5. Verified'
      BY <1>0, <1>1, <2>1 DEF Verified, Docs, Schema, MustNotExist, MustExist
    <2> QED BY <2>2, <2>3, <2>4, <2>5
  <1>2. CASE Elaborate(r)
    BY <1>0, <1>1, <1>2 DEF Elaborate, Goto, Holding
  <1>3. CASE Begin(r)
    BY <1>0, <1>1, <1>3 DEF Begin, Goto
  <1>4. CASE Reelaborate(r)
    BY <1>0, <1>1, <1>4 DEF Reelaborate, Goto
  <1>5. CASE NoCommitMade(r)
    BY <1>0, <1>1, <1>5 DEF NoCommitMade, Goto
  <1>6. CASE RequestFails(r)
    BY <1>0, <1>1, <1>6 DEF RequestFails, Goto
  <1>7. CASE Verify(r)
    <2>1. /\ pc[r] = "opened" /\ base[r] = head /\ guard[r] = base[r]
          /\ base[r] \in DOMAIN history /\ pre[r] \in DOMAIN history
      BY <1>0, <1>7 DEF Verify, AtHead, Places, Holding
    <2>2. Knows(window, base[r])
      <3>1. guard[r] # NoCommit
        BY <2>1, CommitAssumption DEF Types, Commits
      <3> QED BY <2>1, <3>1 DEF GuardsCanClose, MayClose
    <2>3. pre[r] \in Below(history, base[r])
      BY <2>1, AncestorsAreBelow DEF Shape, Line
    <2>4. ~Intersects(window, pre[r], base[r], MustExist(r), MustNotExist(r)) =>
            /\ MustNotExist(r) \cap Docs(base[r]) \subseteq Docs(pre[r])
            /\ MustExist(r) \cap Docs(pre[r]) \subseteq Docs(base[r])
      BY <2>1, <2>2, <2>3, WalkFinds DEF Shape
    <2> DEFINE location == IF SchemaChanged(r) THEN "closing"
                           ELSE IF Intersects(window, pre[r], base[r], MustExist(r), MustNotExist(r))
                           THEN "conflict" ELSE "verified"
    <2>5. /\ pc' = [pc EXCEPT ![r] = location]
          /\ UNCHANGED <<repoVars, window, lock, pre, base, guard, made>>
      BY <1>7 DEF Verify, Goto
    <2>6. location = "verified" =>
            /\ Schema(pre[r]) = Schema(base[r])
            /\ ~Intersects(window, pre[r], base[r], MustExist(r), MustNotExist(r))
      BY DEF SchemaChanged
    <2>7. location \in {"closing", "conflict", "verified"}
      OBVIOUS
    <2> HIDE DEF location
    <2> QED BY <1>1, <2>1, <2>4, <2>5, <2>6, <2>7
  <1>8. CASE OpenWindow(r)
    <2>1. pc[r] = "begun" /\ base[r] = head /\ base[r] \in DOMAIN history /\ base[r] \in Commits
      BY <1>0, <1>8 DEF OpenWindow, AtHead, Places, Holding, Types
    <2>2. /\ UNCHANGED repoVars /\ UNCHANGED <<pre, base, made>> /\ guard' = [guard EXCEPT ![r] = base[r]]
          /\ pc' = [pc EXCEPT ![r] = "opened"] /\ history' = history /\ head' = head
      BY <1>8 DEF OpenWindow, Goto, repoVars
    <2>3. /\ Unique(window')
          /\ \A c : c # head \/ Knows(window, head) => Moved(window, window', 0, c)
          /\ \A i \in 1 .. Len(window'.commits) :
               \/ window'.commits[i].id = head /\ window'.commits[i].parent = NoCommit
               \/ \E j \in 1 .. Len(window.commits) :
                    /\ window'.commits[i].id = window.commits[j].id
                    /\ window'.commits[i].parent = window.commits[j].parent
      BY <1>8, <2>1, OpenUnique DEF OpenWindow, Shape
    <2>4. \A i \in 1 .. Len(window'.commits) :
            /\ window'.commits[i].parent \in DOMAIN history \cup {NoCommit}
            /\ window'.commits[i].parent = NoCommit =>
                 rootIsInitial \/ window'.commits[i].id \in DOMAIN history
      BY <2>1, <2>3 DEF Shape, OfBranch
    <2>5. Shape'
      BY <2>2, <2>3, <2>4, ShapeMoves
    <2>6. AtHead'
      BY <1>0, <2>1, <2>2 DEF AtHead
    <2>7. \A c \in Clients : pc'[c] # "registered"
      BY <1>0, <1>00, <2>1, <2>2 DEF Holding
    <2>8. Verified'
      BY <1>0, <2>2, VerifiedStays
    <2> QED BY <2>5, <2>6, <2>7, <2>8 DEF Prepared
  <1>9. CASE ApplyAndRegister(r)
    <2>1. /\ pc[r] \in Holding /\ pc[r] # "registered" /\ base[r] = head
          /\ base[r] \in DOMAIN history /\ base[r] \in Commits
      BY <1>0, <1>9 DEF ApplyAndRegister, AtHead, Places, Holding, Types
    <2> DEFINE docs == Docs(base[r]) \cup IdsOf[r] \cup CreatesOf[r]
               added == IdsOf[r] \cup (CreatesOf[r] \ Docs(base[r]))
               removed == IdsOf[r] \cap Docs(base[r])
               content(id) == Content(id, base[r], docs, Schema(base[r]))
    <2>2. PICK id \in CommitIds : Fresh(id) /\ RegisterCommit(r, content(id), added, removed)
      BY <1>9 DEF ApplyAndRegister
    <2>3. /\ content(id).id = id /\ content(id).before = base[r]
          /\ content(id).docs \ Docs(base[r]) \subseteq added
          /\ Docs(base[r]) \ content(id).docs \subseteq removed
      BY DEF Content
    <2>4. CommitChanges(id, AsParent(base[r]), added, removed) \in Entries
      <3>1. /\ IdsOf[r] \subseteq DocIds /\ CreatesOf[r] \subseteq DocIds
            /\ Docs(base[r]) \subseteq DocIds
        BY <2>1, RequestAssumption DEF Types, Contents, Docs
      <3> QED BY <2>1, <3>1 DEF CommitChanges, Entries, Commits, AsParent
    <2>5. UNCHANGED <<repoVars, pre, base, guard>> /\ history' = history /\ head' = head
      BY <1>9 DEF ApplyAndRegister, repoVars
    <2> HIDE DEF added, removed, content
    <2>6. /\ id \notin DOMAIN history \cup Ids(window)
          /\ window' = Register(window, id, AsParent(base[r]), added, removed)
          /\ pc' = [pc EXCEPT ![r] = "registered"]
      BY <2>2, <2>3 DEF Fresh, RegisterCommit, Goto
    <2>7. Shape'
      BY <2>1, <2>4, <2>5, <2>6, ShapeRegisters
    <2>8. Prepared'
      <3>1. \A d \in Clients : d # r => pc[d] # "registered"
        BY <1>00, <2>1 DEF Holding
      <3>2. content(id).id \in CommitIds \ DOMAIN history
        BY <2>3, <2>6
      <3> QED BY <1>0, <2>1, <2>2, <2>3, <2>4, <2>5, <3>1, <3>2, RegisteredIsPrepared
    <2>9. AtHead'
      BY <1>0, <2>1, <2>5, <2>6 DEF AtHead
    <2>10. Verified'
      BY <1>0, <2>5, <2>6, VerifiedStays
    <2> QED BY <2>7, <2>8, <2>9, <2>10
  <1>10. CASE PublishRequest(r)
    <2>1. pc[r] = "registered" /\ pc[r] \in Holding /\ base[r] = head /\ made[r] \in Contents
      BY <1>0, <1>10 DEF PublishRequest, Holding, Places
    <2>2. /\ MoveHead(made[r]) /\ UNCHANGED <<window, pre, base, guard>>
          /\ pc' = [pc EXCEPT ![r] = "closing"]
      BY <1>10 DEF PublishRequest, Goto
    <2>3. Shape'
      BY <1>0, <2>1, <2>2, ShapeGrows DEF Prepared
    <2>4. \A d \in Clients : d # r => pc'[d] \notin Holding
      BY <1>0, <1>00, <2>1, <2>2
    <2>5. AtHead' /\ Prepared'
      BY <1>0, <2>2, <2>4 DEF AtHead, Prepared, Holding
    <2>6. \A c \in DOMAIN history : history'[c] = history[c]
      BY <1>0, <2>1, <2>2 DEF Prepared, MoveHead
    <2>7. Verified'
      BY <1>0, <2>2, <2>6, VerifiedStays
    <2> QED BY <2>3, <2>5, <2>7
  <1>11. CASE CloseWindow(r)
    <2>1. /\ pc[r] \in Holding /\ MayClose(window, guard[r]) /\ window' = Close(window, guard[r])
          /\ UNCHANGED repoVars /\ UNCHANGED <<pre, base, made>> /\ history' = history
          /\ pc' = [pc EXCEPT ![r] = "done"]
      BY <1>11 DEF CloseWindow, Holding, repoVars, Goto
    <2>2. PICK n \in Nat : \A c : Moved(window, window', n, c)
      BY <2>1, CloseUnique DEF Shape
    <2>3. /\ Unique(window')
          /\ \A i \in 1 .. Len(window'.commits) :
               \E j \in 1 .. Len(window.commits) :
                 /\ window'.commits[i].id = window.commits[j].id
                 /\ window'.commits[i].parent = window.commits[j].parent
      BY <2>1, CloseUnique DEF Shape
    <2>4. \A i \in 1 .. Len(window'.commits) :
            /\ window'.commits[i].parent \in DOMAIN history \cup {NoCommit}
            /\ window'.commits[i].parent = NoCommit =>
                 rootIsInitial \/ window'.commits[i].id \in DOMAIN history
      BY <2>3 DEF Shape, OfBranch
    <2>5. Shape'
      BY <2>1, <2>2, <2>3, <2>4, ShapeMoves
    <2>6. \A d \in Clients : pc'[d] \notin Holding
      BY <1>0, <1>00, <2>1 DEF Holding
    <2>7. AtHead' /\ Prepared'
      BY <1>0, <2>6 DEF AtHead, Prepared, Holding
    <2>8. Verified'
      BY <1>0, <2>1, VerifiedStays
    <2> QED BY <2>5, <2>7, <2>8
  <1> QED
    BY <1>2, <1>3, <1>4, <1>5, <1>6, <1>7, <1>8, <1>9, <1>10, <1>11 DEF RequestStep

LEMMA WriterBranch ==
  ASSUME GuardInv, Shape, AtHead, Prepared, Verified, NEW w \in Writers, WriterStep(w)
  PROVE  Shape' /\ AtHead' /\ Prepared' /\ Verified'
PROOF
  <1> USE DEF GuardInv
  <1>0. /\ w \in Clients /\ Requests \subseteq Clients /\ w \notin Requests
        /\ pc \in [Clients -> Locations]
        /\ base \in [Clients -> DOMAIN history \cup {NoCommit}]
        /\ made \in [Clients -> Contents \cup {NoContent}]
    BY ClientAssumption DEF Clients, Types
  <1>1. /\ lock = Nobody => \A d \in Clients : pc[d] \notin Holding
        /\ pc[w] \in Holding => \A d \in Clients : d # w => pc[d] \notin Holding
    BY <1>0, OneHolder
  <1>2. ASSUME NEW location, location # "registered", pc' = [pc EXCEPT ![w] = location],
               UNCHANGED <<repoVars, window, pre, guard>>,
               \A d \in Clients : d # w => base'[d] = base[d] /\ made'[d] = made[d]
        PROVE  Shape' /\ AtHead' /\ Prepared' /\ Verified'
    <2>1. history' = history /\ head' = head
      BY <1>2 DEF repoVars
    <2>2. Shape'
      BY <1>2, ShapeStays
    <2>3. AtHead'
      BY <1>0, <1>2, <2>1 DEF AtHead
    <2>4. Prepared'
      BY <1>0, <1>2, PreparedStays
    <2>5. Verified'
      BY <1>0, <1>2, <2>1, VerifiedStays
    <2> QED BY <2>2, <2>3, <2>4, <2>5
  <1>3. CASE Read(w)
    BY <1>0, <1>2, <1>3 DEF Read, Goto
  <1>4. CASE WriteFails(w)
    BY <1>0, <1>2, <1>4 DEF WriteFails, Goto
  <1>5. CASE WriteAndRegister(w)
    <2>1. base[w] \in DOMAIN history /\ base[w] \in Commits /\ lock = Nobody
      BY <1>0, <1>5 DEF WriteAndRegister, Places, Types
    <2>2. PICK id \in CommitIds, docs \in SUBSET scenario.docs, updated \in SUBSET Docs(base[w]),
               schema \in Schema(base[w])..scenario.schemas :
            /\ Fresh(id)
            /\ RegisterCommit(w, Content(id, base[w], docs, schema),
                              (docs \ Docs(base[w])) \cup updated,
                              (Docs(base[w]) \ docs) \cup updated)
      BY <1>5 DEF WriteAndRegister
    <2> DEFINE added == (docs \ Docs(base[w])) \cup updated
               removed == (Docs(base[w]) \ docs) \cup updated
               content == Content(id, base[w], docs, schema)
    <2>3. /\ content.id = id /\ content.before = base[w]
          /\ content.docs \ Docs(base[w]) \subseteq added
          /\ Docs(base[w]) \ content.docs \subseteq removed
      BY DEF Content
    <2>4. CommitChanges(id, AsParent(base[w]), added, removed) \in Entries
      <3>1. Docs(base[w]) \subseteq DocIds /\ docs \subseteq DocIds
        BY <2>1, BoundAssumption DEF Types, Contents, Docs
      <3> QED BY <2>1, <3>1 DEF CommitChanges, Entries, Commits, AsParent
    <2>5. UNCHANGED <<repoVars, pre, base, guard>> /\ history' = history /\ head' = head
      BY <1>5 DEF WriteAndRegister, repoVars
    <2> HIDE DEF added, removed, content
    <2>6. /\ id \notin DOMAIN history \cup Ids(window) /\ RegisterCommit(w, content, added, removed)
          /\ window' = Register(window, id, AsParent(base[w]), added, removed)
          /\ pc' = [pc EXCEPT ![w] = "registered"]
      BY <2>2, <2>3 DEF Fresh, RegisterCommit, Goto, added, removed, content
    <2>7. Shape'
      BY <2>1, <2>4, <2>5, <2>6, ShapeRegisters
    <2>8. Prepared'
      <3>1. \A d \in Clients : d # w => pc[d] # "registered"
        BY <1>1, <2>1 DEF Holding
      <3>2. content.id \in CommitIds \ DOMAIN history
        BY <2>3, <2>6
      <3> QED BY <1>0, <2>1, <2>3, <2>4, <2>5, <2>6, <3>1, <3>2, RegisteredIsPrepared
    <2>9. AtHead'
      BY <1>0, <2>5, <2>6 DEF AtHead
    <2>10. Verified'
      BY <1>0, <2>5, <2>6, VerifiedStays
    <2> QED BY <2>7, <2>8, <2>9, <2>10
  <1>6. CASE PublishWrite(w)
    <2>1. pc[w] = "registered" /\ pc[w] \in Holding /\ base[w] = head /\ made[w] \in Contents
      BY <1>0, <1>6 DEF PublishWrite, Holding, Places
    <2>2. /\ MoveHead(made[w]) /\ UNCHANGED <<window, pre, base, guard>>
          /\ pc' = [pc EXCEPT ![w] = "done"]
      BY <1>6 DEF PublishWrite, Goto
    <2>3. Shape'
      BY <1>0, <2>1, <2>2, ShapeGrows DEF Prepared
    <2>4. \A d \in Clients : pc'[d] \notin Holding
      BY <1>0, <1>1, <2>1, <2>2 DEF Holding
    <2>5. AtHead' /\ Prepared'
      BY <1>0, <2>4 DEF AtHead, Prepared, Holding
    <2>6. \A c \in DOMAIN history : history'[c] = history[c]
      BY <1>0, <2>1, <2>2 DEF Prepared, MoveHead
    <2>7. Verified'
      BY <1>0, <2>2, <2>6, VerifiedStays
    <2> QED BY <2>3, <2>5, <2>7
  <1> QED BY <1>3, <1>4, <1>5, <1>6 DEF WriterStep

\* An empty window has nothing to follow.
LEMMA RestartBranch ==
  ASSUME GuardInv, Shape, Restart
  PROVE  Shape' /\ AtHead' /\ Prepared' /\ Verified'
PROOF
  <1>1. /\ history' = history /\ head' = head /\ window' = EmptyWindow
        /\ \A c \in Clients : pc'[c] \in {"idle", "done"}
    BY DEF Restart, repoVars
  <1>2. Line'
    <2>1. AncestorsOf(head)' = AncestorsOf(head) /\ \A c : AncestorsOf(c)' = AncestorsOf(c)
      BY <1>1 DEF AncestorsOf
    <2> QED BY <1>1, <2>1 DEF Shape, Line
  <1>3. Len(EmptyWindow.commits) = 0 /\ \A c : ~Knows(EmptyWindow, c)
    BY DEF EmptyWindow, Knows, Position
  <1>4. Unique(window') /\ OfBranch' /\ Follows'
    BY <1>1, <1>3 DEF Unique, OfBranch, Follows
  <1>5. AtHead' /\ Prepared' /\ Verified'
    BY <1>1 DEF AtHead, Prepared, Verified, Holding, Clients
  <1> QED BY <1>2, <1>4, <1>5 DEF Shape

LEMMA BranchInit == Init => BranchInv
PROOF
  <1> SUFFICES ASSUME Init PROVE BranchInv
    OBVIOUS
  <1>1. Idle /\ \A c \in Clients : pc[c] \in {"idle", "done"}
    BY DEF Init, Idle
  <1>2. AtHead /\ Prepared /\ Verified
    BY <1>1 DEF AtHead, Prepared, Verified, Holding, Clients
  <1>3. Line
    <2>1. DOMAIN history = {Root} /\ history[Root].before = NoCommit /\ head = Root
      BY DEF Init, Content
    <2>2. Root \in Below(history, Root)
      BY <2>1, BelowSelf
    <2> QED BY <2>1, <2>2, AncestorsAreBelow, CommitAssumption DEF Line, Commits
  <1>4. Follows
    BY DEF Init, Follows
  <1>5. Unique(window) /\ OfBranch
    <2>1. WellFormed(EmptyWindow) /\ Unique(EmptyWindow) /\ Ids(EmptyWindow) = {}
      BY EmptyIsWellFormed DEF Unique, EmptyWindow, Ids
    <2>2. CASE window = EmptyWindow
      BY <2>1, <2>2 DEF OfBranch, EmptyWindow
    <2>3. CASE window = Register(EmptyWindow, Root, NoCommit, {}, {})
      <3>1. CommitChanges(Root, NoCommit, {}, {}) \in Entries
        BY DEF CommitChanges, Entries, Commits
      <3>2. /\ Unique(window)
            /\ \A i \in 1 .. Len(window.commits) :
                 \/ window.commits[i] = CommitChanges(Root, NoCommit, {}, {})
                 \/ \E j \in 1 .. Len(EmptyWindow.commits) :
                      window.commits[i] = EmptyWindow.commits[j]
        BY <2>1, <2>3, <3>1, RegisterUnique
      <3>3. Len(EmptyWindow.commits) = 0 /\ Root \in DOMAIN history
        BY DEF EmptyWindow, Init
      <3> QED BY <3>2, <3>3 DEF OfBranch, CommitChanges
    <2> QED BY <2>2, <2>3 DEF Init
  <1> QED BY <1>1, <1>2, <1>3, <1>4, <1>5 DEF BranchInv, Shape

LEMMA BranchStep == GuardInv /\ BranchInv /\ [Next]_vars => BranchInv'
PROOF
  <1> SUFFICES ASSUME GuardInv, BranchInv, [Next]_vars PROVE BranchInv'
    OBVIOUS
  <1>1. CASE UNCHANGED vars
    <2>1. /\ UNCHANGED <<repoVars, window>> /\ pc' = pc /\ made' = made /\ base' = base /\ pre' = pre
          /\ guard' = guard /\ scenario' = scenario /\ history' = history /\ head' = head
          /\ (OnlyWrites' <=> OnlyWrites)
      BY <1>1 DEF vars, repoVars, boundVars, OnlyWrites
    <2>2. Idle'
      BY <2>1 DEF BranchInv, Idle
    <2>3. ASSUME OnlyWrites PROVE Shape' /\ AtHead' /\ Prepared' /\ Verified'
      <3>1. Shape'
        BY <2>1, <2>3, ShapeStays DEF BranchInv
      <3>2. Prepared'
        BY <2>1, <2>3, PreparedStays DEF BranchInv, GuardInv
      <3>3. AtHead'
        BY <2>1, <2>3 DEF BranchInv, AtHead
      <3>4. Verified'
        BY <2>1, <2>3, VerifiedStays DEF BranchInv, GuardInv
      <3> QED BY <3>1, <3>2, <3>3, <3>4
    <2> QED BY <2>1, <2>2, <2>3 DEF BranchInv
  <1>2. CASE Next
    <2>1. scenario' = scenario /\ resets \in Nat /\ foreign \in Nat /\ pc \in [Clients -> Locations]
      BY <1>2, ScenarioStays, BoundAssumption DEF GuardInv, Types
    <2>2. Idle'
      <3> USE DEF Goto, RegisterCommit, Idle
      <3>1. Requests \subseteq Clients /\ Writers \subseteq Clients /\ Rebasers \subseteq Clients
        BY DEF Clients
      <3>2. ASSUME NEW r \in Requests, RequestStep(r) PROVE Idle'
        BY <2>1, <3>1, <3>2 DEF BranchInv, RequestStep, Elaborate, Begin, OpenWindow, Verify,
           Reelaborate, NoCommitMade, ApplyAndRegister, PublishRequest, RequestFails, CloseWindow
      <3>3. ASSUME NEW w \in Writers, WriterStep(w) PROVE Idle'
        BY <2>1, <3>1, <3>3 DEF BranchInv, WriterStep, Read, WriteAndRegister, PublishWrite, WriteFails
      <3>4. ASSUME NEW b \in Rebasers, RebaserStep(b) PROVE Idle'
        BY <2>1, <3>1, <3>4 DEF BranchInv, RebaserStep, PrepareRebase, Rebase, RebaseNothing,
           RebaseRejected
      <3>5. CASE Reset \/ ForeignMove \/ Restart
        BY <2>1, <3>5 DEF BranchInv, Reset, ForeignMove, Restart
      <3> QED BY <1>2, <3>2, <3>3, <3>4, <3>5 DEF Next
    <2>3. ASSUME OnlyWrites' PROVE Shape' /\ AtHead' /\ Prepared' /\ Verified'
      <3>1. ~Reset /\ ~ForeignMove
        BY <2>1, <2>3 DEF OnlyWrites, Reset, ForeignMove
      <3>2. ASSUME NEW b \in Rebasers PROVE ~RebaserStep(b)
        <4>1. pc[b] = "done"
          BY <2>1, <2>3, <3>2 DEF BranchInv, Idle, OnlyWrites, Clients
        <4> QED BY <4>1 DEF RebaserStep, PrepareRebase, Rebase, RebaseNothing, RebaseRejected
      <3>3. OnlyWrites
        <4>1. ASSUME NEW r \in Requests, RequestStep(r) PROVE resets' = resets /\ foreign' = foreign
          BY <4>1 DEF RequestStep, Elaborate, Begin, OpenWindow, Verify, Reelaborate, NoCommitMade,
             ApplyAndRegister, PublishRequest, RequestFails, CloseWindow, boundVars
        <4>2. ASSUME NEW w \in Writers, WriterStep(w) PROVE resets' = resets /\ foreign' = foreign
          BY <4>2 DEF WriterStep, Read, WriteAndRegister, PublishWrite, WriteFails, boundVars
        <4>3. CASE Restart
          BY <2>1, <2>3, <4>3 DEF Restart, OnlyWrites
        <4> QED BY <1>2, <2>1, <2>3, <3>1, <3>2, <4>1, <4>2, <4>3 DEF Next, OnlyWrites
      <3>4. Shape /\ AtHead /\ Prepared /\ Verified
        BY <3>3 DEF BranchInv
      <3> QED BY <1>2, <3>1, <3>2, <3>4, RequestBranch, WriterBranch, RestartBranch DEF Next
    <2> QED BY <2>2, <2>3 DEF BranchInv
  <1> QED BY <1>1, <1>2

LEMMA AlwaysFollows == Spec => [](GuardInv /\ BranchInv)
PROOF BY GuardInit, GuardStep, BranchInit, BranchStep, PTL DEF Spec

\* A window is what a verification may read, for all commits, documents and clients: well
\* formed, and between two commits of a branch that is only written to without a gap.
THEOREM WindowsAreReadable == Spec => []WindowIsReadable
PROOF
  <1>1. GuardInv /\ BranchInv => WindowIsReadable
    <2>1. GuardInv /\ BranchInv => HistoryIsContiguous
      BY FollowsIsContiguous DEF GuardInv, BranchInv, Shape
    <2> QED BY <2>1, GuardImplies DEF WindowIsReadable
  <1> QED BY <1>1, AlwaysFollows, PTL

\* A contract that is verified relies on nothing that has changed since it was elaborated, for
\* all requests and transactions in all orders, with commits that fail and restarts.
THEOREM ContractsHold == Spec => []NoMissedConflict
PROOF
  <1>1. BranchInv => NoMissedConflict
    BY DEF BranchInv, Verified, NoMissedConflict
  <1> QED BY <1>1, AlwaysFollows, PTL

------------------------------------------------------------------------------
(* What pruning keeps *)

LEMMA PositionsAreNat ==
  ASSUME NEW w, WellFormed(w), NEW id, Knows(w, id)
  PROVE  Position(w, id) \in Nat \ {0} /\ Position(w, id) \in 1 .. Len(w.commits)
PROOF BY Known DEF WellFormed

\* A window u that has the root of the branch, and whose newest entry is of the branch or
\* descends from it, has all of the branch, also when it is pruned to v.
LEMMA BranchIsKept ==
  ASSUME Types, WellFormed(window), Shape, ~rootIsInitial, Knows(window, Root),
         NEW u, WellFormed(u), Unique(u), \A c \in DOMAIN history : Moved(window, u, 0, c),
         NEW newest, newest = u.commits[Len(u.commits)], Len(u.commits) # 0,
         newest.parent \in DOMAIN history \cup {NoCommit},
         newest.parent = NoCommit => newest.id \in DOMAIN history,
         NEW v, NEW n, Pruned(u, v, n)
  PROVE  \A c \in DOMAIN history : Knows(v, c)
PROOF
  <1> DEFINE kept == Keep(u) \cap DOMAIN history
  <1>1. /\ Rooted(history) /\ Root \in DOMAIN history /\ history[Root].before = NoCommit
        /\ \A c \in DOMAIN history : Root \in Below(history, c)
    BY LineIsRooted, AncestorsAreBelow DEF Shape, Line
  <1>2. \A c \in DOMAIN history \ {Root} :
          /\ Knows(window, c) /\ Position(window, Root) < Position(window, c)
          /\ Entry(window, c).parent = history[c].before /\ history[c].before \in DOMAIN history
    <2> SUFFICES ASSUME NEW c \in DOMAIN history \ {Root}
                 PROVE  /\ Knows(window, c) /\ Position(window, Root) < Position(window, c)
                        /\ Entry(window, c).parent = history[c].before
                        /\ history[c].before \in DOMAIN history
      OBVIOUS
    <2> DEFINE b == history[c].before
    <2>1. /\ Knows(window, c) /\ Knows(window, b) /\ b \in DOMAIN history
          /\ Position(window, Root) <= Position(window, b)
          /\ Position(window, b) < Position(window, c)
          /\ Tells(Entry(window, c), history[c])
      BY <1>1, Contiguous DEF Shape
    <2>2. Entry(window, c).parent = b
      BY <2>1 DEF Tells, AsParent
    <2> HIDE DEF b
    <2>3. Position(window, Root) < Position(window, c)
      <3>1. Position(window, Root) \in Nat /\ Position(window, b) \in Nat
            /\ Position(window, c) \in Nat
        BY <2>1, PositionsAreNat
      <3> QED BY <2>1, <3>1
    <2> QED BY <2>1, <2>2, <2>3 DEF b
  <1>3. \A c \in DOMAIN history : Knows(window, c) => Position(window, c) \in Nat \ {0}
    BY PositionsAreNat
  <1>4. \A c \in DOMAIN history : Knows(u, c)
    BY <1>2, <1>3 DEF Moved
  <1>5. \A c \in DOMAIN history \ {Root} : Entry(u, c).parent = history[c].before
    BY <1>2, <1>4 DEF Moved
  <1>6. ASSUME NEW c \in kept PROVE Root \in Keep(u)
    <2>1. Closed(history, kept, c)
      <3>1. ASSUME NEW x \in kept PROVE history[x].before \in kept \cup {NoCommit}
        <4>1. CASE x = Root
          BY <1>1, <4>1
        <4>2. CASE x # Root
          <5>1. /\ Entry(u, x).parent = history[x].before /\ history[x].before \in DOMAIN history
                /\ history[x].before # NoCommit /\ Knows(u, x) /\ x \in Keep(u)
            BY <1>1, <1>2, <1>4, <1>5, <4>2 DEF Rooted
          <5> QED BY <5>1, KeepKeeps
        <4> QED BY <4>1, <4>2
      <3> QED BY <3>1 DEF Closed
    <2> QED BY <1>1, <2>1, BelowClosed
  <1>7. Root \in Keep(u)
    <2>1. newest.id \in Keep(u)
      <3>1. newest.id \in Newest(u)
        BY DEF Newest
      <3> QED BY <3>1, KeepKeeps
    <2>2. Position(u, newest.id) = Len(u.commits)
      BY DEF Unique, WellFormed
    <2>3. Knows(u, newest.id) /\ Entry(u, newest.id) = newest
      BY <2>2 DEF Knows, Entry
    <2>4. CASE newest.parent = NoCommit
      BY <1>6, <2>1, <2>4
    <2>5. CASE newest.parent \in DOMAIN history
      <3>1. newest.parent \in Keep(u)
        BY <1>1, <2>1, <2>3, <2>5, KeepKeeps DEF Rooted
      <3> QED BY <1>6, <2>5, <3>1
    <2> QED BY <2>4, <2>5
  <1>8. Knows(v, Root)
    BY <1>1, <1>4, <1>7, PrunedKeeps
  <1>9. \A c : Moved(u, v, n, c)
    BY UniquePruned
  <1>10. ASSUME NEW c \in DOMAIN history PROVE Knows(v, c)
    <2>1. Position(window, Root) > n
      BY <1>1, <1>3, <1>4, <1>8, <1>9 DEF Moved
    <2>2. n \in Nat
      BY DEF Pruned, WellFormed
    <2>3. Position(window, c) > n /\ Position(u, c) = Position(window, c)
      <3>1. CASE c = Root
        BY <1>1, <1>3, <1>4, <2>1, <3>1 DEF Moved
      <3>2. CASE c # Root
        BY <1>1, <1>2, <1>3, <1>4, <2>1, <2>2, <3>2 DEF Moved
      <3> QED BY <3>1, <3>2
    <2> QED BY <1>4, <1>9, <2>3 DEF Moved
  <1> QED BY <1>10

LEMMA RegisterKeepsBranch ==
  ASSUME Types, WellFormed(window), Shape, ~rootIsInitial, Knows(window, Root),
         NEW parent \in DOMAIN history,
         NEW id \in CommitIds, id \notin DOMAIN history \cup Ids(window), NEW added, NEW removed,
         CommitChanges(id, AsParent(parent), added, removed) \in Entries,
         NEW v, v = Register(window, id, AsParent(parent), added, removed)
  PROVE  \A c \in DOMAIN history : Knows(v, c)
PROOF
  <1> DEFINE entry == CommitChanges(id, AsParent(parent), added, removed)
  <1>1. PICK u, n : Extended(window, u, entry) /\ Pruned(u, v, n)
    BY RegisterEffect
  <1>2. entry.id = id /\ entry.parent = parent
    BY DEF CommitChanges, AsParent
  <1>3. parent # NoCommit
    BY CommitAssumption DEF Types, Commits
  <1> HIDE DEF entry
  <1>4. /\ WellFormed(u) /\ entry = u.commits[Len(u.commits)] /\ Len(u.commits) # 0
    BY <1>1 DEF Extended, WellFormed
  <1>5. Unique(u) /\ \A c \in DOMAIN history : Moved(window, u, 0, c)
    BY <1>1, <1>2, UniqueExtended DEF Shape
  <1> QED BY <1>1, <1>2, <1>3, <1>4, <1>5, BranchIsKept

LEMMA CloseKeepsBranch ==
  ASSUME Types, WellFormed(window), Shape, ~rootIsInitial, Knows(window, Root),
         NEW id, MayClose(window, id), NEW v, v = Close(window, id)
  PROVE  \A c \in DOMAIN history : Knows(v, c)
PROOF
  <1>1. PICK u, n : Counted(window, u, id, -1) /\ Pruned(u, v, n)
    BY CloseEffect
  <1>2. WellFormed(u) /\ Unique(u) /\ \A c \in DOMAIN history : Moved(window, u, 0, c)
    BY <1>1, UniqueCounted, ZenonT(30) DEF Counted, Shape
  <1>3. Len(window.commits) \in Nat \ {0} /\ Len(u.commits) = Len(window.commits)
    <2>1. Position(window, Root) \in 1 .. Len(window.commits) /\ Len(window.commits) \in Nat
      BY Known DEF WellFormed
    <2> QED BY <1>1, <2>1 DEF Counted
  <1>4. PICK newest, old : newest = u.commits[Len(u.commits)]
                           /\ old = window.commits[Len(window.commits)]
    OBVIOUS
  <1>5. newest.id = old.id /\ newest.parent = old.parent
    BY <1>1, <1>3, <1>4 DEF Counted
  <1>6. /\ old.parent \in DOMAIN history \cup {NoCommit}
        /\ old.parent = NoCommit => old.id \in DOMAIN history
    BY <1>3, <1>4 DEF Shape, OfBranch
  <1> QED BY <1>1, <1>2, <1>3, <1>4, <1>5, <1>6, BranchIsKept

\* The steps of requests and transactions, and the ones that leave the window alone.
LEMMA StepKeepsBranch ==
  ASSUME GuardInv, Shape, AtHead, ~rootIsInitial, Knows(window, Root),
         NEW c \in Clients, (c \in Requests /\ RequestStep(c)) \/ (c \in Writers /\ WriterStep(c))
  PROVE  \A a \in DOMAIN history : Knows(window, a) => Knows(window', a)
PROOF
  <1> USE DEF GuardInv
  <1>1. CASE c \in Requests /\ OpenWindow(c)
    <2>1. pc[c] = "begun" /\ window' = Open(window, base[c])
      BY <1>1 DEF OpenWindow
    <2>2. base[c] \in Commits
      BY <2>1 DEF Places, Holding, Types
    <2>3. \A a : a # base[c] \/ Knows(window, base[c]) => Moved(window, window', 0, a)
      BY <2>1, <2>2, OpenUnique DEF Shape
    <2>4. ASSUME NEW a \in DOMAIN history, Knows(window, a) PROVE Knows(window', a)
      <3>1. Position(window, a) > 0 /\ Moved(window, window', 0, a)
        BY <2>3, <2>4, PositionsAreNat
      <3> QED BY <2>4, <3>1 DEF Moved
    <2> QED BY <2>4
  <1>2. CASE c \in Requests /\ ApplyAndRegister(c)
    <2>1. pc[c] \in Holding /\ base[c] \in DOMAIN history /\ base[c] \in Commits
      BY <1>2 DEF ApplyAndRegister, Places, Holding, Types
    <2>2. PICK id \in CommitIds :
            /\ Fresh(id)
            /\ RegisterCommit(c, Content(id, base[c], Docs(base[c]) \cup IdsOf[c] \cup CreatesOf[c],
                                         Schema(base[c])),
                              IdsOf[c] \cup (CreatesOf[c] \ Docs(base[c])),
                              IdsOf[c] \cap Docs(base[c]))
      BY <1>2 DEF ApplyAndRegister
    <2> DEFINE added == IdsOf[c] \cup (CreatesOf[c] \ Docs(base[c]))
               removed == IdsOf[c] \cap Docs(base[c])
    <2>3. CommitChanges(id, AsParent(base[c]), added, removed) \in Entries
      <3>1. IdsOf[c] \subseteq DocIds /\ CreatesOf[c] \subseteq DocIds
        BY <1>2, RequestAssumption
      <3> QED BY <2>1, <3>1 DEF CommitChanges, Entries, Commits, AsParent
    <2>4. /\ id \notin DOMAIN history \cup Ids(window)
          /\ window' = Register(window, id, AsParent(base[c]), added, removed)
      BY <2>2 DEF Fresh, RegisterCommit, Content
    <2> HIDE DEF added, removed
    <2> QED BY <2>1, <2>3, <2>4, RegisterKeepsBranch
  <1>3. CASE c \in Requests /\ CloseWindow(c)
    <2>1. MayClose(window, guard[c]) /\ window' = Close(window, guard[c])
      BY <1>3 DEF CloseWindow
    <2> QED BY <2>1, CloseKeepsBranch
  <1>4. CASE c \in Writers /\ WriteAndRegister(c)
    <2>1. base[c] \in DOMAIN history /\ base[c] \in Commits
      BY <1>4 DEF WriteAndRegister, Places, Types
    <2>2. PICK id \in CommitIds, docs \in SUBSET scenario.docs, updated \in SUBSET Docs(base[c]),
               schema \in Schema(base[c])..scenario.schemas :
            /\ Fresh(id)
            /\ RegisterCommit(c, Content(id, base[c], docs, schema),
                              (docs \ Docs(base[c])) \cup updated,
                              (Docs(base[c]) \ docs) \cup updated)
      BY <1>4 DEF WriteAndRegister
    <2> DEFINE added == (docs \ Docs(base[c])) \cup updated
               removed == (Docs(base[c]) \ docs) \cup updated
    <2>3. CommitChanges(id, AsParent(base[c]), added, removed) \in Entries
      <3>1. Docs(base[c]) \subseteq DocIds /\ docs \subseteq DocIds
        BY <2>1, BoundAssumption DEF Types, Contents, Docs
      <3> QED BY <2>1, <3>1 DEF CommitChanges, Entries, Commits, AsParent
    <2>4. /\ id \notin DOMAIN history \cup Ids(window)
          /\ window' = Register(window, id, AsParent(base[c]), added, removed)
      BY <2>2 DEF Fresh, RegisterCommit, Content
    <2> HIDE DEF added, removed
    <2> QED BY <2>1, <2>3, <2>4, RegisterKeepsBranch
  <1>5. CASE UNCHANGED window
    BY <1>5
  <1> QED
    BY <1>1, <1>2, <1>3, <1>4, <1>5 DEF RequestStep, WriterStep, Elaborate, Begin, Verify,
       Reelaborate, NoCommitMade, PublishRequest, RequestFails, Read, PublishWrite, WriteFails

\* A window that reaches back to the root keeps all commits of the branch, for requests and
\* transactions that race, lose and leave their entries behind, and windows opened and closed.
THEOREM AncestorsStay == Spec => AncestorsAreKept
PROOF
  <1>1. GuardInv /\ BranchInv /\ [Next]_vars =>
          [(OnlyWrites /\ restarts' = restarts /\ ~rootIsInitial /\ Knows(window, Root)) =>
             \A c \in AncestorsOf(head) : Knows(window, c) => Knows(window', c)]_vars
    <2> SUFFICES ASSUME GuardInv, BranchInv, Next, OnlyWrites, restarts' = restarts,
                        ~rootIsInitial, Knows(window, Root)
                 PROVE  \A c \in DOMAIN history : Knows(window, c) => Knows(window', c)
      BY DEF AncestorsOf, vars
    <2>1. Shape /\ AtHead
      BY DEF BranchInv
    <2>2. ASSUME NEW b \in Rebasers PROVE ~RebaserStep(b)
      <3>1. pc[b] = "done"
        BY <2>2 DEF BranchInv, Idle, OnlyWrites, Clients
      <3> QED BY <3>1 DEF RebaserStep, PrepareRebase, Rebase, RebaseNothing, RebaseRejected
    <2>3. ~Restart
      <3>1. restarts \in Nat
        BY BoundAssumption DEF GuardInv, Types
      <3> QED BY <3>1 DEF Restart
    <2>4. CASE Reset \/ ForeignMove
      BY <2>4 DEF Reset, ForeignMove
    <2> QED BY <2>1, <2>2, <2>3, <2>4, StepKeepsBranch DEF Next, Clients
  <1> QED BY AlwaysFollows, <1>1, PTL DEF Spec, AncestorsAreKept
==============================================================================
