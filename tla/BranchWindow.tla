----------------------------- MODULE BranchWindow -----------------------------
(***************************************************************************)
(* The change window of one branch, change_window.rs of the Rust library:    *)
(* the recent commits of the branch with the identifiers they changed, kept  *)
(* so that a contract elaborated against an old commit can be verified at    *)
(* the current one.  A window is a value                                     *)
(*   [commits: oldest first, index: commit id -> insertion index, start]     *)
(* and every operation of the library a function of it.  next_index is       *)
(* always start + Len(commits).                                              *)
(***************************************************************************)
EXTENDS Integers, Sequences, FiniteSets, Functions

CONSTANT NoCommit   \* Option::None of a commit id

EmptyWindow == [commits |-> <<>>, index |-> <<>>, start |-> 0]

CommitChanges(id, parent, added, removed) ==
  [id |-> id, parent |-> parent, added |-> added, removed |-> removed, active |-> 0]

NextIndex(w) == w.start + Len(w.commits)

\* get_commit: the position of a commit id, 0 when it is not indexed.
Position(w, id) ==
  IF id \in DOMAIN w.index /\ w.index[id] - w.start + 1 \in DOMAIN w.commits
  THEN w.index[id] - w.start + 1 ELSE 0

Knows(w, id) == Position(w, id) # 0

Index(w, id, i) == [c \in DOMAIN w.index \cup {id} |-> IF c = id THEN i ELSE w.index[c]]

\* push_back: a second entry of the same id takes over the index.
PushBack(w, commit) ==
  [w EXCEPT !.commits = Append(@, commit), !.index = Index(w, commit.id, NextIndex(w))]

Ids(w) == {w.commits[i].id : i \in DOMAIN w.commits}

\* pop_front, n times: the index entry goes by id, whichever entry it names.
DropFront(w, n) ==
  LET gone == {w.commits[i].id : i \in 1..n}
  IN  [commits |-> SubSeq(w.commits, n + 1, Len(w.commits)),
       index |-> Restrict(w.index, DOMAIN w.index \ gone),
       start |-> w.start + n]

------------------------------------------------------------------------------
(* prune_branch *)

Parents(w, ids) ==
  {w.commits[Position(w, id)].parent : id \in {c \in ids : Knows(w, c)}} \ {NoCommit}

\* ids and every recorded ancestor of theirs: the least set closed under Parents.
WithAncestors(w, ids) ==
  LET all == ids \cup Parents(w, Ids(w))
      closed == {kept \in SUBSET all : ids \subseteq kept /\ Parents(w, kept) \subseteq kept}
  IN  {id \in all : \A kept \in closed : id \in kept}

Active(w) == {w.commits[i].id : i \in {j \in DOMAIN w.commits : w.commits[j].active > 0}}
Newest(w) == IF w.commits = <<>> THEN {} ELSE {w.commits[Len(w.commits)].id}

\* Faulty: an open guard does not keep its commit.
KeepNewest(w) == WithAncestors(w, Newest(w))
\* Faulty: only what is in use is kept, not what it descends from.
KeepInUse(w) == Active(w) \cup Newest(w)

Keep(w) == WithAncestors(w, Active(w) \cup Newest(w))

\* The oldest commits that nothing keeps are removed; the newest stays.
Prune(w) ==
  LET keep == Keep(w)
      kept == {i \in DOMAIN w.commits : w.commits[i].id \in keep}
      n == CHOOSE k \in 0..Len(w.commits) :
             /\ kept \cap (1..k) = {}
             /\ k = Len(w.commits) \/ k + 1 \in kept
  IN  DropFront(w, n)

------------------------------------------------------------------------------
(* register_commit, open_commit_window, close_commit_window *)

Register(w, id, parent, added, removed) ==
  Prune(PushBack(w, CommitChanges(id, parent, added, removed)))

Retain(w, id, n) == [w EXCEPT !.commits[Position(w, id)].active = @ + n]

\* A parent the window does not know, after a restart or when the head moved
\* elsewhere, is registered as a baseline without changes; nothing is pruned.
Baseline(w, id) ==
  IF Knows(w, id) THEN w ELSE PushBack(w, CommitChanges(id, NoCommit, {}, {}))

Open(w, id) == Retain(Baseline(w, id), id, 1)

\* The assertions of close_commit_window; a failed one poisons the mutex.
MayClose(w, id) == Knows(w, id) /\ w.commits[Position(w, id)].active > 0

Close(w, id) == Prune(Retain(w, id, -1))

------------------------------------------------------------------------------
(* intersects *)

Conflicting(commit, mustExist, mustNotExist) ==
  \/ commit.added \cap mustNotExist # {}
  \/ commit.removed \cap mustExist # {}

\* The walk goes down from the current commit, by position, to the pre commit,
\* exclusive.  Without a pre commit below it ends at the front of the window,
\* where the window was pruned or the branch reset: that is a conflict.
Stop(w, pre, current) ==
  IF pre \in DOMAIN w.index /\ w.index[pre] <= w.index[current]
  THEN w.index[pre] - w.start + 1 ELSE 0

Walked(w, pre, current) == (Stop(w, pre, current) + 1)..Position(w, current)

\* Faulty: a pruned window is taken to have no conflict.
NeverReachesFront(w, pre, current) == FALSE
ReachesFront(w, pre, current) == Stop(w, pre, current) = 0

Intersects(w, pre, current, mustExist, mustNotExist) ==
  /\ pre # current
  /\ current \in DOMAIN w.index
  /\ \/ ReachesFront(w, pre, current)
     \/ \E i \in Walked(w, pre, current) :
          Conflicting(w.commits[i], mustExist, mustNotExist)
==============================================================================
