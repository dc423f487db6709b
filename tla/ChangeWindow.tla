----------------------------- MODULE ChangeWindow -----------------------------
(***************************************************************************)
(* The change window of a branch together with its users.  A queued request  *)
(* elaborates its documents against the head it finds, without any lock; a   *)
(* commit worker takes the request up later, under the meta commit lock,     *)
(* opens a window at the head of that moment, verifies the contract against  *)
(* the window, commits, and closes the window.  Plain transactions, rebases  *)
(* and other ways to move the head run beside it.                            *)
(***************************************************************************)
EXTENDS BranchWindow

CONSTANTS
  CommitIds,    \* ids of new commits
  Root,         \* the commit the branch starts at
  DocIds,       \* identifiers of documents
  Requests,     \* queued document requests
  Inserts,      \* those that insert; the others replace
  Lenient,      \* overwrite=true or create=true: existence is not required
  IdsOf,        \* the documents a request writes
  CreatesOf,    \* what a replace creates below them: subdocuments, value hashes
  Writers,      \* plain transactions, by with_transaction
  Rebasers,     \* rebases onto this branch
  RootKinds,    \* may the root be an InitialCommit?  a set of Booleans
  Scenarios,    \* bound: who takes part, and how often what else may happen
  Nobody

Clients == Requests \cup Writers \cup Rebasers
Commits == CommitIds \cup {Root}

ASSUME RequestAssumption ==
  /\ Inserts \subseteq Requests /\ Lenient \subseteq Requests
  /\ IdsOf \in [Requests -> SUBSET DocIds] /\ CreatesOf \in [Requests -> SUBSET DocIds]
ASSUME ClientAssumption ==
  /\ Requests \cap Writers = {} /\ Requests \cap Rebasers = {} /\ Writers \cap Rebasers = {}
  /\ Nobody \notin Clients
ASSUME CommitAssumption == Root \notin CommitIds /\ NoCommit \notin Commits
ASSUME StartAssumption == RootKinds \subseteq BOOLEAN
\* The documents there may be, whether the window may start out empty, how often the
\* schema may change; faults are commits that fail between validation and the new head,
\* resets take the branch to an older commit, foreign are other moves of the head that
\* the window is not told of, restarts are of the server.
ASSUME BoundAssumption ==
  Scenarios \subseteq
    [clients : SUBSET Clients, docs : SUBSET DocIds, colds : SUBSET BOOLEAN, schemas : Nat,
     faults : Nat, resets : Nat, foreign : Nat, restarts : Nat]

VARIABLES
  history,        \* of each commit of the branch: what holds there, its predecessor
  head,           \* the head of the branch
  rootIsInitial,  \* the root is an InitialCommit, to be replaced
  window,         \* the change window of the branch
  lock,           \* holder of the meta commit lock of the database
  pc, pre,        \* where a client is; the commit its contract was elaborated at
  base,           \* the head its transaction reads
  guard,          \* the commit whose window it holds open
  made,           \* the commit it has registered and not published, and its content
  faults, resets, foreign, restarts,
  scenario        \* the bounds of this behaviour

repoVars == <<history, head, rootIsInitial>>
boundVars == <<faults, resets, foreign, restarts, scenario>>
vars == <<repoVars, window, lock, pc, pre, base, guard, made, boundVars>>

NoContent == [id |-> NoCommit]

Docs(c) == history[c].docs
Schema(c) == history[c].schema

Content(id, before, docs, schema) ==
  [id |-> id, before |-> before, docs |-> docs, schema |-> schema]

\* An InitialCommit is replaced by the first commit: nothing is its child.
AsParent(c) == IF c = Root /\ rootIsInitial THEN NoCommit ELSE c
ParentOf(c) == IF c = Root THEN NoCommit ELSE AsParent(history[c].before)

\* An id that names no commit: of the branch, in the window, or in preparation.
Fresh(id) ==
  /\ id \in CommitIds
  /\ id \notin DOMAIN history \cup Ids(window)
  /\ \A c \in Clients : made[c].id # id

Init ==
  /\ scenario \in Scenarios
  /\ rootIsInitial \in RootKinds
  /\ \E docs \in SUBSET scenario.docs :
       /\ rootIsInitial => docs = {}
       /\ history = [c \in {Root} |-> Content(Root, NoCommit, docs, 0)]
  /\ head = Root
  /\ \E cold \in scenario.colds :
       window = IF cold THEN EmptyWindow
                ELSE Register(EmptyWindow, Root, NoCommit, {}, {})
  /\ lock = Nobody
  /\ pc = [c \in Clients |-> IF c \in scenario.clients THEN "idle" ELSE "done"]
  /\ pre = [r \in Requests |-> NoCommit]
  /\ base = [c \in Clients |-> NoCommit]
  /\ guard = [r \in Requests |-> NoCommit]
  /\ made = [c \in Clients |-> NoContent]
  /\ faults = 0 /\ resets = 0 /\ foreign = 0 /\ restarts = 0

\* The branch from its root to a commit, as the repository records it: the least set of
\* commits that has the commit and the predecessors of its members.
AncestorsOf(c) ==
  LET closed == {kept \in SUBSET DOMAIN history :
                   c \in kept /\ {history[a].before : a \in kept} \subseteq kept \cup {NoCommit}}
  IN  {a \in DOMAIN history : \A kept \in closed : a \in kept}

Goto(c, location) == pc' = [pc EXCEPT ![c] = location]

MoveHead(content) ==
  /\ head' = content.id
  /\ history' = [c \in DOMAIN history \cup {content.id} |->
                   IF c = content.id THEN content ELSE history[c]]
  /\ UNCHANGED rootIsInitial

------------------------------------------------------------------------------
(* Queued requests *)

\* The contract of a request: the identifiers it relies on.
MustNotExist(r) == IF r \in Inserts THEN IdsOf[r] ELSE CreatesOf[r]
MustExist(r) == IF r \in Inserts THEN {} ELSE IdsOf[r]

\* The documents are elaborated in the request's own thread and sent off.
Elaborate(r) ==
  /\ pc[r] = "idle"
  /\ Goto(r, "queued")
  /\ pre' = [pre EXCEPT ![r] = head]
  /\ UNCHANGED <<repoVars, window, lock, base, guard, made, boundVars>>

\* The worker takes the lock and makes the transaction read the repository anew.
Begin(r) ==
  /\ pc[r] = "queued"
  /\ lock = Nobody
  /\ lock' = r
  /\ base' = [base EXCEPT ![r] = head]
  /\ Goto(r, "begun")
  /\ UNCHANGED <<repoVars, window, pre, guard, made, boundVars>>

OpenWindow(r) ==
  /\ pc[r] = "begun"
  /\ window' = Open(window, base[r])
  /\ guard' = [guard EXCEPT ![r] = base[r]]
  /\ Goto(r, "opened")
  /\ UNCHANGED <<repoVars, lock, pre, base, made, boundVars>>

SchemaChanged(r) == Schema(pre[r]) # Schema(base[r])

\* verify_contracts/2: a changed schema rejects the request, a conflict makes the
\* worker elaborate the documents again.
Verify(r) ==
  /\ pc[r] = "opened"
  /\ Goto(r, IF SchemaChanged(r) THEN "closing"
             ELSE IF Intersects(window, pre[r], base[r], MustExist(r), MustNotExist(r))
             THEN "conflict" ELSE "verified")
  /\ UNCHANGED <<repoVars, window, lock, pre, base, guard, made, boundVars>>

\* run_synchronous_reelaboration_and_commit: at the head of now, guard kept.
Reelaborate(r) ==
  /\ pc[r] = "conflict"
  /\ pre' = [pre EXCEPT ![r] = head]
  /\ base' = [base EXCEPT ![r] = head]
  /\ Goto(r, "fresh")
  /\ UNCHANGED <<repoVars, window, lock, guard, made, boundVars>>

\* What an insert and a replace still check when they are applied.
Applicable(r) ==
  \/ r \in Lenient
  \/ r \in Inserts /\ IdsOf[r] \cap Docs(base[r]) = {}
  \/ r \notin Inserts /\ IdsOf[r] \subseteq Docs(base[r])

\* Not applicable, refused by the validation, or without effect: no commit.
NoCommitMade(r) ==
  /\ pc[r] \in {"verified", "fresh"}
  /\ Goto(r, "closing")
  /\ UNCHANGED <<repoVars, window, lock, pre, base, guard, made, boundVars>>

\* Faulty: only what a commit adds is told.
RegisterAdditions(c, content, added, removed) ==
  /\ window' = Register(window, content.id, AsParent(base[c]), added, {})
  /\ made' = [made EXCEPT ![c] = content]
  /\ Goto(c, "registered")

\* register_commit_in_change_window runs before the new head is published.
RegisterCommit(c, content, added, removed) ==
  /\ window' = Register(window, content.id, AsParent(base[c]), added, removed)
  /\ made' = [made EXCEPT ![c] = content]
  /\ Goto(c, "registered")

ApplyAndRegister(r) ==
  /\ pc[r] \in {"verified", "fresh"}
  /\ Applicable(r)
  /\ \E id \in CommitIds :
       /\ Fresh(id)
       /\ RegisterCommit(r, Content(id, base[r], Docs(base[r]) \cup IdsOf[r] \cup CreatesOf[r],
                                    Schema(base[r])),
                         IdsOf[r] \cup (CreatesOf[r] \ Docs(base[r])),
                         IdsOf[r] \cap Docs(base[r]))
  /\ UNCHANGED <<repoVars, lock, pre, base, guard, boundVars>>

PublishRequest(r) ==
  /\ pc[r] = "registered"
  /\ head = base[r]
  /\ MoveHead(made[r])
  /\ made' = [made EXCEPT ![r] = NoContent]
  /\ Goto(r, "closing")
  /\ UNCHANGED <<window, lock, pre, base, guard, boundVars>>

\* The compare-and-set of the head, or the store, fails: the entry stays.
RequestFails(r) ==
  /\ pc[r] = "registered"
  /\ \/ head # base[r] /\ UNCHANGED faults
     \/ faults < scenario.faults /\ faults' = faults + 1
  /\ made' = [made EXCEPT ![r] = NoContent]
  /\ Goto(r, "closing")
  /\ UNCHANGED <<repoVars, window, lock, pre, base, guard, resets, foreign, restarts, scenario>>

CloseWindow(r) ==
  /\ pc[r] = "closing"
  /\ MayClose(window, guard[r])
  /\ window' = Close(window, guard[r])
  /\ guard' = [guard EXCEPT ![r] = NoCommit]
  /\ lock' = Nobody
  /\ Goto(r, "done")
  /\ UNCHANGED <<repoVars, pre, base, made, boundVars>>

------------------------------------------------------------------------------
(* Plain transactions: read, then validate and commit under the lock *)

Read(w) ==
  /\ pc[w] = "idle"
  /\ base' = [base EXCEPT ![w] = head]
  /\ Goto(w, "read")
  /\ UNCHANGED <<repoVars, window, lock, pre, guard, made, boundVars>>

\* Any change of the documents: new ones, deleted ones, updated ones; an update
\* both adds and removes triples of its subject.
WriteAndRegister(w) ==
  /\ pc[w] = "read"
  /\ lock = Nobody
  /\ lock' = w
  /\ \E id \in CommitIds, docs \in SUBSET scenario.docs, updated \in SUBSET Docs(base[w]),
        schema \in Schema(base[w])..scenario.schemas :
       /\ Fresh(id)
       /\ updated \subseteq docs
       /\ docs # Docs(base[w]) \/ updated # {} \/ schema # Schema(base[w])
       /\ RegisterCommit(w, Content(id, base[w], docs, schema),
                         (docs \ Docs(base[w])) \cup updated,
                         (Docs(base[w]) \ docs) \cup updated)
  /\ UNCHANGED <<repoVars, pre, base, guard, boundVars>>

PublishWrite(w) ==
  /\ pc[w] = "registered"
  /\ head = base[w]
  /\ MoveHead(made[w])
  /\ made' = [made EXCEPT ![w] = NoContent]
  /\ lock' = Nobody
  /\ Goto(w, "done")
  /\ UNCHANGED <<window, pre, base, guard, boundVars>>

\* retry_transaction/2: the transaction starts again, its entry stays.
WriteFails(w) ==
  /\ pc[w] = "registered"
  /\ \/ head # base[w] /\ UNCHANGED faults
     \/ faults < scenario.faults /\ faults' = faults + 1
  /\ made' = [made EXCEPT ![w] = NoContent]
  /\ lock' = Nobody
  /\ Goto(w, "idle")
  /\ UNCHANGED <<repoVars, window, pre, base, guard, resets, foreign, restarts, scenario>>

------------------------------------------------------------------------------
(* Other moves of the head *)

PrepareRebase(b) ==
  /\ pc[b] = "idle"
  /\ base' = [base EXCEPT ![b] = head]
  /\ Goto(b, "prepared")
  /\ UNCHANGED <<repoVars, window, lock, pre, guard, made, boundVars>>

\* rebase_commit_window under the lock: the new head is registered with no change.
RebaseOnto(content, parent) ==
  /\ window' = Register(window, content.id, parent, {}, {})
  /\ MoveHead(content)

\* Commits replayed, or another branch's head taken over: any content.  Its parent
\* is the old head, or a commit that the window does not know and that counts as none.
Rebase(b) ==
  /\ pc[b] = "prepared"
  /\ lock = Nobody
  /\ head = base[b]
  /\ \E id \in CommitIds, docs \in SUBSET scenario.docs :
       /\ Fresh(id)
       /\ \E parent \in {NoCommit, AsParent(head)} :
            RebaseOnto(Content(id, head, docs, Schema(head)), parent)
  /\ Goto(b, "done")
  /\ UNCHANGED <<lock, pre, base, guard, made, boundVars>>

\* Nothing to rebase: the head stays, and is registered once more.
RebaseNothing(b) ==
  /\ pc[b] = "prepared"
  /\ lock = Nobody
  /\ head = base[b]
  /\ RebaseOnto(history[head], ParentOf(head))
  /\ Goto(b, "done")
  /\ UNCHANGED <<lock, pre, base, guard, made, boundVars>>

RebaseRejected(b) ==
  /\ pc[b] = "prepared"
  /\ lock = Nobody
  /\ head # base[b]
  /\ Goto(b, "done")
  /\ UNCHANGED <<repoVars, window, lock, pre, base, guard, made, boundVars>>

\* A branch is reset to one of its older commits, by a plain transaction of the
\* repository graph: nothing is validated at the branch, nothing registered.
Reset ==
  /\ resets < scenario.resets
  /\ resets' = resets + 1
  /\ lock = Nobody
  /\ \E c \in AncestorsOf(head) \ {head} : MoveHead(history[c])
  /\ UNCHANGED <<window, lock, pc, pre, base, guard, made, faults, foreign, restarts, scenario>>

\* A fetched head by fast forward, pull or a push from elsewhere; another process.
ForeignMove ==
  /\ foreign < scenario.foreign
  /\ foreign' = foreign + 1
  /\ \E id \in CommitIds, docs \in SUBSET scenario.docs :
       /\ Fresh(id)
       /\ MoveHead(Content(id, head, docs, Schema(head)))
  /\ UNCHANGED <<window, lock, pc, pre, base, guard, made, faults, resets, restarts, scenario>>

\* The window is in memory only, and so is every request.
Restart ==
  /\ restarts < scenario.restarts
  /\ restarts' = restarts + 1
  /\ window' = EmptyWindow
  /\ lock' = Nobody
  /\ pc' = [c \in Clients |-> IF pc[c] = "idle" THEN "idle" ELSE "done"]
  /\ guard' = [r \in Requests |-> NoCommit]
  /\ made' = [c \in Clients |-> NoContent]
  /\ UNCHANGED <<repoVars, pre, base, faults, resets, foreign, scenario>>

RequestStep(r) ==
  \/ Elaborate(r) \/ Begin(r) \/ OpenWindow(r) \/ Verify(r) \/ Reelaborate(r)
  \/ NoCommitMade(r) \/ ApplyAndRegister(r) \/ PublishRequest(r) \/ RequestFails(r)
  \/ CloseWindow(r)

WriterStep(w) == Read(w) \/ WriteAndRegister(w) \/ PublishWrite(w) \/ WriteFails(w)

RebaserStep(b) == PrepareRebase(b) \/ Rebase(b) \/ RebaseNothing(b) \/ RebaseRejected(b)

Next ==
  \/ \E r \in Requests : RequestStep(r)
  \/ \E w \in Writers : WriterStep(w)
  \/ \E b \in Rebasers : RebaserStep(b)
  \/ Reset
  \/ ForeignMove
  \/ Restart

Spec == Init /\ [][Next]_vars

------------------------------------------------------------------------------
(* Properties *)

Locations == {"idle", "queued", "begun", "opened", "conflict", "verified", "fresh",
              "registered", "closing", "done", "read", "prepared"}

Contents == [id : Commits, before : Commits \cup {NoCommit}, docs : SUBSET DocIds,
             schema : 0..scenario.schemas]

\* The types of the variables, and an index that only names entries of its id.
TypeOK ==
  /\ scenario \in Scenarios
  /\ DOMAIN history \subseteq Commits
  /\ \A c \in DOMAIN history : history[c] \in Contents /\ history[c].id = c
  /\ head \in DOMAIN history
  /\ rootIsInitial \in BOOLEAN
  /\ \A id \in DOMAIN window.index :
       Knows(window, id) /\ window.commits[Position(window, id)].id = id
  /\ \A i \in DOMAIN window.commits : window.commits[i] \in
       [id : Commits, parent : Commits \cup {NoCommit},
        added : SUBSET DocIds, removed : SUBSET DocIds, active : Nat]
  /\ lock \in Clients \cup {Nobody}
  /\ pc \in [Clients -> Locations]
  /\ pre \in [Requests -> DOMAIN history \cup {NoCommit}]
  /\ base \in [Clients -> DOMAIN history \cup {NoCommit}]
  /\ guard \in [Requests -> DOMAIN history \cup {NoCommit}]
  /\ \A c \in Clients : made[c] \in Contents \cup {NoContent}
  /\ faults \in 0..scenario.faults /\ resets \in 0..scenario.resets
  /\ foreign \in 0..scenario.foreign /\ restarts \in 0..scenario.restarts

\* Only requests and transactions write; nothing is rebased, reset or fetched.
OnlyWrites == scenario.clients \cap Rebasers = {} /\ resets = 0 /\ foreign = 0

\* A contract that passes verification relies on nothing that changed: what must
\* not exist has not appeared, what must exist has not vanished, and the schema is
\* the same, at the commit it was elaborated at and at the head it is applied to,
\* whatever committed, failed, was pruned or restarted in between; a head that is rebased,
\* reset or fetched is not told to the window with its changes.
NoMissedConflict == OnlyWrites =>
  \A r \in Requests : pc[r] = "verified" =>
    /\ MustNotExist(r) \cap Docs(base[r]) \subseteq Docs(pre[r])
    /\ MustExist(r) \cap Docs(pre[r]) \subseteq Docs(base[r])
    /\ Schema(pre[r]) = Schema(base[r])

\* A window that is open can be closed: its commit is still there and counted, so
\* the assertions of close_commit_window never fail and never poison the mutex.
GuardsCanClose ==
  \A r \in Requests : guard[r] # NoCommit => MayClose(window, guard[r])

\* An entry tells all that its commit changed.
Complete(c) ==
  LET entry == window.commits[Position(window, c)]
      old == Docs(history[c].before)
  IN  Docs(c) \ old \subseteq entry.added /\ old \ Docs(c) \subseteq entry.removed

\* Between two commits of the branch the window has a gap nowhere: the commits
\* above the older one are all there, above it, in order, with their changes.
HistoryIsContiguous == OnlyWrites =>
  \A a, c \in AncestorsOf(head) :
    (a # c /\ a \in AncestorsOf(c) /\ Knows(window, a) /\ Knows(window, c)) =>
      /\ Knows(window, history[c].before)
      /\ Position(window, history[c].before) < Position(window, c)
      /\ Complete(c)

\* A window is what a verification may read: well-formed, and without a gap
WindowIsReadable == TypeOK /\ HistoryIsContiguous

\* A window that reaches back to the root of the branch keeps all commits of the branch,
\* so that the walk from the head reaches any of them that a transaction may have started
\* from, whatever lost its race and left its entry behind; except over a restart, and on
\* a branch whose first commits race to replace the initial one and have no recorded parent.
AncestorsAreKept ==
  [][(OnlyWrites /\ restarts' = restarts /\ ~rootIsInitial /\ Knows(window, Root)) =>
       \A c \in AncestorsOf(head) : Knows(window, c) => Knows(window', c)]_vars
==============================================================================
