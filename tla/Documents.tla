------------------------------- MODULE Documents -------------------------------
(***************************************************************************)
(* The deletion of documents from the instance graph (doc/delete.rs) in a  *)
(* transaction: the loops that remove the triples of a document and of its *)
(* parts, the check of references when the transaction is committed, and   *)
(* the hook that deletes the @shared documents nobody refers to any more.  *)
(* A layer is a set of triples; a node exists when it has an rdf:type.     *)
(* Every round of a loop is a step.  Nothing else changes the layer that   *)
(* is read meanwhile: the triples to be removed are collected in a         *)
(* builder.                                                                *)
(***************************************************************************)
EXTENDS Naturals, Sequences, FiniteSets, SequencesExt

CONSTANTS
  Order,      \* the subjects, in the order of their identifiers
  Layers,     \* the instance layers a transaction starts from
  Bulks,      \* sets of documents deleted in one request
  Nobody      \* no node

VARIABLES
  layer,      \* the layer of the database
  read,       \* the layer that is read and that triples are removed from
  builder,    \* the triples the builder of read removes so far
  removals,   \* the negative delta of read
  request,    \* what the transaction does: how it deletes, whether it unlinks, what it keeps
  doomed,     \* documents whose deletion has not begun
  current,    \* the document that is being deleted
  next,       \* visit_next: the stack of nodes to visit
  visited,    \* nodes the loop has visited
  candidates, \* shared documents the hook has still to look at
  path,       \* the walk: the nodes it came through, with the sources it has not looked at
  memo,       \* what the walk knows: the nodes that are live, those that are dead
  orphans,    \* the shared documents that are to be deleted
  stage,      \* "open", "delete", "check", "walk", "cascade", "committed", "refused"
  before,     \* the layer the transaction started from (observed)
  validated,  \* the layer that was validated (observed)
  lost        \* objects of triples removed so far (observed)

loop == <<doomed, current, next, visited>>
walk == <<candidates, path, memo, orphans>>
observed == <<before, validated, lost>>
vars == <<layer, read, builder, removals, request, loop, walk, stage, observed>>

\* Classes: shared and plain documents, subdocuments and list cells, hashed values,
\* content-addressed JSON and the documents that are plain JSON.  The document types
\* are the classes without the subdocuments
DocumentTypes == {"Document", "Shared"}
SharedTypes == {"Shared"}
ValueHashes == {"Value"}
ContentTypes == {"JSON"}
JsonTypes == {"JSON", "JSONDocument", "List"}
Classes == DocumentTypes \union ValueHashes \union JsonTypes \union {"Sub"}

Nodes == ToSet(Order)

\* The sequences of a set of nodes in the order of the identifiers: there is one
Place(n) == CHOOSE i \in DOMAIN Order : Order[i] = n
InOrder(nodes) ==
  {s \in [1..Cardinality(nodes) -> nodes] :
     /\ ToSet(s) = nodes
     /\ \A i, j \in DOMAIN s : i < j => Place(s[i]) < Place(s[j])}
Earliest(nodes) == {n \in nodes : \A m \in nodes : Place(n) <= Place(m)}

-------------------------------------------------------------------------------
(* Reading a layer *)

TriplesS(l, s) == {t \in l : t[1] = s}
TriplesO(l, o) == {t \in l : t[3] = o}
Sources(l, o) == {t[1] : t \in TriplesO(l, o)}
TypeOf(l, n) == {t[3] : t \in {u \in TriplesS(l, n) : u[2] = "type"}}
HasType(l, n, classes) == TypeOf(l, n) \cap classes # {}
Exists(l, n) == TypeOf(l, n) # {}
Dangling(l) == {t \in l : t[2] # "type" /\ ~Exists(l, t[3])}

\* What the schema and the identifiers see to: a node has one type, and a reference leads
\* to a node that exists; a part has one owner, whose identifier begins its own; list cells
\* point to their element; and JSON has parts of its own
SinglyTyped(l) == \A n \in Nodes : \A t, u \in TriplesS(l, n) : t[2] = "type" /\ u[2] = "type" => t = u
PartsAreOwned(l) ==
  \A n \in Nodes : HasType(l, n, {"Sub", "List"}) => \E owner \in Nodes : Sources(l, n) = {owner}
JsonIsJson(l) ==
  \E json \in SUBSET Nodes :
    /\ \A n \in Nodes : HasType(l, n, {"JSON", "JSONDocument"}) => n \in json
    /\ \A n \in json : TypeOf(l, n) \subseteq JsonTypes
    /\ \A t \in l : t[1] \in json /\ t[2] # "type" => t[3] \in json
WellFormed(l) ==
  /\ l \subseteq (Nodes \X {"type"} \X Classes) \union (Nodes \X {"link", "first"} \X Nodes)
  /\ SinglyTyped(l) /\ \A t \in l : Exists(l, t[1])
  /\ Dangling(l) = {}
  /\ PartsAreOwned(l) /\ JsonIsJson(l)
  /\ \A t \in l : t[2] = "first" => HasType(l, t[1], {"List", "JSON"})
  /\ \A n \in Nodes : HasType(l, n, ContentTypes) => TriplesO(l, n) # {}
  /\ \A n \in Nodes : HasType(l, n, {"JSONDocument"}) => TriplesO(l, n) = {}

ASSUME LayerAssumption == \A l \in Layers : WellFormed(l)
ASSUME BulkAssumption == \A ids \in Bulks : ids \subseteq Nodes
ASSUME NodeAssumption == Order \in Seq(Nodes) /\ Nodes \cap Classes = {} /\ Nobody \notin Nodes

-------------------------------------------------------------------------------
(* The objects of a node that are deleted with it *)

\* Mutant: list cells are no parts
ListsAreNoParts(l, n) == n \in Nodes /\ HasType(l, n, {"Sub", "JSON"})

\* A part is deleted with what it belongs to: it has a type that is neither a
\* document type nor a value hash
IsPart(l, n) ==
  n \in Nodes /\ Exists(l, n) /\ ~HasType(l, n, DocumentTypes \union ValueHashes)

\* Mutant: the link that led here counts as well
CountsEveryLink(l, n, expected, seen) == \E s \in Sources(l, n) : s # n

HasOtherLink(l, n, expected, seen) == \E s \in Sources(l, n) : s \notin seen /\ s # expected

\* What is visited for one document counts for all of them, and so do the documents
\* still to be deleted
HasExternalReference(l, n, ids, seen) == \E s \in Sources(l, n) : s \notin seen /\ s \notin ids

Objects(l, n) == {t[3] : t \in TriplesS(l, n)}

\* Content that is shared goes only when nothing that stays refers to it
Recursed(l, n, seen) ==
  {o \in Objects(l, n) :
     /\ o \notin seen /\ IsPart(l, o)
     /\ HasType(l, o, ContentTypes) => ~HasOtherLink(l, o, n, seen)}

\* A document of plain JSON: its parts are what is JSON itself
JsonRecursed(l, n, seen) ==
  {o \in Objects(l, n) :
     /\ o \notin seen /\ HasType(l, o, JsonTypes)
     /\ HasType(l, o, ContentTypes) => ~HasOtherLink(l, o, n, seen)}

BulkRecursed(l, n, ids, seen) ==
  {o \in Objects(l, n) :
     /\ o \notin seen /\ IsPart(l, o)
     /\ HasType(l, o, ContentTypes) => ~HasExternalReference(l, o, ids, seen)}

-------------------------------------------------------------------------------
(* The requests *)

Request(op, unlink, ids, kept) == [op |-> op, unlink |-> unlink, ids |-> ids, kept |-> kept]

Init ==
  /\ layer \in Layers
  /\ read = layer /\ before = layer /\ validated = layer
  /\ builder = {} /\ removals = {} /\ lost = {}
  /\ request = Request("none", FALSE, {}, {}) /\ stage = "open"
  /\ doomed = {} /\ current = Nobody /\ next = <<>> /\ visited = {}
  /\ candidates = {} /\ path = <<>> /\ memo = [live |-> {}, dead |-> {}] /\ orphans = {}

Begin(asked, documents) ==
  /\ stage' = "delete"
  /\ request' = asked /\ doomed' = documents
  /\ UNCHANGED <<layer, read, builder, removals, current, next, visited, walk, observed>>

\* A document that does not exist is an error
Delete(id, unlink) ==
  /\ stage = "open" /\ HasType(read, id, DocumentTypes \union {"JSONDocument"})
  /\ Begin(Request("one", unlink, {id}, {}), {id})

Bulk(ids) ==
  /\ stage = "open" /\ \A id \in ids : HasType(read, id, DocumentTypes)
  /\ Begin(Request("bulk", FALSE, ids, {}), ids)

\* Every instance on its own
ByType(class, unlink) ==
  /\ stage = "open"
  /\ LET ids == {n \in Nodes : HasType(read, n, {class})}
     IN Begin(Request("type", unlink, ids, {}), ids)

\* A document that replaces another by one that keeps only some of its references
Replace(id, kept) ==
  /\ stage = "open" /\ HasType(read, id, DocumentTypes)
  /\ kept \subseteq {t \in TriplesS(read, id) : HasType(read, t[3], DocumentTypes)}
  /\ Begin(Request("replace", FALSE, {id}, kept \union {t \in TriplesS(read, id) : t[2] = "type"}),
           {id})

\* nuke: delete_all_triples
DeleteAll ==
  /\ stage = "open" /\ stage' = "check"
  /\ request' = Request("all", FALSE, {}, {}) /\ builder' = read
  /\ UNCHANGED <<layer, read, removals, loop, walk, observed>>

-------------------------------------------------------------------------------
(* The loop that deletes documents, of a request and of a round of the cascade *)

Deleting == stage \in {"delete", "cascade"}
InBulk == stage = "delete" /\ request.op = "bulk"
IsJson(id) == stage = "delete" /\ request.op = "one" /\ HasType(read, id, {"JSONDocument"})

\* In bulk what was visited for one document stays visited for the others
BeginDocument(id) ==
  /\ Deleting /\ current = Nobody /\ id \in doomed
  /\ doomed' = doomed \ {id} /\ current' = id /\ next' = <<id>>
  /\ visited' = IF InBulk THEN visited ELSE {}
  /\ UNCHANGED <<layer, read, builder, removals, request, walk, stage, observed>>

Parts(n, seen) ==
  IF InBulk THEN BulkRecursed(read, n, request.ids, seen)
  ELSE IF IsJson(current) THEN JsonRecursed(read, n, seen)
  ELSE Recursed(read, n, seen)

Visit(n) ==
  /\ Deleting /\ next # <<>> /\ n = Last(next)
  /\ IF InBulk /\ n \in visited THEN next' = Front(next) /\ UNCHANGED <<builder, visited>>
     ELSE /\ visited' = visited \union {n}
          /\ builder' = builder \union TriplesS(read, n)
          /\ \E parts \in InOrder(Parts(n, visited')) : next' = Front(next) \o parts
  /\ UNCHANGED <<layer, read, removals, request, doomed, current, walk, stage, observed>>

\* A reference from a list is not unlinked
UnlinkIdDocument(l, id) == {t \in TriplesO(l, id) : t[2] # "first"}

\* References from orphans go with the orphans
UnlinkFiltered(l, id, gone) == {t \in UnlinkIdDocument(l, id) : t[1] \notin gone}

Unlinked(id) ==
  IF stage = "cascade" THEN UnlinkFiltered(read, id, orphans)
  ELSE IF request.unlink THEN UnlinkIdDocument(read, id)
  ELSE {}

EndDocument ==
  /\ Deleting /\ current # Nobody /\ next = <<>>
  /\ builder' = builder \union Unlinked(current) /\ current' = Nobody
  /\ UNCHANGED <<layer, read, removals, request, doomed, next, visited, walk, stage, observed>>

\* Triples that are removed and added again cancel out
EndRequest ==
  /\ stage = "delete" /\ current = Nobody /\ doomed = {}
  /\ builder' = builder \ request.kept /\ stage' = "check"
  /\ UNCHANGED <<layer, read, removals, request, loop, walk, observed>>

-------------------------------------------------------------------------------
(* The commit and the cascade to @shared documents *)

\* Objects of removed triples that are still instances of a shared class
Candidates(l, removed) ==
  {n \in Nodes : HasType(l, n, SharedTypes) /\ \E t \in removed : t[3] = n}

NewLayer ==
  LET new == read \ builder IN
  /\ read' = new /\ removals' = builder /\ builder' = {}
  /\ lost' = lost \union {t[3] : t \in builder}
  /\ candidates' = Candidates(new, builder)
  /\ memo' = [live |-> {}, dead |-> {}] /\ orphans' = {} /\ stage' = "walk"

\* A reference to nothing is refused by the schema check
Validate ==
  /\ stage = "check"
  /\ IF Dangling(read \ builder) = {}
     THEN NewLayer /\ validated' = read'
     ELSE /\ stage' = "refused"
          /\ UNCHANGED <<read, removals, builder, lost, candidates, memo, orphans, validated>>
  /\ UNCHANGED <<layer, request, loop, path, before>>

\* A call of is_shared_target_live_memo for a node
Frame(n) == [node |-> n, sources |-> Sources(read, n)]

\* Mutant: what was visited for other candidates is not looked at again
LooksOnce(n) ==
  /\ stage = "walk" /\ path = <<>> /\ n \in candidates
  /\ candidates' = candidates \ {n}
  /\ IF n \in memo.live \union memo.dead
     THEN /\ orphans' = IF n \in memo.dead THEN orphans \union {n} ELSE orphans
          /\ UNCHANGED <<path, visited>>
     ELSE path' = <<Frame(n)>> /\ visited' = visited \union {n} /\ UNCHANGED orphans
  /\ UNCHANGED <<layer, read, builder, removals, request, doomed, current, next, memo, stage,
                 observed>>

\* The candidates are a hash set: they come in any order
Look(n) ==
  /\ stage = "walk" /\ path = <<>> /\ n \in candidates
  /\ candidates' = candidates \ {n}
  /\ IF n \in memo.live \union memo.dead
     THEN /\ orphans' = IF n \in memo.dead THEN orphans \union {n} ELSE orphans
          /\ UNCHANGED <<path, visited>>
     ELSE path' = <<Frame(n)>> /\ visited' = {n} /\ UNCHANGED orphans
  /\ UNCHANGED <<layer, read, builder, removals, request, doomed, current, next, memo, stage,
                 observed>>

\* The call on top looks at the sources of its node, in the order of their identifiers
Top == path[Len(path)]
Walking == stage = "walk" /\ path # <<>>
Behind(s) == [path EXCEPT ![Len(path)].sources = @ \ {s}]
WalkUnchanged == UNCHANGED <<layer, read, builder, removals, request, doomed, current, next,
                             candidates, stage, observed>>

PassOver(s) ==
  /\ Walking /\ s \in Earliest(Top.sources)
  /\ s = Top.node \/ s \in visited \/ s \in memo.dead
  /\ path' = Behind(s)
  /\ WalkUnchanged /\ UNCHANGED <<visited, memo, orphans>>

\* Every call on the way returns that its node is live
FindLive(s) ==
  /\ Walking /\ s \in Earliest(Top.sources)
  /\ s # Top.node /\ s \notin visited \union memo.dead
  /\ s \in memo.live \/ (Exists(read, s) /\ ~HasType(read, s, SharedTypes))
  /\ memo' = [memo EXCEPT !.live = @ \union {path[i].node : i \in DOMAIN path}] /\ path' = <<>>
  /\ WalkUnchanged /\ UNCHANGED <<visited, orphans>>

GoTo(s) ==
  /\ Walking /\ s \in Earliest(Top.sources)
  /\ s # Top.node /\ s \notin visited \union memo.dead \union memo.live
  /\ Exists(read, s) => HasType(read, s, SharedTypes)
  /\ path' = Append(Behind(s), Frame(s)) /\ visited' = visited \union {s}
  /\ WalkUnchanged /\ UNCHANGED <<memo, orphans>>

FindDead ==
  /\ Walking /\ Top.sources = {}
  /\ memo' = [memo EXCEPT !.dead = @ \union {Top.node}] /\ path' = Front(path)
  /\ orphans' = IF Len(path) = 1 THEN orphans \union {Top.node} ELSE orphans
  /\ WalkUnchanged /\ UNCHANGED visited

\* perform_shared_cascade: rounds of the cascade, each on the layer of the one before,
\* until there is nothing to delete; the hook does nothing without deletions
EndWalk ==
  /\ stage = "walk" /\ path = <<>> /\ candidates = {}
  /\ IF orphans = {} THEN stage' = "committed" /\ layer' = read /\ UNCHANGED doomed
                     ELSE stage' = "cascade" /\ doomed' = orphans /\ UNCHANGED layer
  /\ UNCHANGED <<read, builder, removals, request, current, next, visited, walk, observed>>

EndCascade ==
  /\ stage = "cascade" /\ current = Nobody /\ doomed = {}
  /\ NewLayer
  /\ UNCHANGED <<layer, request, loop, path, before, validated>>

Open ==
  \/ \E id \in Nodes, unlink \in BOOLEAN : Delete(id, unlink)
  \/ \E ids \in Bulks : Bulk(ids)
  \/ \E class \in DocumentTypes, unlink \in BOOLEAN : ByType(class, unlink)
  \/ DeleteAll
  \/ \E id \in Nodes : \E kept \in SUBSET TriplesS(read, id) : Replace(id, kept)

Proceed ==
  \/ \E id \in Nodes : BeginDocument(id) \/ Visit(id)
  \/ EndDocument \/ EndRequest \/ Validate
  \/ \E n \in Nodes : Look(n) \/ PassOver(n) \/ FindLive(n) \/ GoTo(n)
  \/ FindDead \/ EndWalk \/ EndCascade

Next == Open \/ Proceed

Spec == Init /\ [][Next]_vars /\ WF_vars(Proceed)

-------------------------------------------------------------------------------
(* Properties *)

TypeOK ==
  /\ layer \subseteq before /\ read \subseteq before /\ validated \subseteq before
  /\ builder \subseteq read /\ removals \subseteq before
  /\ doomed \subseteq Nodes /\ current \in Nodes \union {Nobody} /\ next \in Seq(Nodes)
  /\ visited \subseteq Nodes
  /\ candidates \subseteq Nodes /\ orphans \subseteq Nodes
  /\ memo \in [live : SUBSET Nodes, dead : SUBSET Nodes]
  /\ path \in Seq([node : Nodes, sources : SUBSET Nodes])
  /\ stage \in {"open", "delete", "check", "walk", "cascade", "committed", "refused"}

Committed == stage = "committed"
InHook == stage \in {"walk", "cascade"}

\* The nodes above the given ones: the least set that has them and what points to its members
Above(rel, nodes) ==
  {n \in Nodes : \A c \in SUBSET Nodes :
     nodes \subseteq c /\ (\A p \in rel : p[2] \in c => p[1] \in c) => n \in c}

\* The shared documents of l that an instance of the given classes refers to, or
\* another such shared document
LinkClosed(l, c) ==
  \A t \in l : t[1] \in c /\ t[1] # t[3] /\ HasType(l, t[3], SharedTypes) => t[3] \in c
Below(l, nodes) == {n \in Nodes : \A c \in SUBSET Nodes : nodes \subseteq c /\ LinkClosed(l, c) => n \in c}
Instances(l, classes) == {n \in Nodes : HasType(l, n, classes)}
LiveFrom(l, classes) == Below(l, Instances(l, classes))
LiveShared(l) ==
  LiveFrom(l, Classes \ SharedTypes) \cap Instances(l, SharedTypes)

\* Shared documents that refer to each other in a circle
SharedLinks(l) == {<<t[1], t[3]>> : t \in {u \in l :
  u[1] # u[3] /\ HasType(l, u[1], SharedTypes) /\ HasType(l, u[3], SharedTypes)}}
InCircle(l, n) == n \in Above(SharedLinks(l), {p[1] : p \in {q \in SharedLinks(l) : q[2] = n}})
\* No such circle refers to n, however far away
Untangled(l, n) == \A m \in Above(SharedLinks(l), {n}) : ~InCircle(l, m)

\* What the walk is to find: the cascade deletes no shared document that something
\* live refers to, whatever candidates were resolved before it
\* (is_shared_target_live_memo)
LiveTreesAreKept ==
  [][InHook /\ read' # read =>
       \A n \in LiveShared(read) : Untangled(read, n) => Exists(read', n)]_vars

\* The same for shared documents in a circle that a document keeps alive, as the
\* comment of is_shared_target_live_memo has it: "A @shared document that is itself
\* live references it"
LiveSharedAreKept ==
  [][InHook /\ read' # read => \A n \in LiveFrom(read, {"Document"}) : Exists(read', n)]_vars

\* A shared document that lost a reference and stays is live: the rounds go on until
\* nothing that a deletion orphaned is left (perform_shared_cascade)
OrphansAreGone ==
  Committed => \A n \in lost \cap Nodes : HasType(layer, n, SharedTypes) => n \in LiveShared(layer)

\* What is committed refers to nothing that is gone, although the layers of the
\* cascade are not validated any more (unlink_id_document_filtered)
NothingDangles == Committed => Dangling(layer) = {}

\* A part stays only with what it belongs to (delete_id_document)
PartsHaveOwners ==
  Committed => \A n \in Nodes : HasType(layer, n, {"Sub", "List"}) => TriplesO(layer, n) # {}

\* A layer that is committed is one the database could have been given: no reference
\* leads nowhere and no part is left alone
ReferencesHold == TypeOK /\ NothingDangles /\ PartsHaveOwners

\* Content that nobody refers to any more stays only when two that were deleted one by one
\* referred to it: two of the request, unless it was one in bulk, or two that the cascade
\* deleted (has_other_link, delete_multiple_documents_with_roots)
ContentIsCounted ==
  Committed => \A n \in Nodes :
    HasType(layer, n, ContentTypes) /\ TriplesO(layer, n) = {} =>
      \E s, t \in Sources(IF request.op = "bulk" THEN validated ELSE before, n) : s # t

\* A deletion leaves nothing behind that only what it deleted referred to
NothingIsLeftBehind == OrphansAreGone /\ ContentIsCounted
=============================================================================
