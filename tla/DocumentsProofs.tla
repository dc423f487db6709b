--------------------------- MODULE DocumentsProofs ---------------------------
(***************************************************************************)
(* Proofs about the deletion of documents.  The invariant says what the    *)
(* loop that deletes owes to the nodes on its stack, and what the walk     *)
(* knows of the nodes that it has resolved; a layer is cut down from both. *)
(* Reachability is a least closed set, so that what holds of everything    *)
(* live is shown by one set that is closed.                                *)
(***************************************************************************)
EXTENDS Documents, SequenceTheorems, FiniteSetTheorems, TLAPS

-------------------------------------------------------------------------------
(* The invariant: layers *)

\* What is left of a well-formed layer when nodes are removed with their triples
Shape(l) ==
  /\ l \subseteq (Nodes \X {"type"} \X Classes) \union (Nodes \X {"link", "first"} \X Nodes)
  /\ SinglyTyped(l) /\ \A t \in l : Exists(l, t[1])
  /\ \A n \in Nodes : HasType(l, n, {"Sub", "List"}) => \A s, t \in Sources(l, n) : s = t
  /\ \A t \in l : t[2] = "first" => HasType(l, t[1], {"List", "JSON"})
  /\ \A n \in Nodes : HasType(l, n, {"JSONDocument"}) => TriplesO(l, n) = {}

Owned(l) == \A n \in Nodes : HasType(l, n, {"Sub", "List"}) => TriplesO(l, n) # {}

\* What may be removed: nodes with all their triples, and with them their parts
Removable(l, b) ==
  /\ b \subseteq l
  /\ \A t \in b : t[2] = "type" => TriplesS(l, t[1]) \subseteq b
  /\ \A t \in b : HasType(l, t[3], {"Sub", "List"}) => Exists(b, t[3])

\* Content nobody will refer to goes as well, unless several refer to it now
Counted(l, b, bulk) ==
  \A n \in Nodes :
    HasType(l, n, ContentTypes) /\ TriplesO(l, n) # {} /\ TriplesO(l, n) \subseteq b =>
      Exists(b, n) \/ (~bulk /\ \E s, t \in Sources(l, n) : s # t)

Base == IF request.op = "bulk" THEN validated ELSE before
ContentHas(l, base) ==
  \A n \in Nodes : HasType(l, n, ContentTypes) /\ TriplesO(l, n) = {} => \E s, t \in Sources(base, n) : s # t

\* The layers of each stage
LayersInv ==
  /\ stage \in {"open", "delete", "check"} =>
       /\ read = before /\ layer = before /\ validated = before /\ WellFormed(before)
       /\ removals = {} /\ lost = {} /\ memo = [live |-> {}, dead |-> {}] /\ path = <<>>
       /\ candidates = {} /\ orphans = {}
  /\ InHook \/ Committed =>
       /\ Shape(read) /\ Owned(read) /\ Dangling(read) = {} /\ ContentHas(read, Base)
       /\ read \subseteq validated /\ validated \subseteq before
  /\ Committed => layer = read
  /\ stage \in {"open", "walk"} => builder = {}
  /\ ~Deleting => current = Nobody /\ next = <<>>
  /\ stage = "open" => visited = {}
  /\ stage = "check" => /\ Removable(read, builder)
                        /\ Counted(read, builder, request.op = "bulk")

-------------------------------------------------------------------------------
(* The invariant: the loop that deletes *)

Roots == IF stage = "delete" THEN request.ids ELSE orphans
RootTypes == DocumentTypes \union {"JSONDocument"}
PartTypes == {"Sub", "List", "JSON"}
Dying(n) == Exists(builder, n) \/ n \in ToSet(next)

RequestInv ==
  /\ request.ids \subseteq Nodes /\ \A id \in request.ids : HasType(read, id, RootTypes)
  /\ request.op = "bulk" => ~request.unlink
  /\ \A t \in request.kept : t[1] \in request.ids
  /\ \/ request.kept = {}
     \/ \A id \in request.ids : {t \in TriplesS(read, id) : t[2] = "type"} \subseteq request.kept

\* What a document of plain JSON reaches
JsonSet(l, json) ==
  /\ \A n \in Nodes : HasType(l, n, {"JSON", "JSONDocument"}) => n \in json
  /\ \A n \in json : TypeOf(l, n) \subseteq JsonTypes
  /\ \A t \in l : t[1] \in json /\ t[2] # "type" => t[3] \in json

LoopInv ==
  /\ doomed \subseteq Roots /\ current \in Roots \union {Nobody}
  /\ current = Nobody => next = <<>>
  /\ \A n \in ToSet(next) : Exists(read, n)
  /\ current # Nobody \/ InBulk => \A n \in visited : TriplesS(read, n) \subseteq builder
  /\ \A t \in builder : t[2] = "type" \/ t[3] \notin Roots => TriplesS(read, t[1]) \subseteq builder
  /\ \A t \in builder : HasType(read, t[3], {"Sub", "List"}) => Dying(t[3])
  /\ \A n \in Nodes : Dying(n) => n \in Roots \/ HasType(read, n, PartTypes)
  /\ InBulk => \A t \in builder : t[1] \in visited
  /\ \A n \in Nodes :
       HasType(read, n, ContentTypes) /\ TriplesO(read, n) # {} /\ TriplesO(read, n) \subseteq builder =>
         Dying(n) \/ (~InBulk /\ \E s, t \in Sources(read, n) : s # t)
  /\ IsJson(current) => \A json \in SUBSET Nodes : JsonSet(read, json) => ToSet(next) \subseteq json

CascadeInv ==
  /\ \A n \in Nodes : Dying(n) => n \in orphans \/ TriplesO(read, n) \subseteq builder
  /\ \A n \in orphans : n \in doomed \/ Dying(n)
  /\ \A n \in orphans : n \in doomed \/ n = current \/ UnlinkFiltered(read, n, orphans) \subseteq builder

-------------------------------------------------------------------------------
(* The invariant: the walk *)

Shared(n) == HasType(read, n, SharedTypes)
NodesOf(calls) == {calls[i].node : i \in DOMAIN calls}
UpClosed(l, c) == \A p \in SharedLinks(l) : p[2] \in c => p[1] \in c
Alive(l) == LiveFrom(l, Classes \ SharedTypes)

\* Each call was made for a source of the node of the call before
Chained(l, calls) ==
  \A i, j \in DOMAIN calls : i <= j =>
    \A c \in SUBSET Nodes :
      /\ LinkClosed(l, c) /\ calls[j].node \in c => calls[i].node \in c
      /\ UpClosed(l, c) /\ calls[i].node \in c => calls[j].node \in c

\* What a call has left behind it is dead or was called for, by itself or before
LooksBack(l, calls, dead, i) ==
  /\ HasType(l, calls[i].node, SharedTypes) /\ calls[i].sources \subseteq Sources(l, calls[i].node)
  /\ \A s \in Sources(l, calls[i].node) \ calls[i].sources :
       s \in dead \/ \E j \in DOMAIN calls : j <= i + 1 /\ s = calls[j].node
LooksBehind(l, calls, dead) == \A i \in DOMAIN calls : LooksBack(l, calls, dead, i)

PathInv ==
  /\ LooksBehind(read, path, memo.dead) /\ Chained(read, path)
  /\ stage = "walk" /\ path # <<>> => visited \subseteq memo.dead \union NodesOf(path)
  /\ stage # "walk" => path = <<>>

MemoInv ==
  /\ \A n \in memo.dead :
       /\ Shared(n)
       /\ \A s \in Sources(read, n) \ {n} : Shared(s) /\ (s \in memo.dead \/ InCircle(read, n))
  /\ memo.live \subseteq Alive(read)
  /\ orphans \subseteq memo.dead

CandidatesInv ==
  /\ \A n \in candidates : Shared(n)
  /\ \A n \in Candidates(read, removals) :
       n \in candidates \union memo.live \union orphans \/ (path # <<>> /\ n = path[1].node)
  /\ stage # "walk" => candidates = {}

\* What lost a reference is live or below a candidate
LostInv ==
  \A n \in lost \cap Nodes : Shared(n) =>
    n \in Below(read, Instances(read, Classes \ SharedTypes) \union Candidates(read, removals))

DocInv ==
  /\ TypeOK /\ LayersInv
  /\ stage = "delete" => RequestInv
  /\ Deleting => LoopInv
  /\ stage = "cascade" => CascadeInv
  /\ InHook => PathInv /\ MemoInv /\ CandidatesInv /\ LostInv
  /\ OrphansAreGone

-------------------------------------------------------------------------------
(* Sequences of nodes *)

LEMMA NodesAreFinite == IsFiniteSet(Nodes)
PROOF
  <1>1. \A n \in Nodes : \E i \in 1 .. Len(Order) : Order[i] = n
    BY NodeAssumption DEF Nodes, ToSet
  <1> QED BY <1>1, NodeAssumption DEF IsFiniteSet

\* The parts that are pushed are the parts there are
LEMMA PartsInOrder ==
  ASSUME NEW S \in SUBSET Nodes, NEW s \in InOrder(S)
  PROVE  s \in Seq(Nodes) /\ ToSet(s) = S
PROOF
  <1>1. Cardinality(S) \in Nat
    BY NodesAreFinite, FS_Subset, FS_CardinalityType
  <1>2. s \in [1 .. Cardinality(S) -> S] /\ ToSet(s) = S
    BY DEF InOrder
  <1> HIDE DEF Nodes
  <1>3. s \in Seq(Nodes)
    BY <1>1, <1>2
  <1> QED BY <1>2, <1>3

LEMMA Concatenation ==
  ASSUME NEW S, NEW f \in Seq(S), NEW p \in Seq(S)
  PROVE  f \o p \in Seq(S) /\ ToSet(f \o p) = ToSet(f) \union ToSet(p)
PROOF
  <1> DEFINE c == f \o p
             m == Len(f)
             k == Len(p)
  <1>1. /\ m \in Nat /\ k \in Nat /\ DOMAIN f = 1 .. m /\ DOMAIN p = 1 .. k
        /\ c \in Seq(S) /\ Len(c) = m + k
    BY ConcatProperties
  <1>2. DOMAIN c = 1 .. m + k
    BY <1>1
  <1>3. \A i \in 1 .. m + k : c[i] = IF i <= m THEN f[i] ELSE p[i - m]
    BY ConcatProperties
  <1> HIDE DEF c, m, k
  <1>4. \A i \in 1 .. m + k : i \in 1 .. m \/ (i - m \in 1 .. k /\ ~(i <= m))
    BY <1>1
  <1>5. /\ \A i \in 1 .. m : i \in 1 .. m + k /\ i <= m
        /\ \A i \in 1 .. k : i + m \in 1 .. m + k /\ ~(i + m <= m) /\ (i + m) - m = i
    BY <1>1
  <1>6. ToSet(c) \subseteq ToSet(f) \union ToSet(p)
    <2> SUFFICES ASSUME NEW i \in 1 .. m + k PROVE c[i] \in ToSet(f) \union ToSet(p)
      BY <1>2 DEF ToSet
    <2>1. CASE i \in 1 .. m
      BY <1>1, <1>3, <1>5, <2>1 DEF ToSet
    <2>2. CASE i - m \in 1 .. k /\ ~(i <= m)
      BY <1>1, <1>3, <2>2 DEF ToSet
    <2> QED BY <1>4, <2>1, <2>2
  <1>7. ToSet(f) \subseteq ToSet(c)
    <2> SUFFICES ASSUME NEW i \in 1 .. m PROVE f[i] \in ToSet(c)
      BY <1>1 DEF ToSet
    <2> QED BY <1>2, <1>3, <1>5 DEF ToSet
  <1>8. ToSet(p) \subseteq ToSet(c)
    <2> SUFFICES ASSUME NEW i \in 1 .. k PROVE p[i] \in ToSet(c)
      BY <1>1 DEF ToSet
    <2>1. c[i + m] = p[i] /\ i + m \in DOMAIN c
      BY <1>2, <1>3, <1>5
    <2> QED BY <2>1 DEF ToSet
  <1> QED BY <1>1, <1>6, <1>7, <1>8 DEF c

LEMMA PopAndPush ==
  ASSUME NEW s \in Seq(Nodes), s # <<>>, NEW p \in Seq(Nodes)
  PROVE  /\ Last(s) \in Nodes
         /\ Front(s) \in Seq(Nodes) /\ Front(s) \o p \in Seq(Nodes)
         /\ ToSet(s) = ToSet(Front(s)) \union {Last(s)}
         /\ ToSet(Front(s) \o p) = ToSet(Front(s)) \union ToSet(p)
PROOF
  <1> DEFINE f == Front(s)
             n == Len(s)
  <1> HIDE DEF Nodes
  <1>1. n \in Nat \ {0} /\ DOMAIN s = 1 .. n
    OBVIOUS
  <1>2. f \in Seq(Nodes) /\ Len(f) = n - 1 /\ \A i \in 1 .. n - 1 : f[i] = s[i]
    BY <1>1 DEF Front
  <1>3. DOMAIN f = 1 .. n - 1
    BY <1>1, <1>2
  <1>4. ToSet(s) = ToSet(f) \union {Last(s)}
    <2> HIDE DEF f, n
    <2>1. \A i \in 1 .. n : i \in 1 .. n - 1 \/ i = n
      BY <1>1
    <2>2. 1 .. n - 1 \subseteq 1 .. n /\ n \in 1 .. n
      BY <1>1
    <2>3. Last(s) = s[n]
      BY DEF Last, n
    <2> QED BY <1>1, <1>2, <1>3, <2>1, <2>2, <2>3 DEF ToSet
  <1>5. Last(s) \in Nodes
    BY <1>1 DEF Last
  <1> HIDE DEF f, n
  <1>6. f \o p \in Seq(Nodes) /\ ToSet(f \o p) = ToSet(f) \union ToSet(p)
    BY <1>2, Concatenation
  <1> QED BY <1>2, <1>4, <1>5, <1>6 DEF f

LEMMA OneNode ==
  ASSUME NEW n \in Nodes
  PROVE  <<n>> \in Seq(Nodes) /\ <<n>> # <<>> /\ ToSet(<<n>>) = {n} /\ ToSet(<<>>) = {}
PROOF
  <1> HIDE DEF Nodes
  <1>1. Len(<<n>>) = 1 /\ DOMAIN <<n>> = {1} /\ <<n>>[1] = n /\ DOMAIN <<>> = {}
    OBVIOUS
  <1> QED BY <1>1 DEF ToSet

-------------------------------------------------------------------------------
(* Types in a layer *)

LEMMA TypeTriple ==
  ASSUME NEW l, NEW n, NEW classes
  PROVE  HasType(l, n, classes) <=> \E t \in l : t[1] = n /\ t[2] = "type" /\ t[3] \in classes
PROOF BY DEF HasType, TypeOf, TriplesS

LEMMA ExistsTriple ==
  ASSUME NEW l, NEW n
  PROVE  Exists(l, n) <=> \E t \in l : t[1] = n /\ t[2] = "type"
PROOF BY DEF Exists, TypeOf, TriplesS

LEMMA TypedExists ==
  ASSUME NEW l, NEW n, NEW classes, HasType(l, n, classes)
  PROVE  Exists(l, n)
PROOF BY TypeTriple, ExistsTriple

LEMMA TypeGrows ==
  ASSUME NEW l, NEW n, NEW some, NEW more, some \subseteq more, HasType(l, n, some)
  PROVE  HasType(l, n, more)
PROOF BY TypeTriple

LEMMA TypeInLarger ==
  ASSUME NEW l, NEW m, l \subseteq m, NEW n
  PROVE  /\ Exists(l, n) => Exists(m, n)
         /\ \A classes : HasType(l, n, classes) => HasType(m, n, classes)
PROOF BY TypeTriple, ExistsTriple

Triples == (Nodes \X {"type"} \X Classes) \union (Nodes \X {"link", "first"} \X Nodes)

LEMMA TripleParts ==
  ASSUME NEW t \in Triples
  PROVE  /\ t[1] \in Nodes /\ t[2] \in {"type", "link", "first"}
         /\ t[2] = "type" <=> t[3] \in Classes
         /\ t[2] # "type" <=> t[3] \in Nodes
PROOF
  <1> HIDE DEF Nodes, Classes
  <1> QED BY NodeAssumption DEF Triples

\* A node has one type
LEMMA OneType ==
  ASSUME NEW l, Shape(l), NEW n, NEW some, NEW other, HasType(l, n, some), HasType(l, n, other)
  PROVE  some \cap other # {}
PROOF
  <1>1. PICK t \in l : t[1] = n /\ t[2] = "type" /\ t[3] \in some
    BY TypeTriple
  <1>2. PICK u \in l : u[1] = n /\ u[2] = "type" /\ u[3] \in other
    BY TypeTriple
  <1>3. n \in Nodes
    BY <1>1, TripleParts DEF Shape, Triples
  <1>4. t = u
    BY <1>1, <1>2, <1>3 DEF Shape, SinglyTyped, TriplesS
  <1> QED BY <1>1, <1>2, <1>4

\* A node that is still there has the type it had
LEMMA TypeKept ==
  ASSUME NEW l, Shape(l), NEW m, m \subseteq l, NEW n, Exists(m, n), NEW classes, HasType(l, n, classes)
  PROVE  HasType(m, n, classes)
PROOF
  <1>1. PICK t \in m : t[1] = n /\ t[2] = "type"
    BY ExistsTriple
  <1>2. PICK u \in l : u[1] = n /\ u[2] = "type" /\ u[3] \in classes
    BY TypeTriple
  <1>3. n \in Nodes /\ t \in l
    BY <1>1, TripleParts DEF Shape, Triples
  <1>4. t = u
    BY <1>1, <1>2, <1>3 DEF Shape, SinglyTyped, TriplesS
  <1> QED BY <1>1, <1>2, <1>4, TypeTriple

\* A node with a type has one of the classes
LEMMA SomeClass ==
  ASSUME NEW l, Shape(l), NEW n, Exists(l, n), NEW some, ~HasType(l, n, Classes \ some)
  PROVE  HasType(l, n, some)
PROOF
  <1>1. PICK t \in l : t[1] = n /\ t[2] = "type"
    BY ExistsTriple
  <1>2. t[3] \in Classes
    BY <1>1, TripleParts DEF Shape, Triples
  <1> QED BY <1>1, <1>2, TypeTriple

-------------------------------------------------------------------------------
(* Layers that are cut down *)

LEMMA WellFormedShape ==
  ASSUME NEW l, WellFormed(l)
  PROVE  /\ Shape(l) /\ Owned(l) /\ Dangling(l) = {}
         /\ \A n \in Nodes : HasType(l, n, ContentTypes) => TriplesO(l, n) # {}
         /\ \E json \in SUBSET Nodes : JsonSet(l, json)
PROOF
  <1>1. \A n \in Nodes : HasType(l, n, {"Sub", "List"}) =>
          TriplesO(l, n) # {} /\ \A s, t \in Sources(l, n) : s = t
    <2> SUFFICES ASSUME NEW n \in Nodes, HasType(l, n, {"Sub", "List"})
                 PROVE  TriplesO(l, n) # {} /\ \A s, t \in Sources(l, n) : s = t
      OBVIOUS
    <2>1. PICK owner \in Nodes : Sources(l, n) = {owner}
      BY DEF WellFormed, PartsAreOwned
    <2>2. TriplesO(l, n) # {}
      BY <2>1 DEF Sources
    <2> QED BY <2>1, <2>2
  <1>2. Shape(l)
    BY <1>1 DEF WellFormed, Shape
  <1>3. Owned(l)
    BY <1>1 DEF Owned
  <1>4. \E json \in SUBSET Nodes : JsonSet(l, json)
    BY DEF WellFormed, JsonIsJson, JsonSet
  <1> QED BY <1>2, <1>3, <1>4 DEF WellFormed

\* What is removed with its type is gone
LEMMA GoneNode ==
  ASSUME NEW l, Shape(l), NEW b, Removable(l, b), NEW n, Exists(b, n)
  PROVE  ~Exists(l \ b, n) /\ TriplesS(l, n) \subseteq b
PROOF
  <1>1. PICK t \in b : t[1] = n /\ t[2] = "type"
    BY ExistsTriple
  <1>2. TriplesS(l, n) \subseteq b
    BY <1>1 DEF Removable
  <1>3. ~Exists(l \ b, n)
    BY <1>2, ExistsTriple DEF TriplesS
  <1> QED BY <1>2, <1>3

LEMMA ShapeKept ==
  ASSUME NEW l, Shape(l), NEW b, Removable(l, b)
  PROVE  Shape(l \ b) /\ (Owned(l) => Owned(l \ b))
PROOF
  <1> DEFINE r == l \ b
  <1>1. r \subseteq l
    OBVIOUS
  <1>2. \A t \in r : Exists(r, t[1])
    <2> SUFFICES ASSUME NEW t \in r PROVE Exists(r, t[1])
      OBVIOUS
    <2>1. PICK u \in l : u[1] = t[1] /\ u[2] = "type"
      BY ExistsTriple DEF Shape
    <2>2. u \notin b
      BY <2>1 DEF Removable, TriplesS
    <2> QED BY <2>1, <2>2, ExistsTriple
  <1> HIDE DEF r
  <1>3. \A n, classes : HasType(r, n, classes) => HasType(l, n, classes)
    BY <1>1, TypeInLarger
  <1>4. r \subseteq Triples
    BY <1>1 DEF Shape, Triples
  <1>5. SinglyTyped(r)
    BY <1>1 DEF Shape, SinglyTyped, TriplesS
  <1>6. \A n \in Nodes : HasType(r, n, {"Sub", "List"}) => \A s, t \in Sources(r, n) : s = t
    <2>1. \A n : Sources(r, n) \subseteq Sources(l, n)
      BY <1>1 DEF Sources, TriplesO
    <2> QED BY <1>3, <2>1 DEF Shape
  <1>7. \A t \in r : t[2] = "first" => HasType(r, t[1], {"List", "JSON"})
    BY <1>1, <1>2, TypeKept DEF Shape
  <1>8. \A n \in Nodes : HasType(r, n, {"JSONDocument"}) => TriplesO(r, n) = {}
    <2>1. \A n : TriplesO(r, n) \subseteq TriplesO(l, n)
      BY <1>1 DEF TriplesO
    <2> QED BY <1>3, <2>1 DEF Shape
  <1>9. Shape(r)
    BY <1>2, <1>4, <1>5, <1>6, <1>7, <1>8 DEF Shape, Triples
  <1>10. ASSUME Owned(l) PROVE Owned(r)
    <2> SUFFICES ASSUME NEW n \in Nodes, HasType(r, n, {"Sub", "List"}) PROVE TriplesO(r, n) # {}
      BY DEF Owned
    <2>1. PICK t \in l : t[3] = n
      BY <1>3, <1>10 DEF Owned, TriplesO
    <2>2. HasType(l, t[3], {"Sub", "List"})
      BY <1>3, <2>1
    <2>3. t \notin b
      <3> SUFFICES ASSUME t \in b PROVE FALSE
        OBVIOUS
      <3>1. Exists(b, n)
        BY <2>1, <2>2 DEF Removable
      <3>2. ~Exists(l \ b, n)
        BY <3>1, GoneNode
      <3> QED BY <3>2, TypedExists DEF r
    <2> QED BY <2>1, <2>3 DEF TriplesO, r
  <1> QED BY <1>9, <1>10 DEF r

\* Content that loses its last user goes with it, or several used it
LEMMA ContentKept ==
  ASSUME NEW l, Shape(l), NEW b, Removable(l, b), NEW bulk \in BOOLEAN, Counted(l, b, bulk),
         NEW n \in Nodes, HasType(l \ b, n, ContentTypes), TriplesO(l \ b, n) = {}
  PROVE  TriplesO(l, n) = {} \/ (~bulk /\ \E s, t \in Sources(l, n) : s # t)
PROOF
  <1>1. HasType(l, n, ContentTypes)
    <2>1. l \ b \subseteq l
      OBVIOUS
    <2> QED BY <2>1, TypeInLarger
  <1>2. TriplesO(l, n) \subseteq b
    BY DEF TriplesO
  <1>3. ~Exists(b, n)
    BY GoneNode, TypedExists
  <1> QED BY <1>1, <1>2, <1>3 DEF Counted

-------------------------------------------------------------------------------
(* Least closed sets *)

LEMMA BelowContains ==
  ASSUME NEW l, NEW base, base \subseteq Nodes
  PROVE  base \subseteq Below(l, base)
PROOF BY DEF Below

LEMMA BelowLeast ==
  ASSUME NEW l, NEW base, NEW c \in SUBSET Nodes, base \subseteq c, LinkClosed(l, c)
  PROVE  Below(l, base) \subseteq c
PROOF BY DEF Below

LEMMA BelowByClosed ==
  ASSUME NEW l, NEW base, NEW n \in Nodes,
         \A c \in SUBSET Nodes : base \subseteq c /\ LinkClosed(l, c) => n \in c
  PROVE  n \in Below(l, base)
PROOF BY DEF Below

LEMMA AboveGrows ==
  ASSUME NEW rel, NEW n, NEW m, <<n, m>> \in rel
  PROVE  Above(rel, {n}) \subseteq Above(rel, {m})
PROOF
  <1> SUFFICES ASSUME NEW k \in Above(rel, {n}), NEW c \in SUBSET Nodes,
                      {m} \subseteq c, \A p \in rel : p[2] \in c => p[1] \in c
               PROVE  k \in c
    BY DEF Above
  <1>1. n \in c
    <2>1. <<n, m>>[1] = n /\ <<n, m>>[2] = m
      OBVIOUS
    <2> QED BY <2>1
  <1> QED BY <1>1 DEF Above

LEMMA AboveItself ==
  ASSUME NEW rel, NEW n \in Nodes
  PROVE  n \in Above(rel, {n})
PROOF BY DEF Above

\* A link between shared documents
LEMMA SharedLink ==
  ASSUME NEW l, NEW t \in l, t[1] # t[3],
         HasType(l, t[1], SharedTypes), HasType(l, t[3], SharedTypes)
  PROVE  <<t[1], t[3]>> \in SharedLinks(l)
PROOF BY DEF SharedLinks

-------------------------------------------------------------------------------
(* The requests *)

\* What a request may ask for
MayAsk(asked) ==
  /\ asked.ids \subseteq Nodes /\ \A id \in asked.ids : HasType(read, id, RootTypes)
  /\ asked.op = "bulk" => ~asked.unlink
  /\ \A t \in asked.kept : t[1] \in asked.ids
  /\ \/ asked.kept = {}
     \/ \A id \in asked.ids : {t \in TriplesS(read, id) : t[2] = "type"} \subseteq asked.kept

LEMMA BeginStep ==
  ASSUME DocInv, stage = "open", NEW asked, MayAsk(asked), Begin(asked, asked.ids)
  PROVE  DocInv'
PROOF
  <1>1. /\ stage' = "delete" /\ request' = asked /\ doomed' = asked.ids
        /\ UNCHANGED <<layer, read, builder, removals, current, next, visited, candidates, path, memo,
                       orphans, before, validated, lost>>
    BY DEF Begin, walk, observed
  <1>2. TypeOK /\ LayersInv
    BY DEF DocInv
  <1>3. TypeOK'
    BY <1>1, <1>2 DEF TypeOK, MayAsk
  <1>4. LayersInv'
    BY <1>1, <1>2 DEF LayersInv, InHook, Committed, Deleting
  <1>5. builder = {} /\ visited = {} /\ current = Nobody /\ next = <<>> /\ ToSet(next) = {}
    <2>1. ToSet(<<>>) = {}
      BY DEF ToSet
    <2> QED BY <1>2, <2>1 DEF LayersInv, Deleting
  <1>6. RequestInv'
    BY <1>1 DEF RequestInv, MayAsk
  <1>7. LoopInv'
    <2>1. \A n : ~Exists({}, n)
      BY ExistsTriple
    <2>2. ~IsJson(Nobody)'
      <3>1. Shape(read)
        BY <1>2, WellFormedShape DEF LayersInv
      <3>2. ~HasType(read, Nobody, {"JSONDocument"})
        BY <3>1, NodeAssumption, TypeTriple, TripleParts DEF Shape, Triples
      <3> QED BY <1>1, <3>2 DEF IsJson
    <2>3. current' = Nobody /\ next' = <<>> /\ ToSet(next') = {} /\ builder' = {} /\ visited' = {}
      BY <1>1, <1>5
    <2>4. doomed' \subseteq Roots'
      BY <1>1 DEF Roots
    <2>5. \A n \in Nodes : ~Dying(n)'
      BY <2>1, <2>3 DEF Dying
    <2> QED BY <2>2, <2>3, <2>4, <2>5 DEF LoopInv
  <1> QED BY <1>1, <1>3, <1>4, <1>6, <1>7 DEF DocInv, Deleting, InHook, OrphansAreGone, Committed

LEMMA RootsOfClass ==
  ASSUME NEW n, NEW class \in DocumentTypes, HasType(read, n, {class})
  PROVE  HasType(read, n, RootTypes)
PROOF
  <1>1. {class} \subseteq RootTypes
    BY DEF RootTypes
  <1> QED BY <1>1, TypeGrows

LEMMA RootsAreDocuments ==
  ASSUME NEW n, HasType(read, n, DocumentTypes)
  PROVE  HasType(read, n, RootTypes)
PROOF
  <1>1. DocumentTypes \subseteq RootTypes
    BY DEF RootTypes
  <1> QED BY <1>1, TypeGrows

LEMMA OpenStep ==
  ASSUME DocInv, Open
  PROVE  DocInv'
PROOF
  <1>1. ASSUME NEW id \in Nodes, NEW unlink \in BOOLEAN, Delete(id, unlink)
        PROVE  DocInv'
    <2> DEFINE asked == Request("one", unlink, {id}, {})
    <2>1. stage = "open" /\ HasType(read, id, RootTypes) /\ Begin(asked, {id})
      BY <1>1 DEF Delete, RootTypes
    <2>2. asked.ids = {id} /\ asked.kept = {} /\ asked.op = "one"
      BY DEF Request
    <2> HIDE DEF asked
    <2>3. MayAsk(asked)
      BY <2>1, <2>2 DEF MayAsk
    <2> QED BY <2>1, <2>2, <2>3, BeginStep
  <1>2. ASSUME NEW ids \in Bulks, Bulk(ids)
        PROVE  DocInv'
    <2> DEFINE asked == Request("bulk", FALSE, ids, {})
    <2>1. stage = "open" /\ Begin(asked, ids) /\ \A id \in ids : HasType(read, id, RootTypes)
      BY <1>2, RootsAreDocuments DEF Bulk
    <2>2. asked.ids = ids /\ asked.kept = {} /\ ~asked.unlink
      BY DEF Request
    <2> HIDE DEF asked
    <2>3. MayAsk(asked)
      BY <2>1, <2>2, BulkAssumption DEF MayAsk
    <2> QED BY <2>1, <2>2, <2>3, BeginStep
  <1>3. ASSUME NEW class \in DocumentTypes, NEW unlink \in BOOLEAN, ByType(class, unlink)
        PROVE  DocInv'
    <2> DEFINE ids == {n \in Nodes : HasType(read, n, {class})}
               asked == Request("type", unlink, ids, {})
    <2>1. stage = "open" /\ Begin(asked, ids)
      BY <1>3 DEF ByType
    <2>2. asked.ids = ids /\ asked.kept = {} /\ asked.op = "type"
      BY DEF Request
    <2>3. \A id \in ids : HasType(read, id, RootTypes)
      BY RootsOfClass
    <2>4. ids \subseteq Nodes
      OBVIOUS
    <2> HIDE DEF asked, ids
    <2>5. MayAsk(asked)
      BY <2>2, <2>3, <2>4 DEF MayAsk
    <2> QED BY <2>1, <2>2, <2>5, BeginStep
  <1>4. ASSUME DeleteAll
        PROVE  DocInv'
    <2>1. /\ stage = "open" /\ stage' = "check" /\ builder' = read
          /\ UNCHANGED <<layer, read, removals, doomed, current, next, visited, candidates, path, memo,
                         orphans, before, validated, lost>>
      BY <1>4 DEF DeleteAll, loop, walk, observed
    <2>2. TypeOK /\ LayersInv
      BY DEF DocInv
    <2>3. TypeOK'
      BY <2>1, <2>2 DEF TypeOK
    <2>4. Removable(read, read)
      BY TypedExists DEF Removable, TriplesS
    <2>5. \A bulk : Counted(read, read, bulk)
      BY TypedExists DEF Counted
    <2>6. LayersInv'
      BY <2>1, <2>2, <2>4, <2>5 DEF LayersInv, InHook, Committed, Deleting
    <2> QED BY <2>1, <2>3, <2>6 DEF DocInv, Deleting, InHook, OrphansAreGone, Committed
  <1>5. ASSUME NEW id \in Nodes, NEW kept \in SUBSET TriplesS(read, id), Replace(id, kept)
        PROVE  DocInv'
    <2> DEFINE types == {t \in TriplesS(read, id) : t[2] = "type"}
               asked == Request("replace", FALSE, {id}, kept \union types)
    <2>1. stage = "open" /\ Begin(asked, {id}) /\ HasType(read, id, RootTypes)
      BY <1>5, RootsAreDocuments DEF Replace
    <2>2. asked.ids = {id} /\ asked.kept = kept \union types /\ asked.op = "replace"
      BY DEF Request
    <2>3. \A t \in kept \union types : t[1] = id
      BY DEF TriplesS
    <2> HIDE DEF asked
    <2>4. \A other \in asked.ids : {t \in TriplesS(read, other) : t[2] = "type"} \subseteq asked.kept
      BY <2>2
    <2>5. MayAsk(asked)
      BY <2>1, <2>2, <2>3, <2>4 DEF MayAsk
    <2> QED BY <2>1, <2>2, <2>5, BeginStep
  <1> QED BY <1>1, <1>2, <1>3, <1>4, <1>5 DEF Open

-------------------------------------------------------------------------------
(* The loop that deletes *)

LEMMA ReadShape ==
  ASSUME DocInv, stage \in {"open", "delete", "check", "walk", "cascade", "committed"}
  PROVE  /\ Shape(read) /\ Owned(read) /\ Dangling(read) = {} /\ read \subseteq before
         /\ \A n, classes : HasType(read, n, classes) => n \in Nodes
PROOF
  <1>1. TypeOK /\ LayersInv
    BY DEF DocInv
  <1>2. Shape(read) /\ Owned(read) /\ Dangling(read) = {}
    BY <1>1, WellFormedShape DEF LayersInv, InHook, Committed
  <1>3. \A n, classes : HasType(read, n, classes) => n \in Nodes
    BY <1>2, TypeTriple, TripleParts DEF Shape, Triples
  <1> QED BY <1>1, <1>2, <1>3 DEF TypeOK

\* The documents a loop begins with are no parts
LEMMA RootTyped ==
  ASSUME DocInv, Deleting, NEW id \in Roots
  PROVE  HasType(read, id, RootTypes) /\ id \in Nodes
PROOF
  <1>1. CASE stage = "delete"
    BY <1>1 DEF DocInv, RequestInv, Roots
  <1>2. CASE stage = "cascade"
    <2>1. HasType(read, id, SharedTypes) /\ id \in Nodes
      BY <1>2 DEF DocInv, InHook, MemoInv, Roots, Shared, TypeOK
    <2>2. SharedTypes \subseteq RootTypes
      BY DEF SharedTypes, RootTypes, DocumentTypes
    <2> QED BY <2>1, <2>2, TypeGrows
  <1> QED BY <1>1, <1>2 DEF Deleting

LEMMA RootIsNoPart ==
  ASSUME DocInv, Deleting, NEW id \in Roots, NEW classes, classes \subseteq PartTypes
  PROVE  ~HasType(read, id, classes)
PROOF
  <1>1. RootTypes \cap PartTypes = {}
    BY DEF RootTypes, PartTypes, DocumentTypes
  <1>2. HasType(read, id, RootTypes) /\ Shape(read)
    BY RootTyped, ReadShape DEF Deleting
  <1> QED BY <1>1, <1>2, OneType

LEMMA PartsArePartTypes ==
  ASSUME DocInv, Deleting, NEW n, NEW seen, NEW m \in Parts(n, seen)
  PROVE  /\ m \in Nodes /\ HasType(read, m, PartTypes) /\ m \notin seen
         /\ \E t \in read : t[1] = n /\ t[2] # "type" /\ t[3] = m
PROOF
  <1>0. Shape(read) /\ \A k, classes : HasType(read, k, classes) => k \in Nodes
    BY ReadShape DEF Deleting
  <1>1. m \in Objects(read, n) /\ m \notin seen /\ (IsPart(read, m) \/ HasType(read, m, JsonTypes))
    BY DEF Parts, BulkRecursed, JsonRecursed, Recursed
  <1>2. m \in Nodes
    BY <1>0, <1>1 DEF IsPart
  <1>3. PICK t \in read : t[1] = n /\ t[3] = m
    BY <1>1 DEF Objects, TriplesS
  <1>4. t[2] # "type"
    BY <1>0, <1>2, <1>3, TripleParts, NodeAssumption DEF Shape, Triples
  <1>5. HasType(read, m, PartTypes \union {"JSONDocument"})
    <2>1. CASE IsPart(read, m)
      <3>1. Exists(read, m) /\ ~HasType(read, m, DocumentTypes \union ValueHashes)
        BY <2>1 DEF IsPart
      <3>2. Classes \ (PartTypes \union {"JSONDocument"}) \subseteq DocumentTypes \union ValueHashes
        BY DEF Classes, PartTypes, JsonTypes
      <3>3. ~HasType(read, m, Classes \ (PartTypes \union {"JSONDocument"}))
        BY <3>1, <3>2, TypeGrows
      <3> QED BY <1>0, <3>1, <3>3, SomeClass
    <2>2. CASE HasType(read, m, JsonTypes)
      <3>1. JsonTypes \subseteq PartTypes \union {"JSONDocument"}
        BY DEF JsonTypes, PartTypes
      <3> QED BY <2>2, <3>1, TypeGrows
    <2> QED BY <1>1, <2>1, <2>2
  <1>6. ~HasType(read, m, {"JSONDocument"})
    BY <1>0, <1>2, <1>3 DEF Shape, TriplesO
  <1>7. HasType(read, m, PartTypes)
    BY <1>5, <1>6, TypeTriple
  <1> QED BY <1>1, <1>2, <1>3, <1>4, <1>7

\* Lists and subdocuments are always deleted with their owner
LEMMA OwnedPartsAreParts ==
  ASSUME DocInv, Deleting, next # <<>>, NEW n, n \in ToSet(next), NEW seen,
         NEW t \in read, t[1] = n, HasType(read, t[3], {"Sub", "List"}), t[3] \notin seen
  PROVE  t[3] \in Parts(n, seen)
PROOF
  <1> DEFINE o == t[3]
  <1>0. Shape(read) /\ o \in Nodes /\ o \in Objects(read, n)
    BY ReadShape DEF Deleting, Objects, TriplesS
  <1>1. ~HasType(read, o, ContentTypes)
    <2>1. {"Sub", "List"} \cap ContentTypes = {}
      BY DEF ContentTypes
    <2> QED BY <1>0, <2>1, OneType
  <1>2. IsPart(read, o)
    <2>1. {"Sub", "List"} \cap (DocumentTypes \union ValueHashes) = {}
      BY DEF DocumentTypes, ValueHashes
    <2>2. ~HasType(read, o, DocumentTypes \union ValueHashes)
      BY <1>0, <2>1, OneType
    <2> QED BY <1>0, <2>2, TypedExists DEF IsPart
  <1>3. CASE IsJson(current) /\ ~InBulk
    <2>1. LoopInv /\ WellFormed(read) /\ read \subseteq before
      BY <1>3, ReadShape DEF DocInv, LayersInv, IsJson, Deleting
    <2>2. PICK json \in SUBSET Nodes : JsonSet(read, json)
      BY <2>1, WellFormedShape
    <2>3. n \in json
      BY <1>3, <2>1, <2>2 DEF LoopInv
    <2>4. t[2] # "type"
      BY <1>0, NodeAssumption, TripleParts DEF Shape, Triples
    <2>5. TypeOf(read, o) \subseteq JsonTypes
      BY <2>2, <2>3, <2>4 DEF JsonSet
    <2>6. HasType(read, o, JsonTypes)
      BY <2>5, TypedExists DEF HasType, Exists
    <2> QED BY <1>0, <1>1, <1>3, <2>6 DEF Parts, JsonRecursed
  <1>4. CASE ~(IsJson(current) /\ ~InBulk)
    BY <1>0, <1>1, <1>2, <1>4 DEF Parts, BulkRecursed, Recursed
  <1> QED BY <1>3, <1>4

\* The stages and layers a step of the loop leaves alone
LEMMA LoopFrame ==
  ASSUME DocInv, Deleting,
         UNCHANGED <<layer, read, removals, request, candidates, path, memo, orphans, stage, before,
                     validated, lost>>,
         builder' \subseteq read, doomed' \subseteq Nodes, current' \in Nodes \union {Nobody},
         next' \in Seq(Nodes), visited' \subseteq Nodes,
         LoopInv', stage = "cascade" => CascadeInv'
  PROVE  DocInv'
PROOF
  <1>1. TypeOK /\ LayersInv /\ OrphansAreGone
    BY DEF DocInv
  <1>2. TypeOK'
    BY <1>1 DEF TypeOK
  <1>3. LayersInv'
    BY <1>1 DEF LayersInv, InHook, Committed, Deleting, Base
  <1>4. stage = "delete" => RequestInv'
    BY DEF DocInv, RequestInv
  <1>5. InHook => PathInv' /\ MemoInv' /\ CandidatesInv' /\ LostInv'
    <2> SUFFICES ASSUME InHook PROVE PathInv' /\ MemoInv' /\ CandidatesInv' /\ LostInv'
      OBVIOUS
    <2>1. PathInv'
      BY DEF DocInv, PathInv, Deleting
    <2>2. MemoInv'
      BY DEF DocInv, MemoInv, Shared, Alive
    <2>3. CandidatesInv'
      BY DEF DocInv, CandidatesInv, Shared
    <2>4. LostInv'
      BY DEF DocInv, LostInv, Shared
    <2> QED BY <2>1, <2>2, <2>3, <2>4
  <1> QED BY <1>1, <1>2, <1>3, <1>4, <1>5 DEF DocInv, Deleting, InHook, OrphansAreGone, Committed

LEMMA VisitStep ==
  ASSUME DocInv, NEW n \in Nodes, Visit(n)
  PROVE  DocInv'
PROOF
  <1>1. /\ Deleting /\ next # <<>> /\ n = Last(next)
        /\ UNCHANGED <<layer, read, removals, request, doomed, current, candidates, path, memo, orphans,
                       stage, before, validated, lost>>
    BY DEF Visit, walk, observed
  <1>2. TypeOK /\ LoopInv /\ next \in Seq(Nodes) /\ builder \subseteq read
    BY <1>1 DEF DocInv, TypeOK
  <1>3. current # Nobody /\ \A m \in visited : TriplesS(read, m) \subseteq builder
    BY <1>1, <1>2 DEF LoopInv
  <1>4. /\ Front(next) \in Seq(Nodes) /\ n \in ToSet(next)
        /\ ToSet(next) = ToSet(Front(next)) \union {n}
    <2>1. <<>> \in Seq(Nodes)
      OBVIOUS
    <2> QED BY <1>1, <1>2, <2>1, PopAndPush
  <1>5. Exists(read, n) /\ Dying(n)
    BY <1>2, <1>4 DEF LoopInv, Dying
  <1>6. InBulk' = InBulk /\ Roots' = Roots /\ IsJson(current)' = IsJson(current)
    BY <1>1 DEF InBulk, Roots, IsJson
  <1>7. CASE InBulk /\ n \in visited
    <2>1. next' = Front(next) /\ builder' = builder /\ visited' = visited
      BY <1>7 DEF Visit
    <2>2. Exists(builder, n)
      BY <1>3, <1>5, <1>7, ExistsTriple DEF TriplesS
    <2>3. \A m : Dying(m)' <=> Dying(m)
      BY <1>4, <2>1, <2>2 DEF Dying
    <2>4. LoopInv'
      <3>1. /\ doomed' \subseteq Roots' /\ current' \in Roots' \union {Nobody}
            /\ current' # Nobody
        BY <1>1, <1>2, <1>3, <1>6 DEF LoopInv
      <3>2. \A m \in ToSet(next') : Exists(read', m) /\ m \in ToSet(next)
        BY <1>1, <1>2, <1>4, <2>1 DEF LoopInv
      <3>3. \A m \in visited' : TriplesS(read', m) \subseteq builder'
        BY <1>1, <1>3, <2>1
      <3>4. /\ \A t \in builder' : t[2] = "type" \/ t[3] \notin Roots' => TriplesS(read', t[1]) \subseteq builder'
            /\ \A t \in builder' : HasType(read', t[3], {"Sub", "List"}) => Dying(t[3])'
            /\ \A m \in Nodes : Dying(m)' => m \in Roots' \/ HasType(read', m, PartTypes)
            /\ InBulk' => \A t \in builder' : t[1] \in visited'
        BY <1>1, <1>2, <1>6, <2>1, <2>3 DEF LoopInv
      <3>5. \A m \in Nodes :
              HasType(read', m, ContentTypes) /\ TriplesO(read', m) # {} /\ TriplesO(read', m) \subseteq builder' =>
                Dying(m)' \/ (~InBulk' /\ \E s, t \in Sources(read', m) : s # t)
        BY <1>1, <1>2, <1>6, <2>1, <2>3 DEF LoopInv
      <3>6. IsJson(current)' => \A json \in SUBSET Nodes : JsonSet(read', json) => ToSet(next') \subseteq json
        BY <1>1, <1>2, <1>6, <3>2 DEF LoopInv
      <3> QED BY <3>1, <3>2, <3>3, <3>4, <3>5, <3>6 DEF LoopInv
    <2>5. stage # "cascade"
      BY <1>7 DEF InBulk
    <2> QED BY <1>1, <1>2, <1>4, <2>1, <2>4, <2>5, LoopFrame DEF TypeOK
  <1>8. CASE ~(InBulk /\ n \in visited)
    <2>1. /\ visited' = visited \union {n} /\ builder' = builder \union TriplesS(read, n)
          /\ \E parts \in InOrder(Parts(n, visited')) : next' = Front(next) \o parts
      BY <1>8 DEF Visit
    <2> DEFINE new == Parts(n, visited')
    <2>2. new \subseteq Nodes /\ \A m \in new : HasType(read, m, PartTypes)
      BY <1>1, PartsArePartTypes
    <2>3. next' \in Seq(Nodes) /\ ToSet(next') = ToSet(Front(next)) \union new
      <3>1. PICK parts \in InOrder(new) : next' = Front(next) \o parts
        BY <2>1
      <3>2. parts \in Seq(Nodes) /\ ToSet(parts) = new
        BY <2>2, <3>1, PartsInOrder
      <3> QED BY <1>1, <1>2, <3>1, <3>2, PopAndPush
    <2> HIDE DEF new
    <2>4. Exists(builder', n)
      BY <1>5, <2>1, ExistsTriple DEF TriplesS
    <2>5. /\ \A m : Dying(m) => Dying(m)'
          /\ \A m : Dying(m)' => Dying(m) \/ m \in new
          /\ \A m \in new : Dying(m)'
      <3>1. \A m : Exists(builder, m) => Exists(builder', m)
        BY <2>1, TypeInLarger
      <3>2. \A m : Exists(builder', m) => Exists(builder, m) \/ m = n
        BY <2>1, ExistsTriple DEF TriplesS
      <3> QED BY <1>4, <1>5, <2>3, <2>4, <3>1, <3>2 DEF Dying
    <2>6. \A m \in visited' : TriplesS(read, m) \subseteq builder'
      BY <1>3, <2>1
    <2>7. \A m \in visited' : Exists(read, m) => Exists(builder', m)
      BY <2>6, ExistsTriple DEF TriplesS
    <2>8. \A t \in TriplesS(read, n) : t \in read /\ t[1] = n
      BY DEF TriplesS
    <2>9. \A t \in builder' : t[2] = "type" \/ t[3] \notin Roots => TriplesS(read, t[1]) \subseteq builder'
      BY <1>2, <2>1, <2>8 DEF LoopInv
    <2>10. \A t \in builder' : HasType(read, t[3], {"Sub", "List"}) => Dying(t[3])'
      <3> SUFFICES ASSUME NEW t \in builder', HasType(read, t[3], {"Sub", "List"}) PROVE Dying(t[3])'
        OBVIOUS
      <3>1. CASE t \in builder
        BY <1>2, <2>5, <3>1 DEF LoopInv
      <3>2. CASE t \in TriplesS(read, n) /\ t[3] \in visited'
        BY <2>7, <3>2, TypedExists DEF Dying
      <3>3. CASE t \in TriplesS(read, n) /\ t[3] \notin visited'
        BY <1>1, <1>4, <2>5, <2>8, <3>3, OwnedPartsAreParts DEF new
      <3> QED BY <2>1, <3>1, <3>2, <3>3
    <2>11. \A m \in Nodes : Dying(m)' => m \in Roots \/ HasType(read, m, PartTypes)
      BY <1>2, <2>2, <2>5 DEF LoopInv
    <2>12. InBulk => \A t \in builder' : t[1] \in visited'
      BY <1>2, <2>1, <2>8 DEF LoopInv
    <2>13. ASSUME NEW m \in Nodes, HasType(read, m, ContentTypes), TriplesO(read, m) # {},
                  TriplesO(read, m) \subseteq builder'
           PROVE  Dying(m)' \/ (~InBulk /\ \E s, t \in Sources(read, m) : s # t)
      <3>1. CASE TriplesO(read, m) \subseteq builder
        BY <1>2, <2>5, <2>13, <3>1 DEF LoopInv
      <3>2. CASE ~(TriplesO(read, m) \subseteq builder)
        <4>1. PICK u \in TriplesS(read, n) : u[3] = m
          BY <2>1, <2>13, <3>2 DEF TriplesO
        <4>2. m \in Objects(read, n) /\ n \in Sources(read, m)
          BY <2>8, <4>1 DEF Objects, Sources, TriplesO
        <4>3. IsPart(read, m) /\ HasType(read, m, JsonTypes)
          <5>1. ContentTypes \subseteq JsonTypes /\ ContentTypes \cap (DocumentTypes \union ValueHashes) = {}
            BY DEF ContentTypes, JsonTypes, DocumentTypes, ValueHashes
          <5>2. Shape(read)
            BY <1>1, ReadShape DEF Deleting
          <5>3. ~HasType(read, m, DocumentTypes \union ValueHashes)
            BY <2>13, <5>1, <5>2, OneType
          <5> QED BY <2>13, <5>1, <5>3, TypeGrows, TypedExists DEF IsPart
        <4>4. CASE m \in visited'
          BY <2>7, <2>13, <4>4, TypedExists DEF Dying
        <4>5. CASE m \notin visited' /\ InBulk
          <5>1. ~HasExternalReference(read, m, request.ids, visited')
            BY <2>12, <2>13, <4>5 DEF HasExternalReference, Sources
          <5>2. m \in new
            BY <4>2, <4>3, <4>5, <5>1 DEF new, Parts, BulkRecursed
          <5> QED BY <2>5, <5>2
        <4>6. CASE m \notin visited' /\ ~InBulk /\ ~HasOtherLink(read, m, n, visited')
          <5>1. m \in new
            BY <4>2, <4>3, <4>6 DEF new, Parts, JsonRecursed, Recursed
          <5> QED BY <2>5, <5>1
        <4>7. CASE ~InBulk /\ HasOtherLink(read, m, n, visited')
          BY <4>2, <4>7 DEF HasOtherLink
        <4> QED BY <4>4, <4>5, <4>6, <4>7
      <3> QED BY <3>1, <3>2
    <2>14. ASSUME IsJson(current), NEW json \in SUBSET Nodes, JsonSet(read, json)
           PROVE  ToSet(next') \subseteq json
      <3>1. ToSet(next) \subseteq json
        BY <1>2, <2>14 DEF LoopInv
      <3>2. new \subseteq json
        <4> SUFFICES ASSUME NEW m \in new PROVE m \in json
          OBVIOUS
        <4>1. PICK t \in read : t[1] = n /\ t[2] # "type" /\ t[3] = m
          BY <1>1, PartsArePartTypes DEF new
        <4> QED BY <1>4, <2>14, <3>1, <4>1 DEF JsonSet
      <3> QED BY <1>4, <2>3, <3>1, <3>2
    <2>15. \A m \in ToSet(next') : Exists(read, m)
      BY <1>2, <1>4, <2>2, <2>3, TypedExists DEF LoopInv
    <2>16. LoopInv'
      <3>1. doomed' \subseteq Roots' /\ current' \in Roots' \union {Nobody} /\ current' # Nobody
        BY <1>1, <1>2, <1>3, <1>6 DEF LoopInv
      <3>2. read' = read
        BY <1>1
      <3>3. IsJson(current)' => \A json \in SUBSET Nodes : JsonSet(read', json) => ToSet(next') \subseteq json
        BY <1>6, <2>14, <3>2
      <3>4. \A m \in Nodes :
              HasType(read', m, ContentTypes) /\ TriplesO(read', m) # {} /\ TriplesO(read', m) \subseteq builder' =>
                Dying(m)' \/ (~InBulk' /\ \E s, t \in Sources(read', m) : s # t)
        BY <1>6, <2>13, <3>2
      <3> QED BY <1>6, <2>6, <2>9, <2>10, <2>11, <2>12, <2>15, <3>1, <3>2, <3>3, <3>4 DEF LoopInv
    <2>17. ASSUME stage = "cascade" PROVE CascadeInv'
      <3>1. CascadeInv
        BY <2>17 DEF DocInv
      <3>2. ASSUME NEW m \in new PROVE TriplesO(read, m) \subseteq builder'
        <4>1. Shape(read) /\ m \in Nodes
          BY <1>1, <2>2, <3>2, ReadShape DEF Deleting
        <4>2. n \in Sources(read, m)
          BY <1>1, <3>2, PartsArePartTypes DEF new, Sources, TriplesO
        <4>3. \A s \in Sources(read, m) : s = n \/ s \in visited'
          <5>1. CASE HasType(read, m, {"Sub", "List"})
            BY <4>1, <4>2, <5>1 DEF Shape
          <5>2. CASE HasType(read, m, ContentTypes)
            <6>1. new = Recursed(read, n, visited')
              BY <2>17 DEF new, Parts, InBulk, IsJson
            <6> QED BY <3>2, <5>2, <6>1 DEF Recursed, HasOtherLink
          <5>3. HasType(read, m, {"Sub", "List"}) \/ HasType(read, m, ContentTypes)
            BY <2>2, <3>2, TypeTriple DEF PartTypes, ContentTypes
          <5> QED BY <5>1, <5>2, <5>3
        <4> QED BY <2>1, <2>6, <4>3 DEF Sources, TriplesO, TriplesS
      <3>3. \A m \in Nodes : Dying(m)' => m \in orphans \/ TriplesO(read, m) \subseteq builder'
        BY <2>1, <2>5, <3>1, <3>2 DEF CascadeInv
      <3>4. \A m \in orphans : m \in doomed \/ Dying(m)'
        BY <2>5, <3>1 DEF CascadeInv
      <3>5. \A m \in orphans : m \in doomed \/ m = current \/ UnlinkFiltered(read, m, orphans) \subseteq builder'
        BY <2>1, <3>1 DEF CascadeInv
      <3> QED BY <1>1, <3>3, <3>4, <3>5 DEF CascadeInv
    <2>18. builder' \subseteq read /\ visited' \subseteq Nodes
      BY <1>2, <2>1, <2>8 DEF TypeOK
    <2> QED BY <1>1, <1>2, <2>3, <2>16, <2>17, <2>18, LoopFrame DEF TypeOK
  <1> QED BY <1>7, <1>8

LEMMA BeginDocumentStep ==
  ASSUME DocInv, NEW id \in Nodes, BeginDocument(id)
  PROVE  DocInv'
PROOF
  <1>1. /\ Deleting /\ current = Nobody /\ id \in doomed
        /\ doomed' = doomed \ {id} /\ current' = id /\ next' = <<id>>
        /\ visited' = IF InBulk THEN visited ELSE {}
        /\ UNCHANGED <<layer, read, builder, removals, request, candidates, path, memo, orphans,
                       stage, before, validated, lost>>
    BY DEF BeginDocument, walk, observed
  <1>2. TypeOK /\ LoopInv
    BY <1>1 DEF DocInv
  <1>3. /\ InBulk' = InBulk /\ Roots' = Roots /\ id \in Roots
        /\ ToSet(next') = {id} /\ next' \in Seq(Nodes) /\ next = <<>> /\ ToSet(next) = {}
    BY <1>1, <1>2, OneNode DEF InBulk, Roots, LoopInv
  <1>4. HasType(read, id, RootTypes) /\ Exists(read, id)
    BY <1>1, <1>3, RootTyped, TypedExists
  <1>5. \A m : Dying(m)' <=> Dying(m) \/ m = id
    BY <1>1, <1>3 DEF Dying
  <1>6. LoopInv'
    <2>1. doomed' \subseteq Roots' /\ current' \in Roots' \union {Nobody} /\ current' # Nobody
      BY <1>1, <1>2, <1>3, NodeAssumption DEF LoopInv
    <2>2. \A m \in ToSet(next') : Exists(read', m)
      BY <1>1, <1>3, <1>4
    <2>3. \A m \in visited' : TriplesS(read', m) \subseteq builder'
      BY <1>1, <1>2 DEF LoopInv
    <2>4. /\ \A t \in builder' : t[2] = "type" \/ t[3] \notin Roots' => TriplesS(read', t[1]) \subseteq builder'
          /\ \A t \in builder' : HasType(read', t[3], {"Sub", "List"}) => Dying(t[3])'
          /\ \A m \in Nodes : Dying(m)' => m \in Roots' \/ HasType(read', m, PartTypes)
          /\ InBulk' => \A t \in builder' : t[1] \in visited'
      BY <1>1, <1>2, <1>3, <1>5 DEF LoopInv
    <2>5. \A m \in Nodes :
            HasType(read', m, ContentTypes) /\ TriplesO(read', m) # {} /\ TriplesO(read', m) \subseteq builder' =>
              Dying(m)' \/ (~InBulk' /\ \E s, t \in Sources(read', m) : s # t)
      BY <1>1, <1>2, <1>3, <1>5 DEF LoopInv
    <2>6. IsJson(current)' => \A json \in SUBSET Nodes : JsonSet(read', json) => ToSet(next') \subseteq json
      <3> SUFFICES ASSUME IsJson(current)', NEW json \in SUBSET Nodes, JsonSet(read, json)
                   PROVE  id \in json
        BY <1>1, <1>3
      <3>1. HasType(read, id, {"JSONDocument"})
        BY <1>1 DEF IsJson
      <3>2. HasType(read, id, {"JSON", "JSONDocument"})
        BY <3>1, TypeTriple
      <3> QED BY <3>2 DEF JsonSet
    <2> QED BY <2>1, <2>2, <2>3, <2>4, <2>5, <2>6 DEF LoopInv
  <1>7. ASSUME stage = "cascade" PROVE CascadeInv'
    <2>1. CascadeInv /\ id \in orphans
      BY <1>3, <1>7 DEF DocInv, Roots
    <2>2. \A n \in Nodes : Dying(n)' => n \in orphans' \/ TriplesO(read', n) \subseteq builder'
      BY <1>1, <1>5, <2>1 DEF CascadeInv
    <2>3. \A n \in orphans' : n \in doomed' \/ Dying(n)'
      BY <1>1, <1>5, <2>1 DEF CascadeInv
    <2>4. \A n \in orphans' : n \in doomed' \/ n = current' \/ UnlinkFiltered(read', n, orphans') \subseteq builder'
      BY <1>1, <1>2, <2>1, NodeAssumption DEF CascadeInv, TypeOK
    <2> QED BY <2>2, <2>3, <2>4 DEF CascadeInv
  <1> QED BY <1>1, <1>2, <1>3, <1>6, <1>7, LoopFrame DEF TypeOK

LEMMA EndDocumentStep ==
  ASSUME DocInv, EndDocument
  PROVE  DocInv'
PROOF
  <1> DEFINE cut == Unlinked(current)
  <1>1. /\ Deleting /\ current # Nobody /\ next = <<>>
        /\ builder' = builder \union cut /\ current' = Nobody
        /\ UNCHANGED <<layer, read, removals, request, doomed, next, visited, candidates, path, memo,
                       orphans, stage, before, validated, lost>>
    BY DEF EndDocument, walk, observed
  <1>2. TypeOK /\ LoopInv /\ ToSet(next) = {}
    <2>1. ToSet(<<>>) = {}
      BY DEF ToSet
    <2> QED BY <1>1, <2>1 DEF DocInv
  <1>3. InBulk' = InBulk /\ Roots' = Roots /\ current \in Roots /\ current \in Nodes
    BY <1>1, <1>2 DEF InBulk, Roots, LoopInv, TypeOK
  <1>4. Shape(read)
    BY <1>1, ReadShape DEF Deleting
  <1>5. \A t \in cut : t \in read /\ t[3] = current /\ t[2] # "type"
    <2>1. \A t \in cut : t \in read /\ t[3] = current
      BY DEF Unlinked, UnlinkFiltered, UnlinkIdDocument, TriplesO
    <2>2. \A t \in read : t[3] = current => t[2] # "type"
      BY <1>3, <1>4, TripleParts, NodeAssumption DEF Shape, Triples
    <2> QED BY <2>1, <2>2
  <1>6. InBulk => cut = {}
    BY <1>1 DEF InBulk, Unlinked, DocInv, RequestInv
  <1> HIDE DEF cut
  <1>7. \A m : Dying(m)' <=> Dying(m)
    <2>1. \A m : Exists(builder', m) <=> Exists(builder, m)
      BY <1>1, <1>5, ExistsTriple
    <2> QED BY <1>1, <2>1 DEF Dying
  <1>8. LoopInv'
    <2>1. doomed' \subseteq Roots' /\ current' = Nobody /\ next' = <<>>
      BY <1>1, <1>2, <1>3 DEF LoopInv
    <2>2. \A m \in ToSet(next') : Exists(read', m)
      BY <1>1, <1>2
    <2>3. InBulk' => \A m \in visited' : TriplesS(read', m) \subseteq builder'
      BY <1>1, <1>2, <1>3 DEF LoopInv
    <2>4. \A t \in builder' : t[2] = "type" \/ t[3] \notin Roots' => TriplesS(read', t[1]) \subseteq builder'
      BY <1>1, <1>2, <1>3, <1>5 DEF LoopInv
    <2>5. \A t \in builder' : HasType(read', t[3], {"Sub", "List"}) => Dying(t[3])'
      <3>1. ~HasType(read, current, {"Sub", "List"})
        <4>1. {"Sub", "List"} \subseteq PartTypes
          BY DEF PartTypes
        <4> QED BY <1>1, <1>3, <4>1, RootIsNoPart
      <3> QED BY <1>1, <1>2, <1>5, <1>7, <3>1 DEF LoopInv
    <2>6. \A m \in Nodes : Dying(m)' => m \in Roots' \/ HasType(read', m, PartTypes)
      BY <1>1, <1>2, <1>3, <1>7 DEF LoopInv
    <2>7. InBulk' => \A t \in builder' : t[1] \in visited'
      BY <1>1, <1>2, <1>3, <1>6 DEF LoopInv
    <2>8. ASSUME NEW m \in Nodes, HasType(read, m, ContentTypes), TriplesO(read, m) # {},
                 TriplesO(read, m) \subseteq builder'
          PROVE  Dying(m)' \/ (~InBulk' /\ \E s, t \in Sources(read, m) : s # t)
      <3>1. m # current
        <4>1. ContentTypes \subseteq PartTypes
          BY DEF ContentTypes, PartTypes
        <4> QED BY <1>1, <1>3, <2>8, <4>1, RootIsNoPart
      <3>2. TriplesO(read, m) \subseteq builder
        BY <1>1, <1>5, <2>8, <3>1 DEF TriplesO
      <3> QED BY <1>2, <1>3, <1>7, <2>8, <3>2 DEF LoopInv
    <2>9. IsJson(current)' => \A json \in SUBSET Nodes : JsonSet(read', json) => ToSet(next') \subseteq json
      BY <1>1, <1>2
    <2>10. read' = read
      BY <1>1
    <2> QED BY <2>1, <2>2, <2>3, <2>4, <2>5, <2>6, <2>7, <2>8, <2>9, <2>10 DEF LoopInv
  <1>9. ASSUME stage = "cascade" PROVE CascadeInv'
    <2>1. CascadeInv
      BY <1>9 DEF DocInv
    <2>2. cut = UnlinkFiltered(read, current, orphans)
      BY <1>9 DEF cut, Unlinked
    <2> QED BY <1>1, <1>7, <2>1, <2>2 DEF CascadeInv
  <1>10. builder' \subseteq read
    BY <1>1, <1>2, <1>5 DEF TypeOK
  <1> QED BY <1>1, <1>2, <1>8, <1>9, <1>10, LoopFrame DEF TypeOK

LEMMA EndRequestStep ==
  ASSUME DocInv, EndRequest
  PROVE  DocInv'
PROOF
  <1> DEFINE bulk == request.op = "bulk"
             kept == request.kept
             gone == builder \ kept
  <1>1. /\ stage = "delete" /\ current = Nobody /\ doomed = {}
        /\ builder' = gone /\ stage' = "check"
        /\ UNCHANGED <<layer, read, removals, request, doomed, current, next, visited, candidates, path,
                       memo, orphans, before, validated, lost>>
    BY DEF EndRequest, loop, walk, observed
  <1>2. TypeOK /\ LayersInv /\ LoopInv /\ RequestInv
    BY <1>1 DEF DocInv, Deleting
  <1>3. next = <<>> /\ ToSet(next) = {} /\ Roots = request.ids /\ Deleting /\ InBulk = bulk
    <2>1. ToSet(<<>>) = {}
      BY DEF ToSet
    <2> QED BY <1>1, <1>2, <2>1 DEF LoopInv, Roots, Deleting, InBulk
  <1>4. \A n : Dying(n) <=> Exists(builder, n)
    BY <1>3 DEF Dying
  \* What is kept is of the documents of the request, all their types with it
  <1>5. \A n : n \notin request.ids /\ Exists(builder, n) => Exists(gone, n)
    <2> SUFFICES ASSUME NEW n, n \notin request.ids, Exists(builder, n) PROVE Exists(gone, n)
      OBVIOUS
    <2>1. PICK t \in builder : t[1] = n /\ t[2] = "type"
      BY ExistsTriple
    <2>2. t \notin kept
      BY <1>2, <2>1 DEF RequestInv
    <2> QED BY <2>1, <2>2, ExistsTriple
  <1>6. Removable(read, gone)
    <2>1. gone \subseteq read
      BY <1>2 DEF TypeOK
    <2>2. ASSUME NEW t \in gone, t[2] = "type" PROVE TriplesS(read, t[1]) \subseteq gone
      <3>1. TriplesS(read, t[1]) \subseteq builder
        BY <1>2, <2>2 DEF LoopInv
      <3>2. ASSUME NEW u \in TriplesS(read, t[1]), u \in kept PROVE FALSE
        <4>1. t[1] \in request.ids
          BY <1>2, <3>2 DEF RequestInv, TriplesS
        <4>2. t \in {v \in TriplesS(read, t[1]) : v[2] = "type"}
          BY <2>1, <2>2 DEF TriplesS
        <4>3. t \in kept
          BY <1>2, <3>2, <4>1, <4>2 DEF RequestInv
        <4> QED BY <4>3
      <3> QED BY <3>1, <3>2
    <2>3. ASSUME NEW t \in gone, HasType(read, t[3], {"Sub", "List"}) PROVE Exists(gone, t[3])
      <3>1. {"Sub", "List"} \subseteq PartTypes
        BY DEF PartTypes
      <3>2. t[3] \notin request.ids
        BY <1>3, <2>3, <3>1, RootIsNoPart
      <3>3. Exists(builder, t[3])
        BY <1>2, <1>4, <2>3 DEF LoopInv
      <3> QED BY <1>5, <3>2, <3>3
    <2> QED BY <2>1, <2>2, <2>3 DEF Removable
  <1>7. Counted(read, gone, bulk)
    <2> SUFFICES ASSUME NEW n \in Nodes, HasType(read, n, ContentTypes), TriplesO(read, n) # {},
                        TriplesO(read, n) \subseteq gone
                 PROVE  Exists(gone, n) \/ (~bulk /\ \E s, t \in Sources(read, n) : s # t)
      BY DEF Counted
    <2>1. Dying(n) \/ (~bulk /\ \E s, t \in Sources(read, n) : s # t)
      BY <1>2, <1>3 DEF LoopInv
    <2>2. n \notin request.ids
      <3>1. ContentTypes \subseteq PartTypes
        BY DEF ContentTypes, PartTypes
      <3> QED BY <1>3, <3>1, RootIsNoPart
    <2> QED BY <1>4, <1>5, <2>1, <2>2
  <1> HIDE DEF gone
  <1>8. TypeOK'
    BY <1>1, <1>2, <1>6 DEF TypeOK, Removable
  <1>9. LayersInv'
    BY <1>1, <1>2, <1>3, <1>6, <1>7 DEF LayersInv, InHook, Committed, Deleting
  <1> QED BY <1>1, <1>8, <1>9 DEF DocInv, Deleting, InHook, OrphansAreGone, Committed

-------------------------------------------------------------------------------
(* The next layer *)

\* The layer of the request and those of the cascade are entered alike
LEMMA NewLayerStep ==
  ASSUME DocInv, stage \in {"check", "cascade"}, NewLayer,
         UNCHANGED <<layer, request, doomed, current, next, visited, path, before>>,
         path = <<>>, current = Nobody, next = <<>>,
         Removable(read, builder), Dangling(read \ builder) = {},
         read' \subseteq validated', validated' \subseteq before,
         ContentHas(read', Base'), LostInv'
  PROVE  DocInv'
PROOF
  <1> DEFINE new == read \ builder
  <1>1. /\ read' = new /\ removals' = builder /\ builder' = {} /\ lost' = lost \union {t[3] : t \in builder}
        /\ candidates' = Candidates(new, builder) /\ memo' = [live |-> {}, dead |-> {}]
        /\ orphans' = {} /\ stage' = "walk"
    BY DEF NewLayer
  <1>2. TypeOK /\ LayersInv
    BY DEF DocInv
  <1>3. Shape(read) /\ Owned(read) /\ read \subseteq before
    BY ReadShape
  <1>4. Shape(new) /\ Owned(new)
    BY <1>3, ShapeKept
  <1> HIDE DEF new
  <1>5. candidates' \subseteq Nodes
    BY <1>1 DEF Candidates
  <1>6. TypeOK'
    <2>1. new \subseteq before /\ removals' \subseteq before
      BY <1>1, <1>2 DEF TypeOK, new
    <2> QED BY <1>1, <1>2, <1>5, <2>1 DEF TypeOK
  <1>7. LayersInv'
    BY <1>1, <1>4 DEF LayersInv, InHook, Committed, Deleting, new
  <1>8. PathInv'
    <2>1. path' = <<>> /\ DOMAIN path' = {}
      OBVIOUS
    <2> QED BY <1>1, <2>1 DEF PathInv, LooksBehind, Chained
  <1>9. MemoInv'
    BY <1>1 DEF MemoInv
  <1>10. CandidatesInv'
    BY <1>1 DEF CandidatesInv, Candidates, Shared
  <1> QED BY <1>1, <1>6, <1>7, <1>8, <1>9, <1>10 DEF DocInv, Deleting, InHook, OrphansAreGone, Committed

LEMMA CandidatesAreBelow ==
  ASSUME NEW l, NEW removed, NEW n \in Nodes, HasType(l, n, SharedTypes), NEW t \in removed, t[3] = n
  PROVE  n \in Candidates(l, removed)
PROOF BY DEF Candidates

LEMMA ValidateStep ==
  ASSUME DocInv, Validate
  PROVE  DocInv'
PROOF
  <1> DEFINE new == read \ builder
             bulk == request.op = "bulk"
  <1>1. /\ stage = "check"
        /\ UNCHANGED <<layer, request, doomed, current, next, visited, path, before>>
    BY DEF Validate, loop
  <1>2. TypeOK /\ LayersInv /\ Removable(read, builder) /\ Counted(read, builder, bulk)
    BY <1>1 DEF DocInv, LayersInv
  <1>3. /\ read = before /\ validated = before /\ WellFormed(before) /\ lost = {} /\ path = <<>>
        /\ current = Nobody /\ next = <<>>
    BY <1>1, <1>2 DEF LayersInv, Deleting
  <1>4. CASE Dangling(new) = {}
    <2>1. NewLayer /\ validated' = read'
      BY <1>4 DEF Validate
    <2>2. read' = new /\ read' \subseteq before
      BY <1>3, <2>1 DEF NewLayer
    <2>3. ContentHas(read', Base')
      <3> SUFFICES ASSUME NEW n \in Nodes, HasType(new, n, ContentTypes), TriplesO(new, n) = {}
                   PROVE  ~bulk /\ \E s, t \in Sources(read, n) : s # t
        BY <1>1, <1>3, <2>1, <2>2 DEF ContentHas, Base
      <3>1. Shape(read) /\ bulk \in BOOLEAN
        BY <1>3, WellFormedShape
      <3>2. HasType(read, n, ContentTypes)
        <4>1. new \subseteq read
          OBVIOUS
        <4> HIDE DEF new
        <4> QED BY <4>1, TypeInLarger
      <3>3. TriplesO(read, n) # {}
        BY <1>3, <3>2, WellFormedShape
      <3> QED BY <1>2, <3>1, <3>3, ContentKept
    <2>4. LostInv'
      <3> SUFFICES ASSUME NEW n \in lost' \cap Nodes, HasType(new, n, SharedTypes)
                   PROVE  n \in Below(new, Instances(new, Classes \ SharedTypes) \union Candidates(new, builder))
        BY <2>1, <2>2 DEF LostInv, Shared, NewLayer
      <3>1. PICK t \in builder : t[3] = n
        BY <1>3, <2>1 DEF NewLayer
      <3>2. n \in Candidates(new, builder)
        BY <3>1, CandidatesAreBelow
      <3>3. Instances(new, Classes \ SharedTypes) \union Candidates(new, builder) \subseteq Nodes
        BY DEF Instances, Candidates
      <3> QED BY <3>2, <3>3, BelowContains
    <2> QED BY <1>1, <1>2, <1>3, <1>4, <2>1, <2>2, <2>3, <2>4, NewLayerStep
  <1>5. CASE Dangling(new) # {}
    <2>1. /\ stage' = "refused"
          /\ UNCHANGED <<read, removals, builder, lost, candidates, memo, orphans, validated>>
      BY <1>5 DEF Validate
    <2>2. TypeOK'
      BY <1>1, <1>2, <2>1 DEF TypeOK
    <2>3. LayersInv'
      BY <1>1, <1>3, <2>1 DEF LayersInv, InHook, Committed, Deleting
    <2> QED BY <2>1, <2>2, <2>3 DEF DocInv, Deleting, InHook, OrphansAreGone, Committed
  <1> QED BY <1>4, <1>5

\* What a round of the cascade removes
LEMMA CascadeRemoves ==
  ASSUME DocInv, stage = "cascade", current = Nobody, doomed = {}
  PROVE  /\ next = <<>> /\ path = <<>> /\ candidates = {}
         /\ Removable(read, builder) /\ Counted(read, builder, FALSE)
         /\ \A n \in Nodes : Exists(builder, n) => n \in orphans \/ TriplesO(read, n) \subseteq builder
         /\ \A n \in orphans : Exists(builder, n) /\ UnlinkFiltered(read, n, orphans) \subseteq builder
PROOF
  <1>1. TypeOK /\ LoopInv /\ CascadeInv /\ PathInv /\ CandidatesInv
    BY DEF DocInv, Deleting, InHook
  <1>2. next = <<>> /\ ToSet(next) = {} /\ path = <<>> /\ candidates = {} /\ ~InBulk
    <2>1. ToSet(<<>>) = {}
      BY DEF ToSet
    <2> QED BY <1>1, <2>1 DEF LoopInv, PathInv, CandidatesInv, InBulk
  <1>3. \A n : Dying(n) <=> Exists(builder, n)
    BY <1>2 DEF Dying
  <1>4. Removable(read, builder)
    BY <1>1, <1>3 DEF LoopInv, Removable, TypeOK
  <1>5. Counted(read, builder, FALSE)
    BY <1>1, <1>2, <1>3 DEF LoopInv, Counted
  <1>6. \A n \in orphans : UnlinkFiltered(read, n, orphans) \subseteq builder
    BY <1>1, NodeAssumption DEF CascadeInv, TypeOK
  <1>7. \A n \in orphans : Exists(builder, n)
    BY <1>1, <1>3 DEF CascadeInv
  <1>8. \A n \in Nodes : Exists(builder, n) => n \in orphans \/ TriplesO(read, n) \subseteq builder
    BY <1>1, <1>3 DEF CascadeInv
  <1> QED BY <1>2, <1>4, <1>5, <1>6, <1>7, <1>8

\* Nothing validates the layers of the cascade: they hold together by what it unlinks
LEMMA NoNewDangling ==
  ASSUME DocInv, stage = "cascade", current = Nobody, doomed = {}
  PROVE  Dangling(read \ builder) = {}
PROOF
  <1> DEFINE new == read \ builder
  <1>1. /\ Removable(read, builder)
        /\ \A n \in Nodes : Exists(builder, n) => n \in orphans \/ TriplesO(read, n) \subseteq builder
        /\ \A n \in orphans : Exists(builder, n) /\ UnlinkFiltered(read, n, orphans) \subseteq builder
    BY CascadeRemoves
  <1>2. Shape(read) /\ Dangling(read) = {}
    BY ReadShape
  <1> SUFFICES ASSUME NEW t \in new, t[2] # "type", ~Exists(new, t[3]) PROVE FALSE
    BY DEF Dangling
  <1>3. t \in read /\ t \notin builder /\ t[3] \in Nodes
    BY <1>2, TripleParts DEF Shape, Triples
  <1>4. PICK u \in read : u[1] = t[3] /\ u[2] = "type"
    BY <1>2, <1>3, ExistsTriple DEF Dangling
  <1>5. u \in builder
    BY <1>4, ExistsTriple
  <1>6. Exists(builder, t[3])
    BY <1>4, <1>5, ExistsTriple
  <1>7. t[3] \in orphans
    BY <1>1, <1>3, <1>6 DEF TriplesO
  <1>8. t[2] = "first" \/ t[1] \in orphans
    BY <1>1, <1>3, <1>7 DEF UnlinkFiltered, UnlinkIdDocument, TriplesO
  <1>9. t[1] \notin orphans
    <2> SUFFICES ASSUME t[1] \in orphans PROVE FALSE
      OBVIOUS
    <2>1. TriplesS(read, t[1]) \subseteq builder
      BY <1>1, <1>2, GoneNode
    <2> QED BY <1>3, <2>1 DEF TriplesS
  <1>10. HasType(read, t[1], {"List", "JSON"})
    BY <1>2, <1>3, <1>8, <1>9 DEF Shape
  <1>11. ~HasType(read, t[1], SharedTypes)
    <2>1. {"List", "JSON"} \cap SharedTypes = {}
      BY DEF SharedTypes
    <2> QED BY <1>2, <1>10, <2>1, OneType
  <1>12. MemoInv
    BY DEF DocInv, InHook
  <1>13. t[1] \in Sources(read, t[3])
    BY <1>3 DEF Sources, TriplesO
  <1> QED BY <1>7, <1>11, <1>12, <1>13 DEF MemoInv, Shared

\* Who is live in the layer before is live in the layer after, or below what was unlinked
LEMMA StillLost ==
  ASSUME DocInv, stage = "cascade", current = Nobody, doomed = {}, NewLayer, candidates = {}, path = <<>>
  PROVE  LostInv'
PROOF
  <1> DEFINE new == read \ builder
             base == Instances(new, Classes \ SharedTypes) \union Candidates(new, builder)
             old == Instances(read, Classes \ SharedTypes)
  <1>1. read' = new /\ removals' = builder /\ lost' = lost \union {t[3] : t \in builder}
    BY DEF NewLayer
  <1>2. /\ Removable(read, builder) /\ \A n \in orphans : Exists(builder, n)
    BY CascadeRemoves
  <1>3. Shape(read) /\ \A n, classes : HasType(read, n, classes) => n \in Nodes
    BY ReadShape
  <1>4. MemoInv /\ CandidatesInv /\ LostInv
    BY DEF DocInv, InHook
  <1>5. new \subseteq read
    OBVIOUS
  <1>6. Shape(new)
    BY <1>2, <1>3, ShapeKept
  <1> SUFFICES ASSUME NEW n \in lost' \cap Nodes, HasType(new, n, SharedTypes)
               PROVE  n \in Below(new, base)
    BY <1>1 DEF LostInv, Shared
  <1> SUFFICES ASSUME NEW c \in SUBSET Nodes, base \subseteq c, LinkClosed(new, c)
               PROVE  n \in c
    BY BelowByClosed
  <1> DEFINE wide == c \union {m \in Nodes : ~Exists(new, m)}
  <1>7. Candidates(new, builder) \subseteq c /\ Instances(new, Classes \ SharedTypes) \subseteq c
    OBVIOUS
  <1>8. wide \in SUBSET Nodes /\ \A m \in wide : Exists(new, m) => m \in c
    OBVIOUS
  <1>9. \A m \in Nodes : ~Exists(new, m) => m \in wide
    OBVIOUS
  <1>9a. c \subseteq wide
    OBVIOUS
  <1> HIDE DEF new, base, wide
  <1>10. old \subseteq wide
    <2> SUFFICES ASSUME NEW m \in Nodes, HasType(read, m, Classes \ SharedTypes), Exists(new, m)
                 PROVE  m \in c
      BY <1>9, <1>9a DEF Instances
    <2>1. HasType(new, m, Classes \ SharedTypes)
      BY <1>3, <1>5, TypeKept
    <2> QED BY <1>7, <2>1 DEF Instances
  <1>11. LinkClosed(read, wide)
    <2> SUFFICES ASSUME NEW t \in read, t[1] \in wide, t[1] # t[3], HasType(read, t[3], SharedTypes),
                        Exists(new, t[3])
                 PROVE  t[3] \in c
      BY <1>3, <1>9, <1>9a DEF LinkClosed
    <2>1. HasType(new, t[3], SharedTypes) /\ t[3] \in Nodes
      BY <1>3, <1>5, TypeKept
    <2>2. CASE t \in builder
      BY <1>7, <2>1, <2>2, CandidatesAreBelow
    <2>3. CASE t \in new
      <3>1. t[1] \in c
        BY <1>6, <1>8, <2>3 DEF Shape
      <3> QED BY <2>1, <2>3, <3>1 DEF LinkClosed
    <2> QED BY <2>2, <2>3 DEF new
  <1>12. Alive(read) \subseteq wide
    BY <1>8, <1>10, <1>11, BelowLeast DEF Alive, LiveFrom
  <1>13. Candidates(read, removals) \subseteq wide
    <2> SUFFICES ASSUME NEW m \in Candidates(read, removals) PROVE m \in wide
      OBVIOUS
    <2>1. m \in memo.live \/ m \in orphans
      BY <1>4 DEF CandidatesInv
    <2>2. CASE m \in memo.live
      BY <1>4, <1>12, <2>2 DEF MemoInv
    <2>3. CASE m \in orphans
      <3>1. ~Exists(new, m)
        BY <1>2, <1>3, <2>3, GoneNode DEF new
      <3>2. m \in Nodes
        BY DEF Candidates
      <3> QED BY <1>9, <3>1, <3>2
    <2> QED BY <2>1, <2>2, <2>3
  <1>14. Exists(new, n) /\ HasType(read, n, SharedTypes)
    BY <1>5, TypedExists, TypeInLarger
  <1>15. CASE n \in lost
    <2>1. n \in Below(read, old \union Candidates(read, removals))
      BY <1>4, <1>14, <1>15 DEF LostInv, Shared
    <2>2. old \union Candidates(read, removals) \subseteq wide
      BY <1>10, <1>13
    <2> HIDE DEF old
    <2>3. n \in wide
      BY <1>8, <1>11, <2>1, <2>2, BelowLeast
    <2> QED BY <1>8, <1>14, <2>3
  <1>16. CASE n \notin lost
    <2>1. PICK t \in builder : t[3] = n
      BY <1>1, <1>16
    <2> QED BY <1>7, <2>1, CandidatesAreBelow
  <1> QED BY <1>15, <1>16

LEMMA EndCascadeStep ==
  ASSUME DocInv, EndCascade
  PROVE  DocInv'
PROOF
  <1> DEFINE new == read \ builder
  <1>1. /\ stage = "cascade" /\ current = Nobody /\ doomed = {} /\ NewLayer
        /\ UNCHANGED <<layer, request, doomed, current, next, visited, path, before, validated>>
    BY DEF EndCascade, loop
  <1>2. TypeOK /\ LayersInv
    BY DEF DocInv
  <1>3. next = <<>> /\ path = <<>> /\ candidates = {} /\ Removable(read, builder) /\ Counted(read, builder, FALSE)
    BY <1>1, CascadeRemoves
  <1>4. Dangling(new) = {}
    BY <1>1, NoNewDangling
  <1>5. /\ Shape(read) /\ ContentHas(read, Base) /\ read \subseteq validated /\ validated \subseteq before
    BY <1>1, <1>2 DEF LayersInv, InHook
  <1>6. read' = new /\ new \subseteq read /\ Base' = Base /\ read \subseteq Base
    BY <1>1, <1>5 DEF NewLayer, Base
  <1>7. ContentHas(read', Base')
    <2> SUFFICES ASSUME NEW n \in Nodes, HasType(new, n, ContentTypes), TriplesO(new, n) = {}
                 PROVE  \E s, t \in Sources(Base, n) : s # t
      BY <1>6 DEF ContentHas
    <2>1. CASE TriplesO(read, n) = {}
      <3>1. HasType(read, n, ContentTypes)
        BY <1>6, TypeInLarger
      <3> QED BY <1>5, <2>1, <3>1 DEF ContentHas
    <2>2. CASE TriplesO(read, n) # {}
      <3>1. \E s, t \in Sources(read, n) : s # t
        BY <1>3, <1>5, <2>2, ContentKept
      <3>2. Sources(read, n) \subseteq Sources(Base, n)
        BY <1>6 DEF Sources, TriplesO
      <3> QED BY <3>1, <3>2
    <2> QED BY <2>1, <2>2
  <1>8. LostInv'
    BY <1>1, <1>3, StillLost
  <1> QED BY <1>1, <1>3, <1>4, <1>5, <1>6, <1>7, <1>8, NewLayerStep

-------------------------------------------------------------------------------
(* The walk *)

\* The stages and layers a step of the walk leaves alone
LEMMA WalkFrame ==
  ASSUME DocInv, stage = "walk",
         UNCHANGED <<layer, read, builder, removals, request, doomed, current, next, stage, before,
                     validated, lost>>,
         candidates' \subseteq Nodes, orphans' \subseteq Nodes, visited' \subseteq Nodes,
         memo' \in [live : SUBSET Nodes, dead : SUBSET Nodes],
         path' \in Seq([node : Nodes, sources : SUBSET Nodes]),
         PathInv', MemoInv', CandidatesInv'
  PROVE  DocInv'
PROOF
  <1>1. TypeOK /\ LayersInv /\ LostInv
    BY DEF DocInv, InHook
  <1>2. TypeOK'
    BY <1>1 DEF TypeOK
  <1>3. LayersInv'
    BY <1>1 DEF LayersInv, InHook, Committed, Deleting, Base
  <1>4. LostInv'
    BY <1>1 DEF LostInv, Shared
  <1> QED BY <1>2, <1>3, <1>4 DEF DocInv, Deleting, InHook, OrphansAreGone, Committed

LEMMA FrameOfShared ==
  ASSUME NEW n
  PROVE  Frame(n).node = n /\ Frame(n).sources = Sources(read, n)
PROOF BY DEF Frame

LEMMA SourcesAreNodes ==
  ASSUME DocInv, stage = "walk", NEW n
  PROVE  Sources(read, n) \subseteq Nodes /\ \A s \in Sources(read, n) : Exists(read, s)
PROOF
  <1>1. Shape(read)
    BY ReadShape
  <1> QED BY <1>1, TripleParts DEF Sources, TriplesO, Shape, Triples

LEMMA LookStep ==
  ASSUME DocInv, NEW n \in Nodes, Look(n)
  PROVE  DocInv'
PROOF
  <1>1. /\ stage = "walk" /\ path = <<>> /\ n \in candidates /\ candidates' = candidates \ {n}
        /\ UNCHANGED <<layer, read, builder, removals, request, doomed, current, next, memo, stage,
                       before, validated, lost>>
    BY DEF Look, observed
  <1>2. TypeOK /\ PathInv /\ MemoInv /\ CandidatesInv
    BY <1>1 DEF DocInv, InHook
  <1>3. Shared(n)
    BY <1>1, <1>2 DEF CandidatesInv
  <1>4. CASE n \in memo.live \union memo.dead
    <2>1. path' = path /\ visited' = visited /\ orphans' = IF n \in memo.dead THEN orphans \union {n} ELSE orphans
      BY <1>4 DEF Look
    <2>2. DOMAIN path' = {} /\ path' = <<>>
      BY <1>1, <2>1
    <2>3. PathInv'
      BY <1>1, <2>2 DEF PathInv, LooksBehind, Chained
    <2>4. MemoInv'
      BY <1>1, <1>2, <2>1 DEF MemoInv, Shared, Alive
    <2>5. CandidatesInv'
      BY <1>1, <1>2, <1>4, <2>1 DEF CandidatesInv, Shared
    <2> QED BY <1>1, <1>2, <2>1, <2>3, <2>4, <2>5, WalkFrame DEF TypeOK
  <1>5. CASE n \notin memo.live \union memo.dead
    <2>1. path' = <<Frame(n)>> /\ visited' = {n} /\ orphans' = orphans
      BY <1>5 DEF Look
    <2>2. DOMAIN path' = {1} /\ path'[1] = Frame(n) /\ path' # <<>>
      BY <2>1
    <2>3. path'[1].node = n /\ path'[1].sources = Sources(read, n) /\ Sources(read, n) \subseteq Nodes
      BY <1>1, <2>2, FrameOfShared, SourcesAreNodes
    <2>4. PathInv'
      <3>1. LooksBehind(read, path', memo.dead)
        BY <1>3, <2>2, <2>3 DEF LooksBehind, LooksBack, Shared
      <3>2. Chained(read, path')
        BY <2>2 DEF Chained
      <3>3. visited' \subseteq NodesOf(path')
        BY <2>1, <2>2, <2>3 DEF NodesOf
      <3> QED BY <1>1, <2>2, <3>1, <3>2, <3>3 DEF PathInv
    <2>5. MemoInv'
      BY <1>1, <1>2, <2>1 DEF MemoInv, Shared, Alive
    <2>6. CandidatesInv'
      BY <1>1, <1>2, <2>1, <2>2, <2>3 DEF CandidatesInv, Shared
    <2>7. path' \in Seq([node : Nodes, sources : SUBSET Nodes])
      <3>1. Frame(n) \in [node : Nodes, sources : SUBSET Nodes]
        BY <2>3 DEF Frame
      <3> HIDE DEF Nodes
      <3> QED BY <2>1, <3>1
    <2> QED BY <1>1, <1>2, <2>1, <2>4, <2>5, <2>6, <2>7, WalkFrame DEF TypeOK
  <1> QED BY <1>4, <1>5

\* The call on top
LEMMA TopFacts ==
  ASSUME DocInv, Walking
  PROVE  /\ Len(path) \in Nat /\ Len(path) >= 1 /\ DOMAIN path = 1 .. Len(path)
         /\ Len(path) \in DOMAIN path /\ 1 \in DOMAIN path
         /\ \A i \in DOMAIN path : path[i] \in [node : Nodes, sources : SUBSET Nodes]
         /\ Top = path[Len(path)] /\ Top.node \in Nodes /\ Shared(Top.node)
         /\ Top.sources \subseteq Sources(read, Top.node)
PROOF
  <1>1. TypeOK /\ PathInv /\ path # <<>>
    BY DEF DocInv, InHook, Walking
  <1> DEFINE Calls == [node : Nodes, sources : SUBSET Nodes]
  <1>2. path \in Seq(Calls)
    BY <1>1 DEF TypeOK
  <1> HIDE DEF Nodes
  <1>3. /\ Len(path) \in Nat /\ Len(path) >= 1 /\ DOMAIN path = 1 .. Len(path)
        /\ Len(path) \in DOMAIN path /\ 1 \in DOMAIN path /\ \A i \in DOMAIN path : path[i] \in Calls
    <2> HIDE DEF Calls
    <2>1. Len(path) \in Nat /\ DOMAIN path = 1 .. Len(path) /\ Len(path) # 0
      BY <1>1, <1>2
    <2>2. Len(path) >= 1 /\ Len(path) \in 1 .. Len(path) /\ 1 \in 1 .. Len(path)
      BY <2>1
    <2> QED BY <1>2, <2>1, <2>2
  <1>4. Top = path[Len(path)] /\ Top \in Calls
    BY <1>3 DEF Top
  <1>5. Shared(Top.node) /\ Top.sources \subseteq Sources(read, Top.node)
    BY <1>1, <1>3, <1>4 DEF PathInv, LooksBehind, LooksBack, Shared
  <1> QED BY <1>3, <1>4, <1>5

LEMMA BehindFacts ==
  ASSUME DocInv, Walking, NEW s
  PROVE  /\ Behind(s) \in Seq([node : Nodes, sources : SUBSET Nodes])
         /\ DOMAIN Behind(s) = DOMAIN path /\ Len(Behind(s)) = Len(path)
         /\ \A i \in DOMAIN path :
              /\ Behind(s)[i].node = path[i].node
              /\ Behind(s)[i].sources = IF i = Len(path) THEN path[i].sources \ {s} ELSE path[i].sources
PROOF
  <1>1. path \in Seq([node : Nodes, sources : SUBSET Nodes])
    BY DEF DocInv, TypeOK
  <1>2. /\ Len(path) \in Nat /\ DOMAIN path = 1 .. Len(path) /\ Len(path) \in DOMAIN path
        /\ \A i \in DOMAIN path : path[i] \in [node : Nodes, sources : SUBSET Nodes]
    BY TopFacts
  <1> HIDE DEF Nodes
  <1> DEFINE new == [path[Len(path)] EXCEPT !.sources = @ \ {s}]
  <1>3. /\ new \in [node : Nodes, sources : SUBSET Nodes]
        /\ new.node = path[Len(path)].node /\ new.sources = path[Len(path)].sources \ {s}
    BY <1>2
  <1>4. Behind(s) = [path EXCEPT ![Len(path)] = new]
    BY <1>2 DEF Behind
  <1> HIDE DEF new
  <1>5. Behind(s) \in Seq([node : Nodes, sources : SUBSET Nodes]) /\ DOMAIN Behind(s) = DOMAIN path
    BY <1>1, <1>2, <1>3, <1>4
  <1>6. \A i \in DOMAIN path : Behind(s)[i] = IF i = Len(path) THEN new ELSE path[i]
    BY <1>2, <1>4
  <1>7. Len(Behind(s)) = Len(path)
    BY <1>1, <1>2, <1>4
  <1> QED BY <1>3, <1>5, <1>6, <1>7

LEMMA PassOverStep ==
  ASSUME DocInv, NEW s \in Nodes, PassOver(s)
  PROVE  DocInv'
PROOF
  <1>1. /\ Walking /\ stage = "walk" /\ path # <<>> /\ s \in Top.sources
        /\ s = Top.node \/ s \in visited \/ s \in memo.dead
        /\ path' = Behind(s)
        /\ UNCHANGED <<layer, read, builder, removals, request, doomed, current, next, candidates, stage,
                       before, validated, lost, visited, memo, orphans>>
    BY DEF PassOver, WalkUnchanged, observed, Earliest, Walking
  <1>2. TypeOK /\ PathInv /\ MemoInv /\ CandidatesInv
    BY <1>1 DEF DocInv, InHook
  <1>3. /\ Len(path) \in Nat /\ Len(path) >= 1 /\ DOMAIN path = 1 .. Len(path)
        /\ Len(path) \in DOMAIN path /\ 1 \in DOMAIN path /\ Top = path[Len(path)]
    BY <1>1, TopFacts
  <1>4. /\ path' \in Seq([node : Nodes, sources : SUBSET Nodes])
        /\ DOMAIN path' = DOMAIN path
        /\ \A i \in DOMAIN path :
              /\ path'[i].node = path[i].node
              /\ path'[i].sources = IF i = Len(path) THEN path[i].sources \ {s} ELSE path[i].sources
    BY <1>1, BehindFacts
  <1>5. path' # <<>>
    BY <1>3, <1>4
  <1>6. PathInv'
    <2>1. s \in memo.dead \/ \E j \in DOMAIN path : j <= Len(path) + 1 /\ s = path[j].node
      <3>1. CASE s \in memo.dead
        BY <3>1
      <3>2. CASE s = Top.node
        BY <1>3, <3>2
      <3>3. CASE s \in visited
        <4>1. s \in memo.dead \/ s \in NodesOf(path)
          BY <1>1, <1>2, <3>3 DEF PathInv
        <4>2. \A j \in DOMAIN path : j <= Len(path) + 1
          BY <1>3
        <4> QED BY <4>1, <4>2 DEF NodesOf
      <3> QED BY <1>1, <3>1, <3>2, <3>3
    <2>2. LooksBehind(read, path', memo.dead)
      <3> SUFFICES ASSUME NEW i \in DOMAIN path PROVE LooksBack(read, path', memo.dead, i)
        BY <1>4 DEF LooksBehind
      <3>1. /\ HasType(read, path[i].node, SharedTypes)
            /\ path[i].sources \subseteq Sources(read, path[i].node)
            /\ \A u \in Sources(read, path[i].node) \ path[i].sources :
                 u \in memo.dead \/ \E j \in DOMAIN path : j <= i + 1 /\ u = path[j].node
        BY <1>2 DEF PathInv, LooksBehind, LooksBack
      <3>2. ASSUME NEW u \in Sources(read, path[i].node) \ path'[i].sources
            PROVE  u \in memo.dead \/ \E j \in DOMAIN path : j <= i + 1 /\ u = path[j].node
        <4>1. CASE u \notin path[i].sources
          BY <3>1, <4>1
        <4>2. CASE u \in path[i].sources
          BY <1>4, <2>1, <4>2
        <4> QED BY <4>1, <4>2
      <3>3. /\ path'[i].node = path[i].node /\ path'[i].sources \subseteq path[i].sources
            /\ DOMAIN path' = DOMAIN path /\ \A j \in DOMAIN path : path'[j].node = path[j].node
        BY <1>4
      <3>4. path'[i].sources \subseteq Sources(read, path'[i].node)
        BY <3>1, <3>3
      <3>5. ASSUME NEW u \in Sources(read, path'[i].node) \ path'[i].sources
            PROVE  u \in memo.dead \/ \E j \in DOMAIN path' : j <= i + 1 /\ u = path'[j].node
        <4>1. u \in memo.dead \/ \E j \in DOMAIN path : j <= i + 1 /\ u = path[j].node
          BY <3>2, <3>3
        <4> QED BY <3>3, <4>1
      <3> QED BY <3>1, <3>3, <3>4, <3>5 DEF LooksBack
    <2>3. Chained(read, path')
      BY <1>2, <1>4 DEF PathInv, Chained
    <2>4. NodesOf(path') = NodesOf(path)
      BY <1>4 DEF NodesOf
    <2> QED BY <1>1, <1>2, <2>2, <2>3, <2>4 DEF PathInv
  <1>7. MemoInv'
    BY <1>1, <1>2 DEF MemoInv, Shared, Alive
  <1>8. CandidatesInv'
    BY <1>1, <1>2, <1>3, <1>4, <1>5 DEF CandidatesInv, Shared
  <1> QED BY <1>1, <1>2, <1>4, <1>6, <1>7, <1>8, WalkFrame DEF TypeOK

\* A source that is looked at makes its target live, or is on the way up from it
LEMMA LinkToTop ==
  ASSUME DocInv, Walking, NEW s \in Top.sources, s # Top.node
  PROVE  /\ s \in Nodes /\ Exists(read, s)
         /\ \A c \in SUBSET Nodes : LinkClosed(read, c) /\ s \in c => Top.node \in c
         /\ Shared(s) => \A c \in SUBSET Nodes : UpClosed(read, c) /\ Top.node \in c => s \in c
PROOF
  <1>1. stage = "walk" /\ s \in Sources(read, Top.node) /\ Shared(Top.node)
    BY TopFacts DEF Walking
  <1>2. s \in Nodes /\ Exists(read, s)
    BY <1>1, SourcesAreNodes
  <1>3. PICK t \in read : t[1] = s /\ t[3] = Top.node
    BY <1>1 DEF Sources, TriplesO
  <1>4. \A c \in SUBSET Nodes : LinkClosed(read, c) /\ s \in c => Top.node \in c
    BY <1>1, <1>3 DEF LinkClosed, Shared
  <1>5. ASSUME Shared(s), NEW c \in SUBSET Nodes, UpClosed(read, c), Top.node \in c
        PROVE  s \in c
    <2>1. <<s, Top.node>> \in SharedLinks(read)
      BY <1>1, <1>3, <1>5, SharedLink DEF Shared
    <2>2. <<s, Top.node>>[1] = s /\ <<s, Top.node>>[2] = Top.node
      OBVIOUS
    <2> QED BY <1>5, <2>1, <2>2 DEF UpClosed
  <1> QED BY <1>2, <1>4, <1>5

LEMMA FindLiveStep ==
  ASSUME DocInv, NEW s \in Nodes, FindLive(s)
  PROVE  DocInv'
PROOF
  <1> DEFINE found == {path[i].node : i \in DOMAIN path}
  <1>1. /\ Walking /\ stage = "walk" /\ path # <<>> /\ s \in Top.sources
        /\ s # Top.node
        /\ s \in memo.live \/ (Exists(read, s) /\ ~HasType(read, s, SharedTypes))
        /\ memo' = [memo EXCEPT !.live = @ \union found] /\ path' = <<>>
        /\ UNCHANGED <<layer, read, builder, removals, request, doomed, current, next, candidates, stage,
                       before, validated, lost, visited, orphans>>
    BY DEF FindLive, WalkUnchanged, observed, Earliest, Walking
  <1>2. TypeOK /\ PathInv /\ MemoInv /\ CandidatesInv
    BY <1>1 DEF DocInv, InHook
  <1>3. /\ Len(path) \in Nat /\ DOMAIN path = 1 .. Len(path) /\ Top = path[Len(path)]
        /\ Len(path) \in DOMAIN path /\ 1 \in DOMAIN path
        /\ \A i \in DOMAIN path : path[i] \in [node : Nodes, sources : SUBSET Nodes]
    BY <1>1, TopFacts
  <1>4. found \subseteq Nodes
    BY <1>3
  <1>5. found \subseteq Alive(read)
    <2> SUFFICES ASSUME NEW i \in DOMAIN path,
                        NEW c \in SUBSET Nodes, Instances(read, Classes \ SharedTypes) \subseteq c, LinkClosed(read, c)
                 PROVE  path[i].node \in c
      BY <1>4, BelowByClosed DEF Alive, LiveFrom
    <2>1. s \in c
      <3>1. CASE s \in memo.live
        BY <1>2, <3>1, BelowLeast DEF MemoInv, Alive, LiveFrom
      <3>2. CASE Exists(read, s) /\ ~HasType(read, s, SharedTypes)
        <4>1. Classes \ (Classes \ SharedTypes) = SharedTypes
          BY DEF Classes, SharedTypes, DocumentTypes
        <4>2. HasType(read, s, Classes \ SharedTypes)
          BY <1>1, <3>2, <4>1, ReadShape, SomeClass
        <4> QED BY <4>2 DEF Instances
      <3> QED BY <1>1, <3>1, <3>2
    <2>2. Top.node \in c
      BY <1>1, <2>1, LinkToTop
    <2>3. i <= Len(path)
      BY <1>3
    <2> QED BY <1>2, <1>3, <2>2, <2>3 DEF PathInv, Chained
  <1> HIDE DEF found
  <1>6. /\ memo'.dead = memo.dead /\ memo'.live = memo.live \union found
        /\ memo' \in [live : SUBSET Nodes, dead : SUBSET Nodes]
    <2> HIDE DEF Nodes
    <2> QED BY <1>1, <1>2, <1>4 DEF TypeOK
  <1>7. path[1].node \in found
    BY <1>3 DEF found
  <1>8. PathInv'
    <2>1. DOMAIN path' = {} /\ path' = <<>>
      BY <1>1
    <2> QED BY <1>1, <2>1 DEF PathInv, LooksBehind, Chained
  <1>9. MemoInv'
    BY <1>1, <1>2, <1>5, <1>6 DEF MemoInv, Shared, Alive
  <1>10. CandidatesInv'
    BY <1>1, <1>2, <1>6, <1>7 DEF CandidatesInv, Shared
  <1>11. path' \in Seq([node : Nodes, sources : SUBSET Nodes])
    <2> HIDE DEF Nodes
    <2> QED BY <1>1
  <1> QED BY <1>1, <1>2, <1>4, <1>6, <1>8, <1>9, <1>10, <1>11, WalkFrame DEF TypeOK

LEMMA GoToStep ==
  ASSUME DocInv, NEW s \in Nodes, GoTo(s)
  PROVE  DocInv'
PROOF
  <1> DEFINE k == Len(path)
             Calls == [node : Nodes, sources : SUBSET Nodes]
             back == Behind(s)
  <1>1. /\ Walking /\ stage = "walk" /\ path # <<>> /\ s \in Top.sources
        /\ s # Top.node /\ (Exists(read, s) => HasType(read, s, SharedTypes))
        /\ path' = Append(back, Frame(s)) /\ visited' = visited \union {s}
        /\ UNCHANGED <<layer, read, builder, removals, request, doomed, current, next, candidates, stage,
                       before, validated, lost, memo, orphans>>
    BY DEF GoTo, WalkUnchanged, observed, Earliest, Walking
  <1>2. TypeOK /\ PathInv /\ MemoInv /\ CandidatesInv
    BY <1>1 DEF DocInv, InHook
  <1>3. /\ k \in Nat /\ k >= 1 /\ DOMAIN path = 1 .. k /\ k \in DOMAIN path /\ 1 \in DOMAIN path
        /\ Top = path[k]
    BY <1>1, TopFacts
  <1>4. /\ back \in Seq(Calls) /\ DOMAIN back = DOMAIN path /\ Len(back) = k
        /\ \A i \in DOMAIN path :
              /\ back[i].node = path[i].node
              /\ back[i].sources = IF i = k THEN path[i].sources \ {s} ELSE path[i].sources
    BY <1>1, BehindFacts
  <1>5. Shared(s) /\ Exists(read, s)
    BY <1>1, LinkToTop DEF Shared
  <1>6. Frame(s) \in Calls /\ Frame(s).node = s /\ Frame(s).sources = Sources(read, s)
    <2>1. Sources(read, s) \subseteq Nodes
      BY <1>1, SourcesAreNodes
    <2> HIDE DEF Nodes
    <2> QED BY <2>1 DEF Frame
  <1> HIDE DEF back, Calls
  <1>7. /\ path' \in Seq(Calls) /\ DOMAIN path' = 1 .. k + 1
        /\ path'[k + 1] = Frame(s) /\ \A i \in 1 .. k : path'[i] = back[i]
    BY <1>1, <1>3, <1>4, <1>6, AppendProperties
  <1> HIDE DEF k
  <1>8. \A i \in 1 .. k + 1 : i \in 1 .. k \/ i = k + 1
    BY <1>3
  <1>9. \A i \in 1 .. k : i \in 1 .. k + 1 /\ i <= k /\ ~(k + 1 <= i) /\ i + 1 <= k + 1
    BY <1>3
  <1>10. \A i \in 1 .. k : path'[i].node = path[i].node
    BY <1>3, <1>4, <1>7
  <1>11. path'[k + 1].node = s /\ k + 1 \in DOMAIN path' /\ DOMAIN path = 1 .. k
    BY <1>3, <1>6, <1>7
  <1>12. LooksBehind(read, path', memo.dead)
    <2>1. LooksBack(read, path', memo.dead, k + 1)
      <3>1. path'[k + 1].sources = Sources(read, path'[k + 1].node)
        BY <1>6, <1>7
      <3> QED BY <1>5, <1>11, <3>1 DEF LooksBack, Shared
    <2>2. ASSUME NEW i \in 1 .. k PROVE LooksBack(read, path', memo.dead, i)
      <3>1. LooksBack(read, path, memo.dead, i)
        BY <1>2, <1>3, <2>2 DEF PathInv, LooksBehind
      <3>2. /\ path'[i].node = path[i].node /\ path'[i].sources \subseteq path[i].sources
            /\ \A u \in path[i].sources : u \in path'[i].sources \/ (u = s /\ i = k)
        BY <1>3, <1>4, <1>7, <2>2
      <3>3. path'[i].sources \subseteq Sources(read, path'[i].node)
        BY <3>1, <3>2 DEF LooksBack
      <3>4. ASSUME NEW u \in Sources(read, path'[i].node) \ path'[i].sources
            PROVE  u \in memo.dead \/ \E j \in DOMAIN path' : j <= i + 1 /\ u = path'[j].node
        <4>1. CASE u \in path[i].sources
          <5>1. u = s /\ i = k /\ k + 1 <= k + 1
            BY <1>3, <3>2, <3>4, <4>1
          <5> QED BY <1>11, <5>1
        <4>2. CASE u \notin path[i].sources
          <5>1. u \in memo.dead \/ \E j \in DOMAIN path : j <= i + 1 /\ u = path[j].node
            BY <3>1, <3>2, <3>4, <4>2 DEF LooksBack
          <5>2. \A j \in DOMAIN path : j \in DOMAIN path' /\ path'[j].node = path[j].node
            BY <1>7, <1>9, <1>10, <1>11
          <5> QED BY <5>1, <5>2
        <4> QED BY <4>1, <4>2
      <3> QED BY <3>1, <3>2, <3>3, <3>4 DEF LooksBack
    <2> QED BY <1>7, <1>8, <2>1, <2>2 DEF LooksBehind
  <1>13. Chained(read, path')
    <2> SUFFICES ASSUME NEW i \in DOMAIN path', NEW j \in DOMAIN path', i <= j, NEW c \in SUBSET Nodes
                 PROVE  /\ LinkClosed(read, c) /\ path'[j].node \in c => path'[i].node \in c
                        /\ UpClosed(read, c) /\ path'[i].node \in c => path'[j].node \in c
      BY DEF Chained
    <2>1. CASE i \in 1 .. k /\ j \in 1 .. k
      <3>1. /\ LinkClosed(read, c) /\ path[j].node \in c => path[i].node \in c
            /\ UpClosed(read, c) /\ path[i].node \in c => path[j].node \in c
        BY <1>2, <1>11, <2>1 DEF PathInv, Chained
      <3> QED BY <1>10, <2>1, <3>1
    <2>2. CASE i \in 1 .. k /\ j = k + 1
      <3>1. /\ LinkClosed(read, c) /\ path[k].node \in c => path[i].node \in c
            /\ UpClosed(read, c) /\ path[i].node \in c => path[k].node \in c
        BY <1>2, <1>3, <1>9, <2>2 DEF PathInv, Chained
      <3>2. /\ LinkClosed(read, c) /\ s \in c => Top.node \in c
            /\ UpClosed(read, c) /\ Top.node \in c => s \in c
        BY <1>1, <1>5, LinkToTop
      <3>3. path'[j].node = s /\ path'[i].node = path[i].node /\ path[k].node = Top.node
        BY <1>3, <1>10, <1>11, <2>2
      <3> QED BY <3>1, <3>2, <3>3
    <2>3. CASE i = k + 1
      <3>1. j = k + 1
        BY <1>7, <1>8, <1>9, <2>3
      <3> QED BY <2>3, <3>1
    <2> QED BY <1>7, <1>8, <2>1, <2>2, <2>3
  <1>14. NodesOf(path') = NodesOf(path) \union {s}
    <2>1. NodesOf(path') \subseteq NodesOf(path) \union {s}
      BY <1>7, <1>8, <1>10, <1>11 DEF NodesOf
    <2>2. NodesOf(path) \subseteq NodesOf(path')
      BY <1>7, <1>9, <1>10, <1>11 DEF NodesOf
    <2>3. s \in NodesOf(path')
      BY <1>11 DEF NodesOf
    <2> QED BY <2>1, <2>2, <2>3
  <1>15. PathInv'
    BY <1>1, <1>2, <1>12, <1>13, <1>14 DEF PathInv
  <1>16. MemoInv'
    BY <1>1, <1>2 DEF MemoInv, Shared, Alive
  <1>17. path' # <<>> /\ path'[1].node = path[1].node
    BY <1>3, <1>10, <1>11
  <1>18. CandidatesInv'
    BY <1>1, <1>2, <1>17 DEF CandidatesInv, Shared
  <1> QED BY <1>1, <1>2, <1>7, <1>15, <1>16, <1>18, WalkFrame DEF TypeOK, Calls

LEMMA FrontFacts ==
  ASSUME NEW S, NEW s \in Seq(S), s # <<>>
  PROVE  /\ Front(s) \in Seq(S) /\ DOMAIN Front(s) = 1 .. Len(s) - 1
         /\ \A i \in 1 .. Len(s) - 1 : Front(s)[i] = s[i]
PROOF
  <1> DEFINE n == Len(s)
             f == Front(s)
  <1>1. n \in Nat /\ n # 0 /\ DOMAIN s = 1 .. n
    OBVIOUS
  <1>2. n - 1 \in Nat /\ 1 .. n - 1 \subseteq 1 .. n
    <2> HIDE DEF n
    <2> QED BY <1>1
  <1>3. f = SubSeq(s, 1, n - 1)
    BY DEF Front
  <1>4. f = [i \in 1 .. n - 1 |-> s[i]]
    BY <1>1, <1>2, <1>3
  <1>5. \A i \in 1 .. n - 1 : s[i] \in S
    BY <1>1, <1>2
  <1>6. DOMAIN f = 1 .. n - 1 /\ \A i \in 1 .. n - 1 : f[i] = s[i]
    <2> HIDE DEF n, f
    <2> QED BY <1>4
  <1>7. f \in Seq(S)
    BY <1>2, <1>4, <1>5
  <1> QED BY <1>6, <1>7

\* Nothing live leads to a node whose sources were all looked at, unless in a circle
LEMMA FindDeadStep ==
  ASSUME DocInv, FindDead
  PROVE  DocInv'
PROOF
  <1> DEFINE k == Len(path)
             n == Top.node
             Calls == [node : Nodes, sources : SUBSET Nodes]
  <1>1. /\ Walking /\ stage = "walk" /\ path # <<>> /\ Top.sources = {}
        /\ memo' = [memo EXCEPT !.dead = @ \union {n}] /\ path' = Front(path)
        /\ orphans' = IF k = 1 THEN orphans \union {n} ELSE orphans
        /\ UNCHANGED <<layer, read, builder, removals, request, doomed, current, next, candidates, stage,
                       before, validated, lost, visited>>
    BY DEF FindDead, WalkUnchanged, observed, Walking
  <1>2. TypeOK /\ PathInv /\ MemoInv /\ CandidatesInv
    BY <1>1 DEF DocInv, InHook
  <1>3. /\ k \in Nat /\ k >= 1 /\ DOMAIN path = 1 .. k /\ k \in DOMAIN path /\ 1 \in DOMAIN path
        /\ path[k].node = n /\ path[k].sources = {} /\ n \in Nodes /\ Shared(n)
    BY <1>1, TopFacts
  <1>4. path' \in Seq(Calls) /\ DOMAIN path' = 1 .. k - 1 /\ \A i \in 1 .. k - 1 : path'[i] = path[i]
    <2>1. path \in Seq(Calls)
      BY <1>2 DEF TypeOK
    <2> HIDE DEF Calls
    <2> QED BY <1>1, <2>1, FrontFacts
  <1>5. /\ memo'.dead = memo.dead \union {n} /\ memo'.live = memo.live
        /\ memo' \in [live : SUBSET Nodes, dead : SUBSET Nodes]
    <2>1. memo \in [live : SUBSET Nodes, dead : SUBSET Nodes]
      BY <1>2 DEF TypeOK
    <2> HIDE DEF Nodes, n
    <2> QED BY <1>1, <1>3, <2>1
  <1> HIDE DEF k, n, Calls
  <1>6. \A i \in 1 .. k : i \in 1 .. k - 1 \/ i = k
    BY <1>3
  <1>7. \A i \in 1 .. k - 1 : i \in 1 .. k /\ i <= k /\ i + 1 <= k
    BY <1>3
  <1>8. ASSUME NEW s \in Sources(read, n), s # n
        PROVE  Shared(s) /\ (s \in memo.dead \/ InCircle(read, n))
    <2>1. LooksBack(read, path, memo.dead, k)
      BY <1>2, <1>3 DEF PathInv, LooksBehind
    <2>2. s \in memo.dead \/ \E j \in DOMAIN path : s = path[j].node
      BY <1>3, <1>8, <2>1 DEF LooksBack
    <2>3. CASE s \in memo.dead
      BY <1>2, <2>3 DEF MemoInv
    <2>4. CASE \E j \in DOMAIN path : s = path[j].node
      <3>1. PICK j \in DOMAIN path : s = path[j].node
        BY <2>4
      <3>2. Shared(s)
        BY <1>2, <3>1 DEF PathInv, LooksBehind, LooksBack, Shared
      <3>3. PICK t \in read : t[1] = s /\ t[3] = n
        BY <1>8 DEF Sources, TriplesO
      <3>4. <<s, n>> \in SharedLinks(read) /\ <<s, n>>[1] = s /\ <<s, n>>[2] = n
        BY <1>3, <1>8, <3>2, <3>3, SharedLink DEF Shared
      <3>5. s \in {p[1] : p \in {q \in SharedLinks(read) : q[2] = n}}
        BY <3>4
      <3>6. j <= k
        BY <1>3
      <3>7. \A c \in SUBSET Nodes : UpClosed(read, c) /\ s \in c => n \in c
        BY <1>2, <1>3, <3>1, <3>6 DEF PathInv, Chained
      <3>8. InCircle(read, n)
        BY <1>3, <3>5, <3>7 DEF InCircle, Above, UpClosed
      <3> QED BY <3>2, <3>8
    <2> QED BY <2>2, <2>3, <2>4
  <1>9. MemoInv'
    <2>1. ASSUME NEW m \in memo.dead \union {n}
          PROVE  Shared(m) /\ \A s \in Sources(read, m) \ {m} :
                   Shared(s) /\ (s \in memo.dead \union {n} \/ InCircle(read, m))
      BY <1>2, <1>3, <1>8, <2>1 DEF MemoInv
    <2>2. orphans' \subseteq memo'.dead
      BY <1>1, <1>2, <1>5 DEF MemoInv
    <2> QED BY <1>1, <1>2, <1>5, <2>1, <2>2 DEF MemoInv, Shared, Alive
  <1>10. LooksBehind(read, path', memo'.dead)
    <2> SUFFICES ASSUME NEW i \in 1 .. k - 1 PROVE LooksBack(read, path', memo'.dead, i)
      BY <1>4 DEF LooksBehind
    <2>1. LooksBack(read, path, memo.dead, i)
      BY <1>2, <1>3, <1>7 DEF PathInv, LooksBehind
    <2>2. path'[i] = path[i]
      BY <1>4
    <2>3. ASSUME NEW s \in Sources(read, path[i].node) \ path[i].sources
          PROVE  s \in memo'.dead \/ \E j \in DOMAIN path' : j <= i + 1 /\ s = path'[j].node
      <3>1. s \in memo.dead \/ \E j \in DOMAIN path : j <= i + 1 /\ s = path[j].node
        BY <2>1, <2>3 DEF LooksBack
      <3>2. CASE s \in memo.dead
        BY <1>5, <3>2
      <3>3. CASE \E j \in DOMAIN path : j <= i + 1 /\ s = path[j].node
        <4>1. PICK j \in DOMAIN path : j <= i + 1 /\ s = path[j].node
          BY <3>3
        <4>2. CASE j = k
          BY <1>3, <1>5, <4>1, <4>2
        <4>3. CASE j \in 1 .. k - 1
          BY <1>4, <4>1, <4>3
        <4> QED BY <1>3, <1>6, <4>1, <4>2, <4>3
      <3> QED BY <3>1, <3>2, <3>3
    <2> QED BY <2>1, <2>2, <2>3 DEF LooksBack
  <1>11. Chained(read, path')
    <2> SUFFICES ASSUME NEW i \in 1 .. k - 1, NEW j \in 1 .. k - 1, i <= j, NEW c \in SUBSET Nodes
                 PROVE  /\ LinkClosed(read, c) /\ path'[j].node \in c => path'[i].node \in c
                        /\ UpClosed(read, c) /\ path'[i].node \in c => path'[j].node \in c
      BY <1>4 DEF Chained
    <2>1. i \in DOMAIN path /\ j \in DOMAIN path /\ path'[i] = path[i] /\ path'[j] = path[j]
      BY <1>3, <1>4, <1>7
    <2> QED BY <1>2, <2>1 DEF PathInv, Chained
  <1>12. NodesOf(path) \subseteq NodesOf(path') \union {n}
    BY <1>3, <1>4, <1>6 DEF NodesOf
  <1>13. PathInv'
    BY <1>1, <1>2, <1>5, <1>10, <1>11, <1>12 DEF PathInv
  <1>14. \/ k = 1 /\ path[1].node = n
         \/ path' # <<>> /\ path'[1].node = path[1].node
    <2>1. CASE k = 1
      BY <1>3, <2>1
    <2>2. CASE k # 1
      <3>1. 1 \in 1 .. k - 1
        BY <1>3, <2>2
      <3>2. path' # <<>>
        <4>1. 1 \in DOMAIN path'
          BY <1>4, <3>1
        <4>2. DOMAIN <<>> = {}
          OBVIOUS
        <4> QED BY <4>1, <4>2
      <3> QED BY <1>4, <3>1, <3>2
    <2> QED BY <2>1, <2>2
  <1>15. CandidatesInv'
    <2>1. \A m \in Candidates(read, removals) :
            m \in candidates \union memo.live \union orphans' \/ (path' # <<>> /\ m = path'[1].node)
      BY <1>1, <1>2, <1>14 DEF CandidatesInv
    <2> QED BY <1>1, <1>2, <1>5, <2>1 DEF CandidatesInv, Shared
  <1>16. orphans' \subseteq Nodes
    BY <1>1, <1>2, <1>3 DEF TypeOK
  <1> QED BY <1>1, <1>2, <1>4, <1>5, <1>9, <1>13, <1>15, <1>16, WalkFrame DEF TypeOK, Calls

\* The walk is over: what lost a reference is live, or it is deleted
LEMMA EndWalkStep ==
  ASSUME DocInv, EndWalk
  PROVE  DocInv'
PROOF
  <1>1. /\ stage = "walk" /\ path = <<>> /\ candidates = {}
        /\ IF orphans = {} THEN stage' = "committed" /\ layer' = read /\ doomed' = doomed
                           ELSE stage' = "cascade" /\ doomed' = orphans /\ layer' = layer
        /\ UNCHANGED <<read, builder, removals, request, current, next, visited, candidates, path, memo,
                       orphans, before, validated, lost>>
    BY DEF EndWalk, walk, observed
  <1>2. TypeOK /\ LayersInv /\ PathInv /\ MemoInv /\ CandidatesInv /\ LostInv
    BY <1>1 DEF DocInv, InHook
  <1>3. TypeOK'
    BY <1>1, <1>2 DEF TypeOK
  <1>4. builder = {} /\ current = Nobody /\ next = <<>> /\ ToSet(next) = {}
    <2>1. ToSet(<<>>) = {}
      BY DEF ToSet
    <2> QED BY <1>1, <1>2, <2>1 DEF LayersInv, Deleting
  <1>5. LayersInv'
    BY <1>1, <1>2, <1>4 DEF LayersInv, InHook, Committed, Deleting, Base
  <1>6. CASE orphans = {}
    <2> DEFINE old == Instances(read, Classes \ SharedTypes)
    <2>1. OrphansAreGone'
      <3> SUFFICES ASSUME NEW n \in lost \cap Nodes, HasType(read, n, SharedTypes)
                   PROVE  n \in LiveShared(read)
        BY <1>1, <1>6 DEF OrphansAreGone, Committed
      <3> SUFFICES ASSUME NEW c \in SUBSET Nodes, old \subseteq c, LinkClosed(read, c)
                   PROVE  n \in c
        BY BelowByClosed DEF LiveShared, LiveFrom, Instances
      <3>1. memo.live \subseteq c
        BY <1>2, BelowLeast DEF MemoInv, Alive, LiveFrom
      <3>2. Candidates(read, removals) \subseteq c
        BY <1>1, <1>2, <1>6, <3>1 DEF CandidatesInv
      <3>3. n \in Below(read, old \union Candidates(read, removals))
        BY <1>2 DEF LostInv, Shared
      <3> HIDE DEF old
      <3>4. old \union Candidates(read, removals) \subseteq c
        BY <3>2
      <3> QED BY <3>3, <3>4, BelowLeast
    <2> QED BY <1>1, <1>3, <1>5, <1>6, <2>1 DEF DocInv, Deleting, InHook
  <1>7. CASE orphans # {}
    <2>1. \A n : ~Dying(n)'
      <3>1. \A n : ~Exists({}, n)
        BY ExistsTriple
      <3> QED BY <1>1, <1>4, <3>1 DEF Dying
    <2>2. LoopInv'
      BY <1>1, <1>4, <1>7, <2>1 DEF LoopInv, Roots, InBulk, IsJson
    <2>3. CascadeInv'
      BY <1>1, <1>7, <2>1 DEF CascadeInv
    <2>4. PathInv'
      BY <1>1, <1>2 DEF PathInv
    <2>5. MemoInv'
      BY <1>1, <1>2 DEF MemoInv, Shared, Alive
    <2>6. CandidatesInv'
      BY <1>1, <1>2 DEF CandidatesInv, Shared
    <2>7. LostInv'
      BY <1>1, <1>2 DEF LostInv, Shared
    <2> QED BY <1>1, <1>3, <1>5, <1>7, <2>2, <2>3, <2>4, <2>5, <2>6, <2>7
            DEF DocInv, Deleting, InHook, OrphansAreGone, Committed
  <1> QED BY <1>6, <1>7

-------------------------------------------------------------------------------
(* The theorems *)

LEMMA DocInit == Init => DocInv
PROOF
  <1> SUFFICES ASSUME Init PROVE DocInv
    OBVIOUS
  <1>1. WellFormed(layer)
    BY LayerAssumption DEF Init
  <1>2. TypeOK
    <2>1. <<>> \in Seq(Nodes) /\ <<>> \in Seq([node : Nodes, sources : SUBSET Nodes])
      <3> HIDE DEF Nodes
      <3> QED OBVIOUS
    <2> HIDE DEF Nodes
    <2> QED BY <2>1 DEF Init, TypeOK
  <1>3. LayersInv
    BY <1>1 DEF Init, LayersInv, InHook, Committed, Deleting
  <1> QED BY <1>2, <1>3 DEF Init, DocInv, Deleting, InHook, OrphansAreGone, Committed

LEMMA DocStep == DocInv /\ [Next]_vars => DocInv'
PROOF
  <1> SUFFICES ASSUME DocInv, [Next]_vars PROVE DocInv'
    OBVIOUS
  <1>1. CASE Open
    BY <1>1, OpenStep
  <1>2. CASE Proceed
    <2>1. ASSUME NEW id \in Nodes, BeginDocument(id) \/ Visit(id) PROVE DocInv'
      BY <2>1, BeginDocumentStep, VisitStep
    <2>2. ASSUME NEW n \in Nodes, Look(n) \/ PassOver(n) \/ FindLive(n) \/ GoTo(n) PROVE DocInv'
      BY <2>2, LookStep, PassOverStep, FindLiveStep, GoToStep
    <2> QED BY <1>2, <2>1, <2>2, EndDocumentStep, EndRequestStep, ValidateStep, FindDeadStep, EndWalkStep,
               EndCascadeStep DEF Proceed
  <1>3. CASE UNCHANGED vars
    <2>1. UNCHANGED <<layer, read, builder, removals, request, doomed, current, next, visited, candidates,
                      path, memo, orphans, stage, before, validated, lost>>
      BY <1>3 DEF vars, loop, walk, observed
    <2>2. TypeOK' /\ LayersInv' /\ OrphansAreGone'
      BY <2>1 DEF DocInv, TypeOK, LayersInv, InHook, Committed, Deleting, Base, OrphansAreGone
    <2>3. stage = "delete" => RequestInv'
      BY <2>1 DEF DocInv, RequestInv
    <2>4. \A n : Dying(n)' <=> Dying(n)
      BY <2>1 DEF Dying
    <2>5. Deleting => LoopInv'
      BY <2>1, <2>4 DEF DocInv, LoopInv, Roots, InBulk, IsJson
    <2>6. stage = "cascade" => CascadeInv'
      BY <2>1, <2>4 DEF DocInv, CascadeInv
    <2>7. InHook => PathInv' /\ MemoInv' /\ CandidatesInv' /\ LostInv'
      BY <2>1 DEF DocInv, PathInv, MemoInv, CandidatesInv, LostInv, Shared, Alive
    <2> QED BY <2>1, <2>2, <2>3, <2>5, <2>6, <2>7 DEF DocInv, Deleting, InHook
  <1> QED BY <1>1, <1>2, <1>3 DEF Next

\* The invariant of the deletion, for every set of well-formed layers and of documents
\* that are deleted in bulk
THEOREM DocAlways == Spec => []DocInv
PROOF
  <1> QED BY DocInit, DocStep, PTL DEF Spec

\* Whatever is deleted, alone, in bulk, by type or with everything, by a request or by the
\* rounds of the cascade: what is committed has no reference to a node that is gone and no
\* part without its owner (delete_id_document, unlink_id_document_filtered)
THEOREM CommittedLayersHold == Spec => []ReferencesHold
PROOF
  <1>1. DocInv => ReferencesHold
    <2> SUFFICES ASSUME DocInv PROVE ReferencesHold
      OBVIOUS
    <2>1. TypeOK /\ LayersInv
      BY DEF DocInv
    <2>2. CASE Committed
      BY <2>1, <2>2 DEF LayersInv, ReferencesHold, NothingDangles, PartsHaveOwners, Owned
    <2>3. CASE ~Committed
      BY <2>1, <2>3 DEF ReferencesHold, NothingDangles, PartsHaveOwners
    <2> QED BY <2>2, <2>3
  <1> QED BY <1>1, DocAlways, PTL

\* The rounds of the cascade end only when every shared document that lost a reference is
\* live or gone; content that nobody refers to any more stays only when two that were
\* deleted one by one referred to it (perform_shared_cascade, has_other_link)
THEOREM DeletionsAreComplete == Spec => []NothingIsLeftBehind
PROOF
  <1>1. DocInv => NothingIsLeftBehind
    <2> SUFFICES ASSUME DocInv PROVE NothingIsLeftBehind
      OBVIOUS
    <2>1. LayersInv /\ OrphansAreGone
      BY DEF DocInv
    <2>2. ContentIsCounted
      BY <2>1 DEF LayersInv, ContentIsCounted, ContentHas, Base, Committed
    <2> QED BY <2>1, <2>2 DEF NothingIsLeftBehind
  <1> QED BY <1>1, DocAlways, PTL

\* What the memo calls dead is live only by way of a circle
LEMMA DeadIsNotLive ==
  ASSUME DocInv, InHook, NEW n \in Nodes, n \in memo.dead, Untangled(read, n)
  PROVE  n \notin Alive(read)
PROOF
  <1> DEFINE rest == {m \in Nodes : ~(m \in memo.dead /\ Untangled(read, m))}
  <1>1. MemoInv
    BY DEF DocInv
  <1>2. Shape(read) /\ \A m, classes : HasType(read, m, classes) => m \in Nodes
    BY ReadShape DEF InHook
  <1>3. Instances(read, Classes \ SharedTypes) \subseteq rest
    <2> SUFFICES ASSUME NEW m \in Nodes, HasType(read, m, Classes \ SharedTypes) PROVE m \notin memo.dead
      BY DEF Instances
    <2>1. (Classes \ SharedTypes) \cap SharedTypes = {}
      OBVIOUS
    <2>2. ~HasType(read, m, SharedTypes)
      BY <1>2, <2>1, OneType
    <2> QED BY <1>1, <2>2 DEF MemoInv, Shared
  <1>4. LinkClosed(read, rest)
    <2> SUFFICES ASSUME NEW t \in read, t[1] \in rest, t[1] # t[3], HasType(read, t[3], SharedTypes),
                        t[3] \in memo.dead, Untangled(read, t[3])
                 PROVE  FALSE
      BY <1>2 DEF LinkClosed
    <2>1. t[1] \in Sources(read, t[3]) \ {t[3]} /\ t[3] \in Nodes
      BY <1>2 DEF Sources, TriplesO
    <2>2. ~InCircle(read, t[3])
      BY <2>1, AboveItself DEF Untangled
    <2>3. Shared(t[1]) /\ t[1] \in memo.dead
      BY <1>1, <2>1, <2>2 DEF MemoInv
    <2>4. <<t[1], t[3]>> \in SharedLinks(read)
      BY <2>3, SharedLink DEF Shared
    <2>5. Untangled(read, t[1])
      BY <2>4, AboveGrows DEF Untangled
    <2> QED BY <2>3, <2>5
  <1>5. rest \in SUBSET Nodes /\ n \notin rest
    OBVIOUS
  <1> HIDE DEF rest
  <1> QED BY <1>3, <1>4, <1>5, BelowLeast DEF Alive, LiveFrom

LEMMA LiveStays ==
  ASSUME DocInv, [Next]_vars, InHook, read' # read, NEW n \in LiveShared(read), Untangled(read, n)
  PROVE  Exists(read', n)
PROOF
  <1>1. EndCascade
    <2>1. ~Open
      BY DEF Open, Delete, Bulk, ByType, DeleteAll, Replace, InHook
    <2>2. ~(UNCHANGED vars)
      BY DEF vars
    <2>3. \A m : ~BeginDocument(m) /\ ~Visit(m) /\ ~Look(m) /\ ~PassOver(m) /\ ~FindLive(m) /\ ~GoTo(m)
      BY DEF BeginDocument, Visit, Look, PassOver, FindLive, GoTo, WalkUnchanged
    <2>4. ~EndDocument /\ ~EndRequest /\ ~FindDead /\ ~EndWalk
      BY DEF EndDocument, EndRequest, FindDead, EndWalk, WalkUnchanged
    <2>5. ~Validate
      BY DEF Validate, InHook
    <2> QED BY <2>1, <2>2, <2>3, <2>4, <2>5 DEF Next, Proceed
  <1>2. stage = "cascade" /\ current = Nobody /\ doomed = {} /\ read' = read \ builder
    BY <1>1 DEF EndCascade, NewLayer
  <1>3. n \in Nodes /\ HasType(read, n, SharedTypes) /\ n \in Alive(read)
    BY DEF LiveShared, Instances, Alive
  <1>4. Shape(read)
    BY <1>2, ReadShape
  <1> SUFFICES ASSUME ~Exists(read', n) PROVE FALSE
    OBVIOUS
  <1>5. PICK t \in read : t[1] = n /\ t[2] = "type"
    BY <1>3, TypeTriple
  <1>6. Exists(builder, n)
    BY <1>2, <1>5, ExistsTriple
  <1>7. n \in orphans
    <2>1. LoopInv /\ Dying(n) /\ Roots = orphans
      BY <1>2, <1>6 DEF DocInv, Deleting, Dying, Roots
    <2>2. ~HasType(read, n, PartTypes)
      <3>1. SharedTypes \cap PartTypes = {}
        BY DEF SharedTypes, PartTypes
      <3> QED BY <1>3, <1>4, <3>1, OneType
    <2> QED BY <1>3, <2>1, <2>2 DEF LoopInv
  <1>8. n \in memo.dead
    BY <1>7 DEF DocInv, MemoInv
  <1> QED BY <1>3, <1>8, DeadIsNotLive

\* No round of the cascade deletes a shared document that something live refers to, unless
\* shared documents that refer to each other in a circle are in between
\* (is_shared_target_live_memo)
THEOREM CascadeKeepsTheLiving == Spec => LiveTreesAreKept
PROOF
  <1>1. DocInv /\ [Next]_vars =>
          [InHook /\ read' # read => \A n \in LiveShared(read) : Untangled(read, n) => Exists(read', n)]_vars
    BY LiveStays
  <1> QED BY <1>1, DocAlways, PTL DEF Spec, LiveTreesAreKept
===============================================================================
