------------------------------ MODULE GraphFilters ------------------------------
(***************************************************************************)
(* GraphQL queries over the instance graph (graphql/query.rs): a filter is *)
(* compiled against the frames, the search starts from values, from        *)
(* identifiers or from all documents of a class, and what it finds is      *)
(* filtered, ordered and cut.  Results are sequences, copies included.     *)
(*                                                                         *)
(* A filter given by the user is a sequence of edges <<name, input>>.  The *)
(* input of a property is a function from operations to values, a filter   *)
(* for a class, [op, value] for an enum, a set of identifiers for what is  *)
(* foreign, and for a collection a sequence of <<operation, input>>.       *)
(* A query is a record: the layer, the frames, and for every restriction   *)
(* the documents it holds for.                                             *)
(***************************************************************************)
EXTENDS Frames, PathQueries

CONSTANT Datatype     \* value -> its type and its place among the values like it

-------------------------------------------------------------------------------
(* Filters *)

\* base_type_kind
BaseTypeKind(type) ==
  CASE type \in {"byte", "short", "int", "long", "unsignedByte", "unsignedShort",
                 "unsignedInt"} -> "SmallInteger"
    [] type \in {"unsignedLong", "integer", "positiveInteger", "nonNegativeInteger",
                 "negativeInteger", "nonPositiveInteger"} -> "BigInteger"
    [] type = "boolean" -> "Boolean"
    [] type \in {"double", "float"} -> "Float"
    [] type \in {"dateTime", "dateTimeStamp"} -> "DateTime"
    [] type = "decimal" -> "Decimal"
    [] OTHER -> "String"

\* The operations a kind of value knows, in the order in which they are looked for; the
\* operations on text are the set of the texts they accept
Operations(kind) ==
  CASE kind = "String" -> <<"eq", "ne", "lt", "le", "gt", "ge", "text">>
    [] kind = "Boolean" -> <<"eq", "ne">>
    [] OTHER -> <<"eq", "ne", "lt", "le", "gt", "ge">>

\* Only the first operation counts
ValueFilterOf(type, input) ==
  LET kind == BaseTypeKind(type)
      op == SelectSeq(Operations(kind), LAMBDA o : o \in DOMAIN input)[1]
  IN [is |-> "value", kind |-> kind, type |-> type, op |-> op, value |-> input[op]]

RECURSIVE CompileFilter(_, _, _)
\* compile_typed_filter: by the range of the field
TypedFilter(all, range, input) ==
  CASE range \in BaseTypes -> ValueFilterOf(range, input)
    [] range \notin BaseTypes /\ IsClass(all, range) ->
         [is |-> "node", filter |-> CompileFilter(all, range, input)]
    [] range \notin BaseTypes /\ IsEnum(all, range) ->
         [is |-> "value", kind |-> "Enum", op |-> input.op,
          value |-> ByLeft(all.frames[range].names, input.value)]
    [] range \notin BaseTypes /\ IsForeign(all, range) ->
         [is |-> "value", kind |-> "Foreign", op |-> "eq", value |-> input]

CollectionKind(field) == IF field.kind \in {"List", "Array"} THEN field.kind ELSE "Property"

\* An edge of a filter; of several operations on a collection the last one counts
EdgeOf(all, class, name, input) ==
  LET field == ResolveField(all.frames[class], name)
      given == Last(input)
  IN [name |-> IriOf(all.frames[class], name)] @@
     IF IsCollection(field)
     THEN [scope |-> given[1], kind |-> CollectionKind(field),
           of |-> TypedFilter(all, field.range, given[2])]
     ELSE [scope |-> "required", kind |-> "Property", of |-> TypedFilter(all, field.range, input)]

Connectives == {"_and", "_or", "_not"}
CompileFilter(all, class, edges) ==
  LET these(names) == SelectSeq(edges, LAMBDA e : e[1] \in names)
      restrictions == these({"_restriction"})
      ids == these({"_id", "_ids"})
      rest == SelectSeq(edges, LAMBDA e : e[1] \notin {"_restriction", "_id", "_ids"})
      each(fs) == [i \in 1..Len(fs) |-> CompileFilter(all, class, fs[i])]
  IN [restriction |-> IF restrictions = <<>> THEN "none" ELSE Last(restrictions)[2],
      ids |-> IF ids = <<>> THEN <<>> ELSE ids[1][2],
      edges |-> [i \in 1..Len(rest) |->
        IF rest[i][1] \in Connectives THEN [scope |-> rest[i][1], of |-> each(rest[i][2])]
        ELSE EdgeOf(all, class, rest[i][1], rest[i][2])]]

-------------------------------------------------------------------------------
(* Filtering *)

OrderingMatches(a, b, op) ==
  CASE a < b -> op \in {"le", "lt", "ne"}
    [] a = b -> op \in {"eq", "le", "ge"}
    [] a > b -> op \in {"ge", "gt", "ne"}

\* object_type_filter
HasValue(f, n) ==
  CASE f.kind = "Enum" -> IF f.op = "eq" THEN n = f.value ELSE n # f.value
    [] f.kind = "Foreign" -> n \in f.value
    [] f.op = "text" -> Datatype[n].value \in f.value
    [] OTHER -> OrderingMatches(Datatype[n].value, f.value, f.op)

KnownPredicate(g, p) == \E t \in g : t[2] = p
FirstObject(g, s, p) == IF HasTriple(g, s, p) THEN <<ObjectOf(g, s, p)>> ELSE <<>>

\* collection_kind_iterator
Members(g, kind, s, p) ==
  CASE kind = "Property" -> Forward(g, p, s)
    [] kind = "List" -> IF HasTriple(g, s, p) THEN RdfList(g, ObjectOf(g, s, p)) ELSE <<>>
    [] kind = "Array" -> LET cells == Forward(g, p, s)
                         IN FlattenSeq([i \in 1..Len(cells) |-> FirstObject(g, cells[i], "value")])

\* Mutant: nothing is required of a property that no document has
AnyEdge(g, edge) == edge.scope \notin Connectives \union {"allHave"} => KnownPredicate(g, edge.name)

\* Without a document that has the property nothing passes, whatever is asked of it
Reachable(g, edge) == edge.scope \notin Connectives => KnownPredicate(g, edge.name)

\* A disjunction hands on a document once for every alternative that it passes; a negation
\* gives a set, here in the order of the identifiers; what all must have is counted
RECURSIVE CompileQuery(_, _, _)
Passing(q, of, nodes) ==
  IF of.is = "node" THEN CompileQuery(q, of.filter, nodes)
  ELSE SelectSeq(nodes, LAMBDA n : HasValue(of, n))

\* Of all members as many pass as there are, of some members one
Enough(scope, members, passing) ==
  IF scope = "allHave" THEN Len(members) = Len(passing) ELSE passing # <<>>
EnoughPass(q, edge, members) == Enough(edge.scope, members, Passing(q, edge.of, members))

PassEdge(q, edge, nodes) ==
  CASE edge.scope = "_and" ->
         FoldLeft(LAMBDA passed, f : CompileQuery(q, f, passed), nodes, edge.of)
    [] edge.scope = "_or" ->
         FlattenSeq([i \in 1..Len(edge.of) |-> CompileQuery(q, edge.of[i], nodes)])
    [] edge.scope = "_not" ->
         InOrder(ToSet(nodes) \ ToSet(CompileQuery(q, edge.of[1], InOrder(ToSet(nodes)))))
    [] OTHER ->
         SelectSeq(nodes, LAMBDA n :
           EnoughPass(q, edge, IF edge.scope = "required" THEN FirstObject(q.layer, n, edge.name)
                               ELSE Members(q.layer, edge.kind, n, edge.name)))

CompileQuery(q, filter, nodes) ==
  LET named == IF filter.ids = <<>> THEN nodes
               ELSE SelectSeq(nodes, LAMBDA n : n \in ToSet(filter.ids))
      restricted == IF filter.restriction = "none" THEN named
                    ELSE SelectSeq(named, LAMBDA n : n \in q.restricted[filter.restriction])
  IN IF \A i \in 1..Len(filter.edges) : Reachable(q.layer, filter.edges[i])
     THEN FoldLeft(LAMBDA passed, e : PassEdge(q, e, passed), restricted, filter.edges)
     ELSE <<>>

-------------------------------------------------------------------------------
(* Where the search starts *)

\* path_from_components: the way back to the document
WayBack(component) ==
  LET p == component[2] IN
  CASE component[1] = "Property" -> <<"negative", p>>
    [] component[1] = "List" ->
         ReversePath(<<"seq", <<<<"positive", p>>, Star(<<"positive", "rest">>),
                                <<"positive", "first">>>>>>)
    [] component[1] = "Array" -> <<"seq", <<<<"negative", "value">>, <<"negative", p>>>>>>

IteratorFromPath(g, components, ids) ==
  Unvisited(CompilePath(g, <<"seq", Reverse([i \in 1..Len(components) |-> WayBack(components[i])])>>,
                        ids), {})

\* filter_value_to_entry: the type of a value follows from the kind of filter
EntryType == [String |-> "string", SmallInteger |-> "int", Float |-> "double",
              Boolean |-> "boolean", BigInteger |-> "integer", Decimal |-> "decimal"]
ValueIds(g, f) ==
  IF f.op = "eq" /\ f.kind \in DOMAIN EntryType
  THEN {v \in Literals \cap Known(g) : Datatype[v] = [type |-> EntryType[f.kind], value |-> f.value]}
  ELSE {}

\* generate_iterator_from_edges: the first edge with a value that the graph knows
StartingEdges(g, filter) ==
  SelectSeq(filter.edges, LAMBDA e :
    e.scope \notin Connectives /\ e.of.is = "value" /\ ValueIds(g, e.of) # {})

WayTo(components, edge) == Append(components, <<edge.kind, edge.name>>)

\* Edges to go on with when neither a value nor an identifier is found
Nested(item) ==
  FlattenSeq([i \in 1..Len(item.filter.edges) |->
    LET e == item.filter.edges[i] IN
    CASE e.scope = "_and" ->
           [j \in 1..Len(e.of) |-> [way |-> item.way, filter |-> e.of[j]]]
      [] e.scope \in {"required", "someHave"} /\ e.of.is = "node" ->
           <<[way |-> WayTo(item.way, e), filter |-> e.of.filter]>>
      [] OTHER -> <<>>])

\* Breadth first; "none" when there is nothing to start from
RECURSIVE Start(_, _)
Start(g, items) ==
  IF items = <<>> THEN <<"none">>
  ELSE LET item == Head(items)
           edges == StartingEdges(g, item.filter)
       IN IF item.filter.ids # <<>>
          THEN <<"nodes", IteratorFromPath(g, item.way,
                            SelectSeq(item.filter.ids, LAMBDA n : n \in Known(g)))>>
          ELSE IF edges # <<>>
          THEN <<"nodes", IteratorFromPath(g, WayTo(item.way, edges[1]),
                            InOrder(ValueIds(g, edges[1].of)))>>
          ELSE Start(g, Tail(items) \o Nested(item))

OfClasses(g, nodes, classes) ==
  SelectSeq(nodes, LAMBDA n : \E c \in classes : <<n, "type", c>> \in g)
AllOf(g, classes) ==
  LET ordered == InOrder(classes)
  IN FlattenSeq([i \in 1..Len(ordered) |-> SubjectsOf(WithPredicate(ListO(g, ordered[i]), "type"))])

FromStart(g, start, classes) ==
  IF start = <<"none">> THEN AllOf(g, classes) ELSE OfClasses(g, start[2], classes)

\* generate_initial_iterator
InitialIterator(q, class, filter, children) ==
  FromStart(q.layer, Start(q.layer, <<[way |-> <<>>, filter |-> filter]>>),
            {ByLeft(q.all.class_renaming, c) :
               c \in IF children THEN Subsumed(q.all, class) ELSE {class}})

EmptyFilter == [restriction |-> "none", ids |-> <<>>, edges |-> <<>>]

\* lookup_by_filter; zero is <<"none">> or the nodes to start from
LookupByFilter(q, class, filter, zero, children) ==
  CompileQuery(q, filter,
    IF zero # <<"none">> THEN zero[2] ELSE InitialIterator(q, class, filter, children))

-------------------------------------------------------------------------------
(* Queries *)

Less(a, b) == a[1] = "some" /\ b[1] = "some" /\ a[2] < b[2]
NoValue == <<"none">>
ValueOf(n) == <<"some", IF n \in Literals THEN Datatype[n].value ELSE Position(n)>>

\* create_path_order_value: along the way every property must be there and lead to a class
RECURSIVE PathOrderValue(_, _, _, _)
PathOrderValue(q, class, n, path) ==
  IF ~IsClass(q.all, class) \/ Head(path) \notin DOMAIN q.all.frames[class].fields THEN NoValue
  ELSE LET field == q.all.frames[class].fields[Head(path)]
           objects == FirstObject(q.layer, n, IriOf(q.all.frames[class], Head(path)))
       IN IF objects = <<>> THEN NoValue
          ELSE IF Tail(path) = <<>> THEN ValueOf(objects[1])
          ELSE PathOrderValue(q, field.range, objects[1], Tail(path))

\* Ordering of two keys: -1, 0 or 1
Compare(a, b, without) ==
  CASE a = b -> 0
    [] a = NoValue /\ b # NoValue -> without
    [] a # NoValue /\ b = NoValue -> 0 - without
    [] OTHER -> IF Less(a, b) THEN 0 - 1 ELSE 1
\* Mutant: a descending order is not turned round
AlwaysUp(cmp, order) == cmp

Directed(cmp, order) == IF order = "Desc" THEN 0 - cmp ELSE cmp

\* By the path first, where what has no value comes last, then by the fields, where it
\* comes first; a descending order turns both round
Then(first, second) == IF first # 0 THEN first ELSE second
RECURSIVE CompareFields(_, _, _, _, _)
CompareFields(q, class, m, n, fields) ==
  IF fields = <<>> THEN 0
  ELSE LET key(d) == PathOrderValue(q, class, d, <<Head(fields)[1]>>)
       IN Then(Directed(Compare(key(m), key(n), 0 - 1), Head(fields)[2]),
               CompareFields(q, class, m, n, Tail(fields)))
CompareDocuments(q, class, m, n, by) ==
  LET key(d) == IF by.path = <<>> THEN NoValue ELSE PathOrderValue(q, class, d, by.path)
  IN Then(Directed(Compare(key(m), key(n), 1), by.order),
          CompareFields(q, class, m, n, by.fields))

\* A stable sort without copies
Sorted(q, class, nodes, by) ==
  LET before(i, j) == Then(CompareDocuments(q, class, nodes[i], nodes[j], by), i - j) < 0
      places == SortSeq([i \in 1..Len(nodes) |-> i], before)
  IN [i \in 1..Len(nodes) |-> nodes[places[i]]]

\* What an argument id or ids starts from: documents of just the class, or some of those
\* that are there
FromIds(q, class, ids, zero) ==
  IF zero = <<"none">>
  THEN OfClasses(q.layer, SelectSeq(ids, LAMBDA n : n \in Known(q.layer)),
                 {ByLeft(q.all.class_renaming, class)})
  ELSE SelectSeq(zero[2], LAMBDA n : n \in ToSet(ids))

\* A path starts from the documents that are named; without any the request panics
Zero(q, class, args, zero) ==
  LET named == IF args.ids = <<"none">> THEN zero
               ELSE <<"nodes", FromIds(q, class, args.ids[2], zero)>>
  IN IF args.path = <<>> THEN named
     ELSE <<"nodes", PathToClass(q.layer, args.path, ByLeft(q.all.class_renaming, class), named[2])>>

Ordered(q, class, by, found) ==
  IF by = <<"none">> THEN found ELSE Sorted(q, class, Unvisited(found, {}), by[2])
Page(nodes, offset, limit) ==
  SubSeq(nodes, offset + 1, IF offset + limit < Len(nodes) THEN offset + limit ELSE Len(nodes))

RunFilterQuery(q, class, args, zero) ==
  Page(Ordered(q, class, args.by,
               LookupByFilter(q, class, CompileFilter(q.all, class, args.filter),
                              Zero(q, class, args, zero), args.children)),
       args.offset, args.limit)

\* run_count_query
RunCountQuery(q, class, edges) ==
  Len(LookupByFilter(q, class, CompileFilter(q.all, class, edges), <<"none">>, TRUE))

-------------------------------------------------------------------------------
(* What a filter means *)

RECURSIVE Satisfies(_, _, _)
Holds(q, of, n) == IF of.is = "node" THEN Satisfies(q, of.filter, n) ELSE HasValue(of, n)
SatisfiesEdge(q, e, n) ==
  LET members == ToSet(Members(q.layer, e.kind, n, e.name)) IN
  CASE e.scope = "_and" -> \A i \in 1..Len(e.of) : Satisfies(q, e.of[i], n)
    [] e.scope = "_or" -> \E i \in 1..Len(e.of) : Satisfies(q, e.of[i], n)
    [] e.scope = "_not" -> ~Satisfies(q, e.of[1], n)
    [] e.scope \in {"required", "someHave"} -> \E m \in members : Holds(q, e.of, m)
    [] e.scope = "allHave" -> KnownPredicate(q.layer, e.name) /\ \A m \in members : Holds(q, e.of, m)
Satisfies(q, filter, n) ==
  /\ filter.ids # <<>> => n \in ToSet(filter.ids)
  /\ filter.restriction # "none" => n \in q.restricted[filter.restriction]
  /\ \A i \in 1..Len(filter.edges) : SatisfiesEdge(q, filter.edges[i], n)

\* A document of a class is one of all classes above it
Matching(q, class, filter) ==
  LET of(n) == {c \in DOMAIN q.all.frames :
                  <<n, "type", ByLeft(q.all.class_renaming, c)>> \in q.layer}
  IN {n \in Known(q.layer) :
        /\ \E c \in of(n) : c = class \/ class \in q.all.frames[c].inherits
        /\ Satisfies(q, filter, n)}

\* Whether a condition holds of some filter in a filter
RECURSIVE Anywhere(_, _)
Anywhere(filter, scopes) ==
  \E i \in 1..Len(filter.edges) :
    LET e == filter.edges[i] IN
    \/ e.scope \in scopes
    \/ e.scope \in Connectives /\ \E j \in 1..Len(e.of) : Anywhere(e.of[j], scopes)
    \/ e.scope \notin Connectives /\ e.of.is = "node" /\ Anywhere(e.of.filter, scopes)
===============================================================================
