------------------------------ MODULE GraphResolve ------------------------------
(***************************************************************************)
(* The fields of GraphQL objects (graphql/schema.rs): what the fields of   *)
(* the query object and of a document stand for, the links of a document   *)
(* in both directions, paths, restrictions and the document as a whole.    *)
(* A field of a document is <<"field", name>>, <<"path", class>>,          *)
(* <<"restriction", name>>, or <<"_id">>, <<"_type">>, <<"_json">>.        *)
(***************************************************************************)
EXTENDS GraphFilters, DocumentRetrieval

NoArguments == [ids |-> <<"none">>, path |-> <<>>, filter |-> <<>>, by |-> <<"none">>,
                offset |-> 0, limit |-> 99, children |-> TRUE]
Document(n) == <<"node", n>>
Documents(nodes) == <<"list", [i \in 1..Len(nodes) |-> Document(nodes[i])]>>
GraphqlType(q, n) == ByRight(q.all.class_renaming, TypeOf(q, n))

-------------------------------------------------------------------------------
(* Values and lists *)

\* extract_fragment: by the range of the field
Fragment(q, range, o) ==
  CASE IsClass(q.all, range) -> Document(o)
    [] IsEnum(q.all, range) -> <<"value", ByRight(q.all.frames[range].names, o)>>
    [] range = "JSON" -> GetIdDocument(DocumentContext({}, q.layer), o, TRUE)
    [] OTHER -> <<"value", o>>

-------------------------------------------------------------------------------
(* The way back *)

\* Mutant: a cell is taken for the first cell of its list
NeverRewound(g, cell) == cell

\* rewind_rdf_list: from a cell to the first cell of its list
RECURSIVE Rewind(_, _)
Rewind(g, cell) ==
  LET before == WithPredicate(ListO(g, cell), "rest")
  IN IF before = <<>> THEN cell ELSE Rewind(g, before[1][1])

\* The documents of just the class that have the property with this object
Owners(g, class, p, o) ==
  SelectSeq(SubjectsOf(WithPredicate(ListO(g, o), p)), LAMBDA s : <<s, "type", class>> \in g)
FirstOwner(g, class, p, o) ==
  LET found == Owners(g, class, p, o) IN IF found = <<>> THEN <<>> ELSE <<found[1]>>

LinkedFrom(q, link, n) ==
  LET g == q.layer
      class == ByLeft(q.all.class_renaming, link.class)
      p == IriOf(q.all.frames[link.class], link.property)
      cells == Backward(g, IF link.kind = "List" THEN "first" ELSE "value", n)
      top(cell) == IF link.kind = "List" THEN Rewind(g, cell) ELSE cell
  IN IF link.kind \in {"List", "Array"}
     THEN FlattenSeq([i \in 1..Len(cells) |-> FirstOwner(g, class, p, top(cells[i]))])
     ELSE Owners(g, class, p, n)

-------------------------------------------------------------------------------
(* The fields of a document *)

\* Mutant: the cells come as they are stored
AsStored(q, n, p) == Forward(q.layer, p, n)

\* SimpleArrayIterator: the cells of an array in the order of their places
Cells(q, n, p) ==
  SortSeq(Forward(q.layer, p, n),
    LAMBDA x, y : \/ IsLess(Index(q, x), Index(q, y))
                  \/ Index(q, x) = Index(q, y) /\ Position(x) < Position(y))

\* What a field of the document leads to, and whether it is one or many.  A property no
\* document has is null or empty, and so is one this document has not, but for a list: it
\* is expected, and the request panics
OwnField(q, class, n, field) ==
  LET d == ResolveField(q.all.frames[class], field)
      p == IriOf(q.all.frames[class], field)
      objects == FirstObject(q.layer, n, p)
      cells == Cells(q, n, p)
  IN [range |-> d.range,
      as |-> IF ~IsCollection(d) THEN "one"
             ELSE IF d.kind = "List" /\ KnownPredicate(q.layer, p) /\ objects = <<>> THEN "panic"
             ELSE "many",
      nodes |-> CASE d.kind \in {"Required", "Optional"} -> objects
                  [] d.kind \in {"Set", "Cardinality"} -> Forward(q.layer, p, n)
                  [] d.kind = "List" -> IF objects = <<>> THEN <<>> ELSE RdfList(q.layer, objects[1])
                  [] d.kind = "Array" ->
                       FlattenSeq([i \in 1..Len(cells) |-> FirstObject(q.layer, cells[i], "value")])]

\* A way back is found before a property of the same name; a path starts from the document
FieldNodes(q, class, n, field) ==
  LET links == q.all.inverted[class] IN
  CASE field[1] = "path" -> [range |-> field[2], as |-> "many", nodes |-> <<n>>]
    [] field[1] = "field" /\ field[2] \in DOMAIN links ->
         [range |-> links[field[2]].class, as |-> "many", nodes |-> LinkedFrom(q, links[field[2]], n)]
    [] field[1] = "field" /\ field[2] \notin DOMAIN links -> OwnField(q, class, n, field[2])

\* collect_into_graphql_list: documents can be filtered again
Collect(q, of, args) ==
  LET fragments == [i \in 1..Len(of.nodes) |-> Fragment(q, of.range, of.nodes[i])] IN
  CASE of.as = "panic" -> <<"panic">>
    [] of.as = "one" -> IF of.nodes = <<>> THEN <<"null">> ELSE fragments[1]
    [] of.as = "many" -> IF IsClass(q.all, of.range)
                         THEN Documents(RunFilterQuery(q, of.range, args, <<"nodes", of.nodes>>))
                         ELSE <<"list", fragments>>

ResolveDocument(q, class, n, field, args) ==
  CASE field = <<"_id">> -> <<"value", n>>
    [] field = <<"_type">> -> <<"value", GraphqlType(q, n)>>
    [] field = <<"_json">> -> GetIdDocument(q.documents, n, TRUE)
    [] field[1] = "restriction" ->
         IF n \in q.restricted[ByLeft(q.all.class_renaming, field[2])]
         THEN <<"value", field[2]>> ELSE <<"null">>
    [] OTHER -> Collect(q, FieldNodes(q, class, n, field), args)

-------------------------------------------------------------------------------
(* The fields of the query object *)

\* _count: the filter of the first class that has one
CountField(q, filters) ==
  LET given == SelectSeq(Order, LAMBDA c : IsClass(q.all, c) /\ c \in DOMAIN filters)
  IN IF given = <<>> THEN <<"error">> ELSE <<"value", RunCountQuery(q, given[1], filters[given[1]])>>

\* A class, or a restriction of one, whose documents the queries of restrictions give
ResolveQuery(q, restrictions, name, args) ==
  LET restricted == name \in DOMAIN restrictions
      from == IF restricted
              THEN <<"nodes", InOrder(q.restricted[ByLeft(q.all.class_renaming, name)])>>
              ELSE <<"none">>
  IN Documents(RunFilterQuery(q, IF restricted THEN restrictions[name] ELSE name, args, from))

GetDocument(q, id) ==
  LET doc == GetIdDocument(q.documents, id, TRUE) IN IF doc = <<"none">> THEN <<"error">> ELSE doc

-------------------------------------------------------------------------------
(* All fields and links of a layer *)

DocumentsOf(q) == {n \in Known(q.layer) : TypeOf(q, n) \in {p[2] : p \in q.all.class_renaming}}
OwnFields(q) ==
  UNION {{d} \X FieldsOf(q.all.frames[GraphqlType(q, d)]) : d \in DocumentsOf(q)}

\* <<d, f, t>>: t is of the class that the field f of d links to
Ends(q) ==
  {m \in {<<o[1], o[2], t>> : o \in OwnFields(q), t \in DocumentsOf(q)} :
     LET class == q.all.frames[GraphqlType(q, m[1])]
     IN m[2] \in DOMAIN class.fields /\ class.fields[m[2]].range = GraphqlType(q, m[3])}

\* The documents of a class that link to a document by a field
Sources(q, t, class, f) ==
  ResolveDocument(q, GraphqlType(q, t), t, <<"field", InverseFieldName(f, class)>>,
                  NoArguments)[2]
===============================================================================
