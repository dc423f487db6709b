--------------------------- MODULE DocumentRetrieval ---------------------------
(***************************************************************************)
(* How a document is read from the instance graph (doc/mod.rs): a stack of *)
(* documents, lists and arrays that are being put together, where links    *)
(* to subdocuments and to what is unfolded are followed and those to other *)
(* documents, and to the documents that are being put together, are names. *)
(* A JSON value is <<"name", n>>, <<"value", v>>, <<"array", seq>> or      *)
(* <<"document", f>> with f from keys to values.                           *)
(***************************************************************************)
EXTENDS SchemaTypes, TLC

CONSTANT WorkLimit   \* TERMINUSDB_DOC_WORK_LIMIT

Json == {"JSON", "JSONDocument"}

\* DocumentContext::new: what is read from the schema, as far as the instance knows it
DocumentContext(schema, instance) ==
  [layer |-> instance,
   types |-> ToInstance(instance, TypeIds(schema)),
   document_types |-> ToInstance(instance, DocumentTypeIds(schema)) \union
                      ToInstance(instance, {"JSONDocument"}),
   unfoldables |-> ToInstance(instance, UnfoldableIds(schema)),
   unfold_pairs |-> PairsToInstance(instance, UnfoldPairs(schema)),
   set_pairs |-> PairsToInstance(instance, SetPairs(schema)),
   enums |-> ToInstance(instance, EnumIds(schema))]

-------------------------------------------------------------------------------
(* Fields *)

TypeIs(c, n, class) == HasTriple(c.layer, n, "type") /\ ObjectOf(c.layer, n, "type") = class
TypeOf(c, n) == IF HasTriple(c.layer, n, "type") THEN ObjectOf(c.layer, n, "type") ELSE "none"

Fields(c, n) == SelectSeq(ListS(c.layer, n), LAMBDA t : t[2] # "type")

\* A second value makes a field an array, as a property that is a set always is
AddField(doc, key, value, is_set) ==
  IF key \notin DOMAIN doc
  THEN doc @@ (key :> IF is_set THEN <<"array", <<value>>>> ELSE value)
  ELSE [doc EXCEPT ![key] = IF @[1] = "array" THEN <<"array", Append(@[2], value)>>
                            ELSE <<"array", <<@, value>>>>]

\* A name that is no document: nothing is said of it, or it comes from elsewhere
IsRaw(c, n) == Fields(c, n) = <<>> \/ Head(Fields(c, n))[2] = "foreign_type"

\* get_doc_stub with terminate: a document that is not unfolded is a name
Terminates(c, n, unfold, parent, predicate) ==
  LET class == TypeOf(c, n) IN
  \/ class = "none" /\ IsRaw(c, n)
  \/ /\ class # "none"
     /\ \/ ~unfold
        \/ /\ class \in c.document_types
           /\ class \notin c.unfoldables /\ <<parent, predicate>> \notin c.unfold_pairs

Stub(c, n) ==
  LET class == TypeOf(c, n) IN
  [kind |-> "document", id |-> n, type |-> class, rest |-> Fields(c, n),
   json |-> class \in Json,
   doc |-> (IF class = "JSON" THEN <<>> ELSE "@id" :> <<"name", n>>)
           @@ (IF class \in Json \union {"none"} THEN <<>> ELSE "@type" :> <<"name", class>>)]
List(c, n, json) ==
  [kind |-> "list", json |-> json, rest |-> RdfList(c.layer, n), collect |-> <<>>]
Array(entry) ==
  [kind |-> "array", json |-> FALSE, rest |-> entry.rest, collect |-> <<>>,
   predicate |-> Head(entry.rest)[2]]

-------------------------------------------------------------------------------
(* Arrays *)

ArrayIndex(v) == CHOOSE i \in 0..9 : ToString(i) = v

\* An array cell names the value and its place in every dimension, the last one first
Index(c, cell) ==
  LET dims == <<"index", "index2", "index3">>
      known == SelectSeq(dims, LAMBDA d : HasTriple(c.layer, cell, d))
  IN Reverse([i \in 1..Len(known) |-> ArrayIndex(ObjectOf(c.layer, cell, known[i]))])

Null == <<"value", "null">>
RECURSIVE IsLess(_, _)
IsLess(i, j) == i # <<>> /\ (Head(i) < Head(j) \/ (Head(i) = Head(j) /\ IsLess(Tail(i), Tail(j))))

\* Dimensions that are complete become an element of the one above
RECURSIVE Gathered(_, _, _)
Gathered(collect, n, d) ==
  IF n = d THEN collect
  ELSE Gathered(IF collect[n] = <<>> THEN collect
                ELSE [collect EXCEPT ![n] = <<>>, ![n - 1] = Append(@, <<"array", collect[n]>>)],
                n - 1, d)
Padded(seq, len) == seq \o [i \in 1..(len - Len(seq)) |-> Null]

\* Mutant: a dimension that is complete is not gathered up
NeverGathered(collect, index, d) ==
  [e \in DOMAIN collect |-> IF e >= d /\ Len(collect[e]) < index[e]
                            THEN Padded(collect[e], index[e]) ELSE collect[e]]

\* Up to the place of the next element, from the first dimension on
RECURSIVE Reach(_, _, _)
Reach(collect, index, d) ==
  IF d > Len(index) THEN collect
  ELSE Reach(IF Len(collect[d]) < index[d]
             THEN [Gathered(collect, Len(index), d) EXCEPT ![d] = Padded(@, index[d])]
             ELSE collect, index, d + 1)

RECURSIVE Collected(_, _)
Collected(collect, elements) ==
  IF elements = <<>> THEN Gathered(collect, Len(collect), 1)
  ELSE LET e == Head(elements)
           at == Reach(collect, e.index, 1)
       IN Collected([at EXCEPT ![Len(at)] = Append(@, e.value)], Tail(elements))

CollectArray(elements) ==
  LET sorted == SortSeq(elements, LAMBDA e, f : IsLess(e.index, f.index))
  IN <<"array", Collected([d \in 1..Len(sorted[1].index) |-> <<>>], sorted)[1]>>

-------------------------------------------------------------------------------
(* The stack *)

HasNext(entry) ==
  /\ entry.rest # <<>>
  /\ entry.kind = "array" => Head(entry.rest)[2] = entry.predicate

\* The object that is next: in an array the value of the next cell
NextObject(c, entry) ==
  CASE entry.kind = "document" -> Head(entry.rest)[3]
    [] entry.kind = "list" -> Head(entry.rest)
    [] entry.kind = "array" -> ObjectOf(c.layer, Head(entry.rest)[3], "value")

\* A value takes the place of the next object
IntegrateValue(c, entry, value) ==
  LET next == [entry EXCEPT !.rest = Tail(@)] IN
  CASE entry.kind = "document" ->
         [next EXCEPT !.doc = AddField(@, Head(entry.rest)[2], value,
                                       <<entry.type, Head(entry.rest)[2]>> \in c.set_pairs)]
    [] entry.kind = "list" -> [next EXCEPT !.collect = Append(@, value)]
    [] entry.kind = "array" ->
         [next EXCEPT !.collect = Append(@, [index |-> Index(c, Head(entry.rest)[3]),
                                             value |-> value])]

\* An entry that is complete, in the entry below; an array takes all of its cells
Integrate(c, parent, entry) ==
  CASE entry.kind = "array" ->
         [parent EXCEPT !.rest = entry.rest,
                        !.doc = AddField(@, entry.predicate, CollectArray(entry.collect), FALSE)]
    [] entry.kind = "list" -> IntegrateValue(c, parent, <<"array", entry.collect>>)
    [] entry.kind = "document" ->
         IntegrateValue(c, parent,
           IF entry.type \in Json /\ "@value" \in DOMAIN entry.doc
              /\ Cardinality(DOMAIN entry.doc) <= 2
           THEN entry.doc["@value"] ELSE <<"document", entry.doc>>)

\* Mutant: only the document on top is remembered
VisitedLast(s, n) == s.visited # <<>> /\ Last(s.visited) = n

Visited(s, n) == n \in ToSet(s.visited)

Pushed(s, entry) == [s EXCEPT !.stack = Append(@, entry)]
Replaced(s, entry) == [s EXCEPT !.stack[Len(s.stack)] = entry]

\* The next object of the entry on top: a value, a name, or an entry of its own.  Only
\* in a document is it looked at together with its property
Follow(c, unfold, s) ==
  LET top == Last(s.stack)
      o == NextObject(c, top)
      parent == IF top.kind = "document" THEN top.type ELSE "none"
      predicate == IF top.kind = "document" THEN Head(top.rest)[2] ELSE "none"
      nests == top.json \/ top.kind = "document"
      here(value) == Replaced(s, IntegrateValue(c, top, value))
  IN CASE nests /\ TypeIs(c, o, "Array") -> Pushed(s, Array(top))
       [] nests /\ TypeIs(c, o, "List") -> Pushed(s, List(c, o, top.json))
       [] o \in c.enums \union Literals -> here(<<"value", o>>)
       [] o = "nil" -> here(<<"array", <<>>>>)
       [] OTHER -> IF Terminates(c, o, unfold, parent, predicate) \/ Visited(s, o)
                   THEN here(<<"name", o>>)
                   ELSE [Pushed(s, Stub(c, o)) EXCEPT !.visited = Append(@, o)]

\* Whatever is complete, a document, a list or an array, ends the last visit
Complete(c, s) ==
  LET top == Last(s.stack)
      below == [s EXCEPT !.stack = Front(@),
                         !.visited = IF @ = <<>> THEN @ ELSE Front(@)]
  IN Replaced(below, Integrate(c, Last(below.stack), top))

\* The document, or "limit" when there is too much work
RECURSIVE Work(_, _, _)
Work(c, unfold, s) ==
  IF s.work + 1 >= WorkLimit THEN <<"limit">>
  ELSE LET next == [s EXCEPT !.work = @ + 1] IN
    IF HasNext(Last(s.stack)) THEN Work(c, unfold, Follow(c, unfold, next))
    ELSE IF Len(s.stack) = 1 THEN <<"document", Last(s.stack).doc>>
    ELSE Work(c, unfold, Complete(c, next))

\* A name without a type or a field is no document
GetIdDocument(c, id, unfold) ==
  IF TypeOf(c, id) = "none" /\ IsRaw(c, id) THEN <<"none">>
  ELSE Work(c, unfold, [stack |-> <<Stub(c, id)>>, visited |-> <<id>>, work |-> 0])

DocumentExists(c, id) == TypeOf(c, id) # "none"

\* The types that print_all_documents_json_by_type reads
SubtypesFor(c, schema, class) ==
  InOrder({class} \cap Known(c.layer)) \o
  InOrder(ToInstance(c.layer, SubtypeIds(schema, class)) \ {class})

-------------------------------------------------------------------------------
(* What a document is to look like *)

\* The value at a place of an array, by the elements alone
RECURSIVE NestedAt(_, _, _)
NestedAt(elements, place, dims) ==
  LET below == {e \in elements : IsPrefix(place, e.index)}
      last == Max({e.index[Len(place) + 1] : e \in below}) IN
  IF below = {} THEN Null
  ELSE IF Len(place) = dims THEN (CHOOSE e \in below : TRUE).value
  ELSE <<"array", [i \in 1..(last + 1) |-> NestedAt(elements, Append(place, i - 1), dims)]>>

RECURSIVE Tree(_, _, _, _)
\* The value of a link of a document under construction
Item(c, unfold, o, parent, predicate, above) ==
  IF o \in c.enums \union Literals THEN <<"value", o>>
  ELSE IF o = "nil" THEN <<"array", <<>>>>
  ELSE IF Terminates(c, o, unfold, parent, predicate) \/ o \in above THEN <<"name", o>>
  ELSE Tree(c, unfold, o, above \union {o})

FieldOf(c, unfold, n, p, above) ==
  LET objects == InOrder({t[3] : t \in {u \in TriplesS(c.layer, n) : u[2] = p}})
      item(o) == Item(c, unfold, o, TypeOf(c, n), p, above)
      inside(o) == Item(c, unfold, o, "none", "none", above)
      members(o) == LET l == RdfList(c.layer, o)
                    IN <<"array", [i \in 1..Len(l) |-> inside(l[i])]>>
      cells == {[index |-> Index(c, o), value |-> inside(ObjectOf(c.layer, o, "value"))] :
                  o \in ToSet(objects)}
      values == [i \in 1..Len(objects) |->
                   IF TypeIs(c, objects[i], "List") THEN members(objects[i])
                   ELSE item(objects[i])]
  IN IF TypeIs(c, objects[1], "Array")
     THEN NestedAt(cells, <<>>, Len((CHOOSE e \in cells : TRUE).index))
     ELSE IF Len(values) > 1 \/ <<TypeOf(c, n), p>> \in c.set_pairs THEN <<"array", values>>
     ELSE values[1]

\* A document with everything that is unfolded from it; above are the documents it is in
Tree(c, unfold, n, above) ==
  LET predicates == {t[2] : t \in TriplesS(c.layer, n)} \ {"type"} IN
  IF TypeIs(c, n, "JSON") /\ predicates = {"@value"}
  THEN FieldOf(c, unfold, n, "@value", above)
  ELSE <<"document", Stub(c, n).doc @@ [p \in predicates |-> FieldOf(c, unfold, n, p, above)]>>
===============================================================================
