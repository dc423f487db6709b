------------------------------ MODULE SchemaTypes ------------------------------
(***************************************************************************)
(* What is read from the schema graph (schema.rs): which classes are       *)
(* subdocuments, unfoldable or shared, directly or by what they inherit    *)
(* from, the subtypes of a class, and the properties of a class and of     *)
(* its subclasses that are sets or are unfolded.  A graph is a set of      *)
(* triples over names; the same name stands for the identifiers that the   *)
(* schema and the instance graph give it.                                  *)
(***************************************************************************)
EXTENDS Naturals, Sequences, FiniteSets, SequencesExt, Relation

CONSTANTS
  Order,     \* the names, in the order of their identifiers
  Literals   \* the names that are values and not nodes

Position(n) == CHOOSE i \in 1..Len(Order) : Order[i] = n
InOrder(names) == SelectSeq(Order, LAMBDA n : n \in names)

TriplesS(g, s) == {t \in g : t[1] = s}
TriplesP(g, p) == {t \in g : t[2] = p}
TriplesO(g, o) == {t \in g : t[3] = o}
Subjects(triples) == {t[1] : t \in triples}
ObjectOf(g, s, p) == (CHOOSE t \in TriplesS(g, s) : t[2] = p)[3]
HasTriple(g, s, p) == \E t \in TriplesS(g, s) : t[2] = p

\* The triples of a subject come by predicate, those of an object by subject
ListS(g, s) ==
  LET ps == InOrder({t[2] : t \in TriplesS(g, s)})
      of(p) == InOrder({t[3] : t \in {u \in TriplesS(g, s) : u[2] = p}})
  IN FlattenSeq([i \in 1..Len(ps) |-> [j \in 1..Len(of(ps[i])) |-> <<s, ps[i], of(ps[i])[j]>>]])
ListO(g, o) ==
  LET ss == InOrder(Subjects(TriplesO(g, o)))
      by(n) == InOrder({t[2] : t \in {u \in TriplesO(g, o) : u[1] = n}})
  IN FlattenSeq([i \in 1..Len(ss) |-> [j \in 1..Len(by(ss[i])) |-> <<ss[i], by(ss[i])[j], o>>]])
WithPredicate(triples, p) == SelectSeq(triples, LAMBDA t : t[2] = p)

InheritanceGraph(schema) == {<<t[1], t[3]>> : t \in TriplesP(schema, "inherits")}
Supers(schema, c) == {p[2] : p \in {q \in InheritanceGraph(schema) : q[1] = c}}
Children(schema, c) == {p[1] : p \in {q \in InheritanceGraph(schema) : q[2] = c}}

\* The classes in work and all below them
RECURSIVE Descend(_, _, _)
Descend(schema, work, found) ==
  IF work = <<>> THEN found
  ELSE LET cur == Last(work) IN
    IF cur \in found THEN Descend(schema, Front(work), found)
    ELSE Descend(schema, Front(work) \o InOrder(Children(schema, cur)), found \union {cur})

Annotated(schema, annotation) ==
  Descend(schema, InOrder(Subjects(TriplesP(schema, annotation))), {})
SubdocumentIds(schema) == Annotated(schema, "subdocument")
UnfoldableIds(schema) == Annotated(schema, "unfoldable")
SharedIds(schema) == Annotated(schema, "shared")

TypeIds(schema) ==
  {t[1] : t \in {u \in TriplesP(schema, "type") :
                   u[3] \in {"Class", "TaggedUnion", "Foreign"}}}
DocumentTypeIds(schema) == TypeIds(schema) \ SubdocumentIds(schema)

\* The pairs of the classes in work and all below them with a property; classes that
\* inherit from each other are visited for ever
RECURSIVE PairsBelow(_, _, _)
PairsBelow(schema, work, p) ==
  IF work = <<>> THEN {}
  ELSE {<<Last(work), p>>} \union
       PairsBelow(schema, Front(work) \o InOrder(Children(schema, Last(work))), p)

UnfoldPairs(schema) ==
  UNION {PairsBelow(schema, <<t[1]>>, t[2]) :
           t \in UNION {TriplesO(schema, u[1]) : u \in TriplesP(schema, "unfold")}}

\* A set is a node of its own that one property leads to
SetPairs(schema) ==
  UNION {LET origin == CHOOSE t \in TriplesO(schema, u[1]) : TRUE
         IN PairsBelow(schema, <<origin[1]>>, origin[2]) :
           u \in {t \in TriplesO(schema, "Set") : t[2] = "type"}}

\* Everything above a class, without the class
RECURSIVE Ascend(_, _, _)
Ascend(schema, supers, visited) ==
  IF supers = <<>> THEN visited
  ELSE LET sup == Last(supers) IN
    IF sup \in visited THEN Ascend(schema, Front(supers), visited)
    ELSE Ascend(schema, Front(supers) \o InOrder(Supers(schema, sup)), visited \union {sup})

SubtypeIds(schema, c) ==
  {sub \in Subjects(TriplesP(schema, "inherits")) :
     c \in Ascend(schema, InOrder(Supers(schema, sub)), {})}

\* The members of a list of cells
RECURSIVE RdfList(_, _)
RdfList(g, cell) ==
  IF cell = "nil" THEN <<>>
  ELSE <<ObjectOf(g, cell, "first")>> \o RdfList(g, ObjectOf(g, cell, "rest"))

EnumIds(schema) ==
  UNION {ToSet(RdfList(schema, ObjectOf(schema, t[1], "value"))) :
           t \in {u \in TriplesO(schema, "Enum") : u[2] = "type"}}
ValueHashIds(schema) == Subjects({t \in TriplesO(schema, "ValueHash") : t[2] = "key"})

\* Names the instance graph knows as well
Known(instance) == UNION {{t[1], t[2], t[3]} : t \in instance}
ToInstance(instance, names) == names \cap Known(instance)
PairsToInstance(instance, pairs) ==
  {p \in pairs : p[1] \in Known(instance) /\ p[2] \in Known(instance)}
===============================================================================
