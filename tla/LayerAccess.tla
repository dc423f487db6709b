------------------------------- MODULE LayerAccess -------------------------------
(***************************************************************************)
(* What Prolog asks of a layer (layer.rs, terminus_store.pl): the triples  *)
(* of a pattern, of the layer, of what it added or removed; the triples    *)
(* with a value in a range; the nearest value of a subject and predicate.  *)
(* A layer is [before, added, removed]: the triples of its parent and its  *)
(* own changes.  A name stands for its identifier in the layer, an entry   *)
(* of the dictionary for the identifier of that value.                     *)
(***************************************************************************)
EXTENDS ValueTerms, FiniteSets, FiniteSetsExt

\* A variable of a pattern without a value; names are <<"node", n>>
Unbound == <<"unbound">>
IsBound(term) == term # Unbound

\* The triples of a layer, in the order of no consequence that its iterators have
Triples(layer) == (layer.before \ layer.removed) \union layer.added
ById(triples, s) == {t \in triples : t[1] = s}
ByPredicate(triples, p) == {t \in triples : t[2] = p}
ByObject(triples, o) == {t \in triples : t[3] = o}
BySubjectPredicate(triples, s, p) == {t \in triples : t[1] = s /\ t[2] = p}

-------------------------------------------------------------------------------
(* Patterns: which index is read, and what is left to filter *)

WithSubject(triples, s, p, o) ==
  CASE IsBound(p) /\ IsBound(o) -> triples \cap {<<s, p, o>>}
    [] IsBound(p) /\ ~IsBound(o) -> BySubjectPredicate(triples, s, p)
    [] ~IsBound(p) /\ IsBound(o) -> {t \in ById(triples, s) : t[3] = o}
    [] OTHER -> ById(triples, s)
WithoutSubject(triples, p, o) ==
  CASE IsBound(o) /\ IsBound(p) -> {t \in ByObject(triples, o) : t[2] = p}
    [] IsBound(o) /\ ~IsBound(p) -> ByObject(triples, o)
    [] ~IsBound(o) /\ IsBound(p) -> ByPredicate(triples, p)
    [] OTHER -> triples
OfPattern(triples, s, p, o) ==
  IF IsBound(s) THEN WithSubject(triples, s, p, o) ELSE WithoutSubject(triples, p, o)

IdTriple(layer, s, p, o) == OfPattern(Triples(layer), s, p, o)
IdTripleAddition(layer, s, p, o) == OfPattern(layer.added, s, p, o)
IdTripleRemoval(layer, s, p, o) == OfPattern(layer.removed, s, p, o)

SpCard(layer, s, p) == Cardinality(BySubjectPredicate(Triples(layer), s, p))
OpCard(layer, o, p) == Cardinality(ByPredicate(ByObject(Triples(layer), o), p))

-------------------------------------------------------------------------------
(* Objects of the dictionary *)

IsValue(o) == o[1] = "entry"
Objects(layer) == {t[3] : t \in layer.before \union layer.added}

\* Fails for a value the layer does not know
ObjectToId(layer, object) ==
  LET entry == IF object[1] = "node" THEN object ELSE MakeObject(object) IN
  CASE entry \in {Error, Panic} -> entry
    [] entry \in Objects(layer) -> <<"id", entry>>
    [] OTHER -> <<"fails">>
IdToObject(id) == IF IsValue(id) THEN ReadEntry(id) ELSE id

\* Values compare within their datatype
Below(x, y) == x[2] = y[2] /\ x[3] < y[3]
\* Mutant: the upper bound belongs to the range
InClosedRange(triples, low, high) ==
  {t \in triples : /\ IsValue(t[3]) /\ t[3][2] = low[2]
                   /\ t[3] = low \/ Below(low, t[3])
                   /\ t[3] = high \/ Below(t[3], high)}
InRange(triples, low, high) ==
  {t \in triples : /\ IsValue(t[3]) /\ t[3][2] = low[2]
                   /\ t[3] = low \/ Below(low, t[3])
                   /\ Below(t[3], high)}
Ascending(triples) == SetToSortSeq(triples, LAMBDA t, u : Below(t[3], u[3]))

\* Both bounds are made into entries before anything is found, or the query raises
IdTripleValueRange(layer, low, high) ==
  LET l == MakeObject(low)
      h == MakeObject(high)
  IN IF ~IsEntry(l) \/ ~IsEntry(h) THEN <<"raises", IF IsEntry(l) THEN h ELSE l>>
     ELSE <<"triples", Ascending(InRange(Triples(layer), l, h))>>
IdTripleValueRangeRev(layer, low, high) ==
  LET found == IdTripleValueRange(layer, low, high)
  IN IF found[1] = "raises" THEN found ELSE <<"triples", Reverse(found[2])>>

\* The triples of a slice are those of the range; a subject, predicate or object that is
\* known is not looked at (terminus_store.pl, triple_value_range)
TripleValueRange(layer, low, high, s, p, o) ==
  LET found == IdTripleValueRange(layer, low, high)
      given(term, id) == IF IsBound(term) THEN term ELSE id
  IN IF found[1] = "raises" THEN found
     ELSE <<"triples", [i \in 1..Len(found[2]) |->
                          <<given(s, found[2][i][1]), given(p, found[2][i][2]), given(o, found[2][i][3])>>]>>

-------------------------------------------------------------------------------
(* The nearest value of the same datatype, in one pass over the objects *)

\* The next value is above the reference and the least such, the previous below and greatest
Beyond(next, x, y) == IF next THEN Below(y, x) ELSE Below(x, y)
Better(next, best, entry) == best = <<"none">> \/ Beyond(next, best, entry)
Nearest(layer, s, p, reference, next) ==
  LET r == MakeObject(reference)
      values == {t[3] : t \in {u \in BySubjectPredicate(Triples(layer), s, p) : IsValue(u[3])}}
      step(best, entry) ==
        IF entry[2] = r[2] /\ Beyond(next, entry, r) /\ Better(next, best, entry) THEN entry ELSE best
  IN IF ~IsEntry(r) THEN r ELSE FoldLeft(step, <<"none">>, SetToSeq(values))
SpValueNext(layer, s, p, reference) == Nearest(layer, s, p, reference, TRUE)
SpValuePrevious(layer, s, p, reference) == Nearest(layer, s, p, reference, FALSE)
===============================================================================
