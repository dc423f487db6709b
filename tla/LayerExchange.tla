----------------------------- MODULE LayerExchange -----------------------------
(***************************************************************************)
(* What Prolog exchanges with the layers of the store: values with their   *)
(* dictionaries, patterns for triples, bounds for the values between them. *)
(* A question is answered in one step from a layer that does not change.   *)
(***************************************************************************)
EXTENDS Integers, Sequences, FiniteSets, SequencesExt

CONSTANTS Half, Exact, SubSeconds  \* see ValueTerms

\* A number of some bits is also one of more, and of the signed ones of more; months, days and
\* the minutes of an offset fit where they are kept
NumbersAssumption ==
  /\ Half \in [{8, 16, 32, 64} -> Nat] /\ Exact \in Nat /\ SubSeconds \in Nat \ {0}
  /\ 2 * Half[8] <= Half[16] /\ 2 * Half[16] <= Half[32] /\ 2 * Half[32] <= Half[64]
  /\ 31 < Half[8] /\ 840 < Half[16]
ASSUME WidthsGrow == NumbersAssumption

VARIABLES question, answer

exchangeVars == <<question, answer>>

Stored == INSTANCE LayerAccess

Respond(value) == answer = <<>> /\ answer' = <<value>> /\ UNCHANGED question

\* A value is made into an entry and the entry is read
StoreValue ==
  /\ question.kind = "value"
  /\ LET entry == Stored!MakeObject(question.object)
     IN Respond([entry |-> entry,
                 read |-> IF Stored!IsEntry(entry) THEN Stored!ReadEntry(entry) ELSE entry])

FindTriples ==
  /\ question.kind = "triples"
  /\ LET layer == question.layer
         s == question.s
         p == question.p
         o == question.o
     IN Respond([found |-> Stored!IdTriple(layer, s, p, o),
                 added |-> Stored!IdTripleAddition(layer, s, p, o),
                 removed |-> Stored!IdTripleRemoval(layer, s, p, o),
                 card |-> CASE Stored!IsBound(p) /\ Stored!IsBound(s) -> Stored!SpCard(layer, s, p)
                            [] Stored!IsBound(p) /\ Stored!IsBound(o) -> Stored!OpCard(layer, o, p)
                            [] OTHER -> 0])

FindValues ==
  /\ question.kind = "values"
  /\ LET layer == question.layer
         low == question.low
         high == question.high
         s == question.s
         p == question.p
     IN Respond([range |-> Stored!IdTripleValueRange(layer, low, high),
                 back |-> Stored!IdTripleValueRangeRev(layer, low, high),
                 slice |-> Stored!TripleValueRange(layer, low, high, s, p, question.o),
                 next |-> Stored!SpValueNext(layer, s, p, low),
                 previous |-> Stored!SpValuePrevious(layer, s, p, high),
                 id |-> Stored!ObjectToId(layer, low)])

ExchangeInit(questions) == answer = <<>> /\ \E some \in questions : question \in some
LayerNext == StoreValue \/ FindTriples \/ FindValues

LayerSpec(questions) == ExchangeInit(questions) /\ [][LayerNext]_exchangeVars

-------------------------------------------------------------------------------
(* Properties *)

Answered(kind) == question.kind = kind /\ answer # <<>>

SignedRange(w) == (-Half[w])..(Half[w] - 1)
UnsignedRange(w) == 0..(2 * Half[w] - 1)
RangeOf ==
  [unsignedByte |-> UnsignedRange(8), byte |-> SignedRange(8), unsignedShort |-> UnsignedRange(16),
   short |-> SignedRange(16), unsignedInt |-> UnsignedRange(32), int |-> SignedRange(32),
   unsignedLong |-> UnsignedRange(64), long |-> SignedRange(64)]
Minutes == 0..840
SignedMinutes == (-840)..840
PartsOf ==
  [gYear |-> <<SignedRange(64), Minutes>>, gMonth |-> <<1..12, Minutes>>, gDay |-> <<1..31, Minutes>>,
   gYearMonth |-> <<SignedRange(64), 1..12, Minutes>>, gMonthDay |-> <<1..12, 1..31, Minutes>>,
   date |-> <<SignedRange(64), 1..12, 1..31, SignedMinutes>>, time |-> <<0..23, 0..59, 0..59>>]
MomentParts == [i \in 1..7 |-> IF i = 1 THEN SignedRange(32) ELSE UnsignedRange(32)]
SpanParts == [i \in 1..6 |-> CASE i = 1 -> {-1, 1} [] i = 2 -> SignedRange(64) [] OTHER -> UnsignedRange(8)]

\* What single precision has, of the numbers it is modelled for
IsSingle(n) == n \in (-Exact)..Exact \/ (n % 2 = 0 /\ n \in (-(2 * Exact))..(2 * Exact))

HasParts(t, parts) == \A i \in DOMAIN parts : t[3][i][1] = "int" /\ t[3][i][2] \in parts[i]
IsMade(t, functor, arity) == t[1] = "compound" /\ t[2] = functor /\ Len(t[3]) = arity
IsMoment(t) ==
  /\ IsMade(t, "date_time", 7) /\ HasParts(t, MomentParts)
  /\ Stored!IsMoment([i \in 1..7 |-> t[3][i][2]])
IsSpan(t) == IsMade(t, "duration", 7) /\ HasParts(t, SpanParts)
IsComponent(t) ==
  \/ IsMoment(t)
  \/ /\ IsMade(t, "date", 4) /\ HasParts(t, <<SignedRange(32), 1..12, 1..31, {0}>>)
     /\ Stored!IsDate([i \in 1..3 |-> t[3][i][2]])

IsInterval(t) ==
  /\ IsMade(t, "date_time_interval", 4)
  /\ IsComponent(t[3][1]) /\ IsComponent(t[3][2]) /\ IsSpan(t[3][3])
  /\ t[3][3][3][7][1] = "int" \/ (t[3][3][3][7][1] = "float" /\ t[3][3][3][7][2] % 2 = 1)
  /\ t[3][4][1] = "atom" /\ t[3][4][2] \in Stored!IntervalFlags

\* The terms of a type, as they are read: a datatype's values in the form the store gives them
IsOfType(type, t) ==
  CASE type \in DOMAIN RangeOf -> t[1] = "int" /\ t[2] \in RangeOf[type]
    [] type \in Stored!BigTypes -> t[1] = "int"
    [] type = "boolean" -> t[1] = "atom" /\ t[2] \in {<<"true">>, <<"false">>}
    [] type \in Stored!TextTypes -> t[1] = "text"
    [] type = "double" -> t[1] = "float"
    [] type = "float" -> t[1] = "float" /\ IsSingle(t[2])
    [] type = "decimal" -> t[1] = "text" /\ (Stored!Spells(t, "digits") \/ Stored!Spells(t, "halves"))
    [] type \in {"hexBinary", "base64Binary"} ->
         t[1] = "text" /\ Stored!Spells(t, "bytes") /\ t[2][3] = "lower"
    [] type \in DOMAIN PartsOf ->
         IsMade(t, Stored!FunctorOf(type), Len(PartsOf[type])) /\ HasParts(t, PartsOf[type])
    [] type \in {"dateTime", "dateTimeStamp"} -> IsMoment(t)
    [] type \in Stored!DurationTypes -> IsSpan(t) /\ t[3][7][1] = "float"
    [] type = "dateTimeInterval" -> IsInterval(t)
    [] OTHER -> FALSE

\* The offsets of a year, month or day are read as unsigned numbers of 64 bits and kept with a
\* sign in 16: what wraps to below zero cannot be asked for again
WrapsOffset(entry) ==
  entry[2] \in DOMAIN Stored!GregorianFields /\ Last(entry[3]) < 0

\* A value of a type comes back as it was stored; and whatever was stored, a value that is read
\* finds the entry it was read from (make_entry_from_term, unify_entry)
StoredValuesComeBack ==
  Answered("value") =>
    LET object == question.object
        entry == answer[1].entry
    IN /\ object[1] = "value" /\ IsOfType(object[3], object[2]) => answer[1].read = object
       /\ object[1] = "lang" /\ entry # Stored!Panic => answer[1].read = object
       /\ Stored!IsEntry(entry) /\ ~WrapsOffset(entry) => Stored!MakeObject(answer[1].read) = entry

Is(term, x) == term \in {Stored!Unbound, x}
\* However a pattern is bound, it gives the triples that fit it, those of the parent that were
\* not removed and those that were added (id_triple, id_triple_addition, id_triple_removal)
PatternsFindTheirTriples ==
  Answered("triples") =>
    LET layer == question.layer
        fits(triples) ==
          {t \in triples : Is(question.s, t[1]) /\ Is(question.p, t[2]) /\ Is(question.o, t[3])}
    IN /\ answer[1].found = fits((layer.before \ layer.removed) \union layer.added)
       /\ answer[1].added = fits(layer.added) /\ answer[1].removed = fits(layer.removed)
       /\ Stored!IsBound(question.p) /\ Stored!IsBound(question.s) # Stored!IsBound(question.o) =>
            answer[1].card = Cardinality(answer[1].found)

\* Nothing of the datatype of the bounds lies between a bound and the nearest value, and a
\* range has the values from the least to the greatest, without the upper bound, and so has a
\* slice, whatever subject and predicate it gives them
\* (id_triple_sp_value_next, id_triple_sp_value_previous, id_triple_value_range,
\* triple_value_range)
NearestValuesAreNearest ==
  Answered("values") =>
    LET low == Stored!MakeObject(question.low)
        high == Stored!MakeObject(question.high)
        triples == Stored!Triples(question.layer)
        typed(e) == {t \in triples : t[3][1] = "entry" /\ t[3][2] = e[2]}
        own(e) == {t[3][3] : t \in {u \in typed(e) : u[1] = question.s /\ u[2] = question.p}}
        above == {n \in own(low) : n > low[3]}
        below == {n \in own(high) : n < high[3]}
        next == answer[1].next
        previous == answer[1].previous
        between == {t \in typed(low) : high[2] = low[2] /\ t[3][3] \in low[3]..(high[3] - 1)}
        range == answer[1].range[2]
    IN Stored!IsEntry(low) /\ Stored!IsEntry(high) =>
       /\ IF above = {} THEN next = <<"none">> ELSE next[3] \in above /\ \A n \in above : next[3] <= n
       /\ IF below = {} THEN previous = <<"none">> ELSE previous[3] \in below /\ \A n \in below : n <= previous[3]
       /\ ToSet(range) = between /\ Len(range) = Cardinality(between)
       /\ \A i, j \in DOMAIN range : i < j => range[i][3][3] <= range[j][3][3]
       /\ answer[1].back[2] = Reverse(range)
       /\ [i \in DOMAIN answer[1].slice[2] |-> answer[1].slice[2][i][3]] =
            [i \in DOMAIN range |-> range[i][3]]
       /\ answer[1].id[1] = "id" <=> \E t \in question.layer.before \union question.layer.added : t[3] = low

\* A layer has what was put in: its values read as they were stored, and are found again, and
\* each of its triples is found by every pattern that it fits
LayersAnswerExactly == StoredValuesComeBack /\ PatternsFindTheirTriples
===============================================================================
