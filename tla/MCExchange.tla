------------------------------- MODULE MCExchange -------------------------------
(* Values at the limits of their types, small layers, and names of a few characters *)
EXTENDS Exchange

Halves == (8 :> 2^7) @@ (16 :> 2^15) @@ (32 :> 2^19) @@ (64 :> 2^23)

-------------------------------------------------------------------------------
(* Values *)

IntTerms(ns) == {<<"int", n>> : n \in ns}
Limits ==
  {0, 1} \union
  UNION {LET half == Halves[w] IN {-half - 1, -half, half - 1, half, 2 * half - 1, 2 * half} :
           w \in DOMAIN Halves}
ValueWords == {<<>>, <<"true">>, <<"false">>, <<"a", "@", "b">>, <<"digits", 12>>, <<"halves", 3>>,
          <<"bytes", 255, "upper">>, <<"bytes", 255, "lower">>}
Floats == {<<"float", n>> : n \in {0, 1, 3, 2^24 + 1, 2^24 + 3, 2^24 + 2, -(2^24) - 1}}
SimpleTerms == IntTerms(Limits) \union Floats \union {<<k, w>> : k \in {"text", "atom"}, w \in ValueWords}
SimpleTypes ==
  {"boolean", "string", "anyURI", "byte", "unsignedByte", "short", "unsignedShort", "int", "unsignedInt",
   "long", "unsignedLong", "float", "double", "decimal", "integer", "nonNegativeInteger", "hexBinary",
   "NCName", "gYear", "unknown"}

\* Compound terms whose parts are those of a usual one but for one
NumberTerm(functor, ns) == <<"compound", functor, [i \in DOMAIN ns |-> <<"int", ns[i]>>]>>
NumberTerms(functor, usual, others) ==
  {NumberTerm(functor, usual)} \union
  {NumberTerm(functor, [usual EXCEPT ![i] = n]) : i \in DOMAIN usual, n \in others}
OddParts == {-1, 0, 12, 13, 29, 31, 60, 256, 840, 2^15, 2^20, 2^23}
Floating(span, half) == <<"compound", span[2], [span[3] EXCEPT ![7] = <<"float", half>>]>>
Durations == NumberTerms("duration", <<1, 2, 3, 4, 5, 6, 7>>, {-1, 0, 256})
Spans == Durations \union {Floating(d, half) : d \in Durations, half \in {3, 4}}
Moments ==
  UNION {NumberTerms("date_time", usual, OddParts) :
           usual \in {<<2000, 2, 29, 10, 20, 30, 0>>, <<1900, 2, 28, 23, 59, 59, 1999>>,
                      <<2023, 4, 30, 0, 0, 58, 1000>>}}
Dates == NumberTerms("date", <<2024, 2, 29, 0>>, OddParts)
CompoundObjects ==
  {<<"value", t, type>> : t \in Spans, type \in {"duration", "dayTimeDuration"}} \union
  {<<"value", t, "dateTime">> : t \in Moments} \union
  {<<"value", t, type>> : t \in Dates, type \in {"date", "dateTimeStamp"}} \union
  {<<"value", t, "time">> : t \in NumberTerms("time", <<23, 59, 59>>, OddParts)} \union
  UNION {{<<"value", t, type>> : t \in NumberTerms(Stored!FunctorOf(type), usual, OddParts)} :
           <<type, usual>> \in {<<"gYear", <<2000, 60>>>>, <<"gMonth", <<12, 0>>>>, <<"gDay", <<31, 840>>>>,
                                <<"gYearMonth", <<2000, 2, 0>>>>, <<"gMonthDay", <<2, 29, 0>>>>}} \union
  {<<"value", NumberTerm("gday", <<5, 0>>), "gMonth">>, <<"value", NumberTerm("gday", <<5, 0, 7>>), "gDay">>}
IntervalEnds == {<<"date", <<2024, 2, 29, 0>>>>, <<"date", <<2023, 2, 29, 0>>>>, <<"date", <<2024, 2, 29, 60>>>>,
            <<"date_time", <<2000, 2, 29, 10, 20, 30, 0>>>>, <<"date_time", <<2000, 2, 28, 24, 0, 0, 0>>>>,
            <<"year", <<2000>>>>}
IntervalObjects ==
  {<<"value",
     <<"compound", "date_time_interval", <<NumberTerm(s[1], s[2]), NumberTerm(e[1], e[2]), d, <<"atom", <<f>>>>>>>>,
     "dateTimeInterval">> :
     s \in IntervalEnds, e \in IntervalEnds, f \in {"explicit", "duration_end", "other"},
     d \in {NumberTerm("duration", <<1, 2, 3, 4, 5, 6, 7>>),
            Floating(NumberTerm("duration", <<-1, 0, 0, 0, 0, 0, 0>>), 3),
            NumberTerm("duration", <<1, 2, 3>>)}}
LangLetters == {"a", "@", "-"}
LangTexts == UNION {[1..n -> LangLetters] : n \in 0..3}
LangObjects == {<<"lang", <<"text", t>>, <<"atom", l>>>> : t \in LangTexts, l \in LangTexts \ {<<>>}}
ValueQuestions ==
  {[kind : {"value"}, object : {<<"value", t, type>> : t \in SimpleTerms, type \in SimpleTypes} \union
                               CompoundObjects \union IntervalObjects \union LangObjects]}

-------------------------------------------------------------------------------
(* Layers *)

NodeName(name) == <<"node", name>>
Value(type, n) == <<"entry", type, n>>
M == NodeName("m")
N == NodeName("n")
P == NodeName("p")
Q == NodeName("q")
BeforeTriples ==
  {<<M, P, N>>, <<M, P, Value("int", 1)>>, <<M, P, Value("int", 3)>>, <<N, P, Value("int", 2)>>}
AddedTriples == {<<M, Q, N>>, <<M, P, Value("int", 2)>>, <<M, P, Value("long", 2)>>}
SmallLayers ==
  {[before |-> BeforeTriples, added |-> a, removed |-> r] :
     a \in SUBSET AddedTriples, r \in SUBSET BeforeTriples} \union
  {[before |-> {}, added |-> a, removed |-> {}] : a \in SUBSET AddedTriples}
Or(term) == {Stored!Unbound} \union term
TripleQuestions ==
  {[kind : {"triples"}, layer : {l \in SmallLayers : Cardinality(l.removed) <= 2},
    s : Or({M, N}), p : Or({P, Q}), o : Or({N, Value("int", 2), Value("long", 2)})]}
Bound(type, n) == <<"value", <<"int", n>>, type>>
RangeQuestions ==
  {[kind : {"values"}, layer : SmallLayers, s : {M, N}, p : {P}, o : {Stored!Unbound},
    low : {Bound("int", 1), Bound("int", 2), Bound("byte", 200), Bound("boolean", 1)},
    high : {Bound("int", n) : n \in {2, 3, 4}} \union {Bound("long", 3)}]}

-------------------------------------------------------------------------------
(* Names *)

Expansions == {<<"a">>, <<"a", "b">>, <<"a", "b", "a">>, <<"a", "b", "b">>, <<"a", "a">>}
PrefixPairs ==
  {<<>>} \union {<<<<<<"b">>, e>>>> : e \in Expansions} \union
  {<<<<<<"b">>, e>>, <<<<"c", "-", "1">>, f>>>> : e, f \in Expansions \ {<<"a">>}}
Contexts ==
  [base : {<<"a">>, <<"a", "b">>, <<"b", ":", "/", "/">>},
   schema : {<<"a", "b">>, <<"a", "a", "a">>}, pairs : PrefixPairs]
ShortNames == UNION {[1..n -> {"a", "b"}] : n \in 1..4}
NamesAsked ==
  ShortNames \union
  {<<"a", "b">> \o rest : rest \in {<<"/", "/">>, <<":", "a">>, <<"@">>, <<"a", ":">>, <<".", "1">>}} \union
  {<<"b", ":", "/", "/">> \o rest : rest \in {<<>>, <<"a">>, <<"/", "a">>}} \union {<<"c">>, <<"j", "a">>}
NameQuestions == {[kind : {"names"}, context : Contexts, name : NamesAsked]}

Two(v, w) == (<<"a">> :> v) @@ (<<"b">> :> w)
X == <<"atom", <<"x">>>>
Y == <<"text", <<"y">>>>
Dictionaries ==
  {Two(X, Y), Two(Y, X), Two(X, X), Two(<<"atom", <<"a">>>>, X), <<"a">> :> X, Expanding!Base :> Y}
ContextCalls == [term : {1, 2, 3}, dict : Dictionaries]
ContextQuestions ==
  {[kind : {"contexts"}, calls : UNION {[1..n -> ContextCalls] : n \in 1..3},
    name : {<<"a", ":", "n">>}]}

TheDefaults == <<"d">> :> <<"d", "/">>
TheJsonPrefix == <<"j">>
ByteOrder == <<"-", ".", "/", "1", ":", "@", "a", "b", "c", "d", "j", "n", "s", "v", "x", "y", "e'">>
TheLetters == {"a", "b", "c", "d", "j", "n", "s", "v", "x", "y"}

ExchangeQuestions ==
  ValueQuestions \union TripleQuestions \union RangeQuestions \union NameQuestions \union ContextQuestions
===============================================================================
