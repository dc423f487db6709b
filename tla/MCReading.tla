------------------------------- MODULE MCReading -------------------------------
(* Small schemas and layers, and what is asked of them *)
EXTENDS Reading, MCExchange

Names ==
  <<"A", "B", "C", "D", "S", "P", "Q", "E", "recent", "X-Y", "X.Y", "X_Y", "BigInt",
    "Class", "inherits", "type", "a-b", "a.b", "a_b", "next", "many", "name", "url", "age",
    "friend", "best", "chain", "tags", "nick", "color", "list", "list2", "grid", "index", "index2",
    "first", "rest", "value", "T", "U", "V", "Set", "unfold", "unfoldable", "subdocument", "nil",
    "List", "Array", "Enum", "e1", "a", "b", "s", "p1", "p2", "q1", "l1", "l2", "x1", "x2",
    "red", "v", "0", "1", "la", "lb", "lu", "n1", "n2">>
Values ==
  [n \in {"0", "1"} |-> [type |-> "nonNegativeInteger", value |-> ArrayIndex(n)]] @@
  [n \in {"v", "la"} |-> [type |-> "string", value |-> IF n = "la" THEN 1 ELSE 3]] @@
  ("lb" :> [type |-> "string", value |-> 2]) @@ ("lu" :> [type |-> "anyURI", value |-> 1]) @@
  ("n1" :> [type |-> "int", value |-> 1]) @@ ("n2" :> [type |-> "int", value |-> 2])
LiteralNames == DOMAIN Values
DataTypes == {"string", "anyURI", "int"}
Sanitize(n) == CASE n \in {"a-b", "a.b"} -> "a_b" [] n \in {"X-Y", "X.Y"} -> "X_Y" [] OTHER -> n

-------------------------------------------------------------------------------
(* Documents: b is of a class two below B, s a subdocument *)

EnumTriples ==
  {<<"E", "type", "Enum">>, <<"E", "value", "e1">>, <<"e1", "first", "red">>, <<"e1", "rest", "nil">>}
BaseSchema ==
  {<<c, "type", "Class">> : c \in {"A", "B", "C", "D", "S"}} \union EnumTriples \union
  {<<"S", "subdocument", "nil">>, <<"C", "inherits", "D">>, <<"D", "inherits", "B">>,
   <<"A", "many", "U">>, <<"U", "type", "Set">>}
Schemas == {BaseSchema \union v : v \in {{}, {<<"B", "unfoldable", "nil">>}, {<<"A", "unfoldable", "nil">>},
                                         {<<"A", "next", "T">>, <<"T", "unfold", "nil">>},
                                         {<<c, "unfoldable", "nil">> : c \in {"A", "B"}}}}
FreeLinks == {<<"a", "next", "b">>, <<"b", "next", "a">>, <<"a", "many", "b">>, <<"a", "many", "s">>,
              <<"s", "next", "a">>, <<"b", "next", "s">>}
Lists == {<<"a", "list", "l1">>, <<"l1", "type", "List">>, <<"l1", "first", "b">>, <<"l1", "rest", "nil">>}
Colors == {<<"a", "list2", "l2">>, <<"l2", "type", "List">>, <<"l2", "first", "red">>, <<"l2", "rest", "nil">>}
Grid ==
  UNION {{<<"a", "grid", m[1]>>, <<m[1], "type", "Array">>, <<m[1], "index", m[2]>>,
          <<m[1], "index2", m[3]>>, <<m[1], "value", m[4]>>} :
           m \in {<<"x1", "1", "0", "b">>, <<"x2", "0", "1", "v">>}}
Typed == {<<"a", "type", "A">>, <<"b", "type", "C">>, <<"s", "type", "S">>}
Layer(links, more) == Typed \union links \union UNION more
Layers == {Layer(links, more) : links \in SUBSET FreeLinks, more \in SUBSET {Lists, Colors, Grid}}
DocumentQuestions ==
  {[kind : {"document"}, schema : Schemas, layer : Layers, id : {"a"}, unfold : {TRUE}],
   [kind : {"document"}, schema : {BaseSchema}, layer : Layers, id : {"b", "nil"}, unfold : BOOLEAN],
   [kind : {"document"}, schema : {BaseSchema}, layer : Layers, id : {"a"}, unfold : {FALSE}]}

\* The circle through two lists and an array takes more work than is allowed
Again == {IF t[3] = "red" THEN <<"l2", "first", "b">> ELSE t : t \in Colors}
PrintLayers == {Layer({<<"a", "next", "b">>}, {Colors}),
                Layer({<<"b", "next", "a">>, <<"s", "next", "a">>}, {Lists, Again, Grid})}
PrintRequests ==
  {r \in [schema : Schemas, layer : PrintLayers, kind : {"type"}, class : {"B", "A"},
          ids : {<<>>}, skip : {0}, count : {1, 3}, unfold : {TRUE}] \union
         [schema : Schemas, layer : PrintLayers, kind : {"all"}, class : {"none"},
          ids : {<<>>}, skip : {0}, count : {9}, unfold : BOOLEAN] \union
         [schema : Schemas, layer : PrintLayers, kind : {"ids"}, class : {"none"},
          ids : {<<"b", "nil", "a", "s", "b">>}, skip : {0, 1}, count : {2, 4}, unfold : {TRUE}] :
     r.skip > 0 => \A d \in {"a", "b", "s"} : Read(r, d)[1] = "document"}

-------------------------------------------------------------------------------
(* Paths over three nodes *)

PathLayers ==
  {g \union {<<"a", "next", "b">>} : g \in SUBSET {<<"b", "next", "s">>, <<"b", "many", "a">>,
                                             <<"s", "many", "a">>, <<"s", "next", "a">>}}
Steps == {<<"positive", "next">>, <<"negative", "many">>, <<"positive", ".">>}
OnePath == Steps \union UNION {{Plus(s), Star(s), <<"times", s, 1, 3>>} : s \in Steps}
TwoPaths == OnePath \union {<<k, <<x, y>>>> : k \in {"seq", "choice"}, x \in OnePath, y \in Steps}
Paths == TwoPaths \union UNION {{Plus(x), Star(x)} : x \in TwoPaths}
PathQuestions ==
  {{[kind |-> "path", layer |-> g, path |-> p, tokens |-> Tokens(p), node |-> "a"] :
     g \in PathLayers, p \in Paths}}

-------------------------------------------------------------------------------
(* Queries: p1 and p2 of the class P, q1 of its subclass Q *)

Field(kind, range) == [kind |-> kind, range |-> range]
PFields ==
  [name |-> Field("Required", "string"), url |-> Field("Optional", "anyURI"),
   age |-> Field("Optional", "int"), friend |-> Field("Set", "P"), best |-> Field("Optional", "P"),
   chain |-> Field("List", "P"), grid |-> Field("Array", "P"), color |-> Field("Optional", "E"),
   tags |-> Field("Set", "string")]
Class(fields, one_of, inherits) ==
  [kind |-> "class", fields |-> fields, one_of |-> one_of, inherits |-> inherits]
TheFrames ==
  [P |-> Class(PFields, <<>>, {}), E |-> [kind |-> "enum", values |-> <<"red">>],
   Q |-> Class(PFields, <<[nick |-> Field("Required", "string")]>>, {"P"})]
QuerySchema ==
  {<<c, "type", "Class">> : c \in {"P", "Q"}} \union EnumTriples \union
  {<<"Q", "inherits", "P">>, <<"P", "friend", "U">>, <<"U", "type", "Set">>,
   <<"P", "tags", "V">>, <<"V", "type", "Set">>}

Cell(d, cell, i, j, t) ==
  {<<d, "grid", cell>>, <<cell, "type", "Array">>, <<cell, "index", i>>, <<cell, "index2", j>>,
   <<cell, "value", t>>}
ListOf(d, t, u) ==
  {<<d, "chain", "l1">>, <<"l1", "type", "List">>, <<"l1", "first", t>>, <<"l1", "rest", "l2">>,
   <<"l2", "type", "List">>, <<"l2", "first", u>>, <<"l2", "rest", "nil">>}
Always ==
  {<<"p1", "type", "P">>, <<"p2", "type", "P">>, <<"q1", "type", "Q">>, <<"q1", "nick", "la">>,
   <<"p1", "name", "la">>, <<"p2", "name", "lb">>, <<"q1", "name", "lb">>, <<"q1", "chain", "nil">>}
Chains == {{<<"p1", "chain", "nil">>, <<"p2", "chain", "nil">>},
           ListOf("p1", "p2", "p2") \union {<<"p2", "chain", "nil">>},
           ListOf("p2", "p1", "q1") \union {<<"p1", "chain", "nil">>}}
Groups ==
  {{<<"p1", "friend", "p2">>, <<"p1", "friend", "q1">>}, {<<"p2", "friend", "p1">>},
   {<<"q1", "best", "p2">>, <<"p2", "best", "p1">>},
   Cell("p2", "x1", "0", "1", "p1") \union Cell("p2", "x2", "1", "0", "p2"),
   {<<"p1", "age", "n1">>, <<"q1", "age", "n2">>},
   {<<"p1", "color", "red">>, <<"p2", "tags", "la">>, <<"p2", "tags", "lb">>, <<"p2", "url", "lu">>}}
QueryLayers == {Always \union chain \union UNION more : chain \in Chains, more \in SUBSET Groups}

Named(v) == <<"name", "eq" :> v>>
Filters ==
  {<<>>, <<Named(1)>>, <<Named(2)>>, <<<<"name", "ne" :> 1>>>>, <<<<"name", "text" :> {2, 3}>>>>,
   <<<<"url", "eq" :> 1>>>>, <<<<"url", "ge" :> 1>>, <<"age", "lt" :> 9>>>>,
   <<<<"age", "lt" :> 2>>>>, <<<<"age", "eq" :> 2>>, <<"best", <<Named(2)>>>>>>,
   <<<<"best", <<Named(1)>>>>>>, <<<<"best", <<<<"best", <<Named(1)>>>>>>>>>>,
   <<<<"friend", <<<<"someHave", <<Named(2)>>>>>>>>>>,
   <<<<"friend", <<<<"allHave", <<<<"name", "ge" :> 2>>>>>>>>>>>>,
   <<<<"friend", <<<<"someHave", <<<<"best", <<Named(1)>>>>>>>>>>>>>>,
   <<<<"chain", <<<<"someHave", <<Named(2)>>>>>>>>>>, <<<<"chain", <<<<"allHave", <<Named(2)>>>>>>>>>>,
   <<<<"grid", <<<<"someHave", <<Named(1)>>>>>>>>>>, <<<<"grid", <<<<"allHave", <<<<"_ids", <<"p1">>>>>>>>>>>>>>,
   <<<<"tags", <<<<"someHave", "eq" :> 1>>>>>>>>, <<<<"tags", <<<<"allHave", "eq" :> 1>>>>>>>>,
   <<<<"tags", <<<<"allHave", "ge" :> 1>>>>>>>>,
   <<<<"color", [op |-> "eq", value |-> "red"]>>>>, <<<<"color", [op |-> "ne", value |-> "red"]>>>>,
   <<<<"_or", <<<<Named(1)>>, <<<<"age", "ge" :> 1>>>>>>>>>>,
   <<<<"_not", <<<<<<"friend", <<<<"someHave", <<Named(2)>>>>>>>>>>>>>>>>,
   <<<<"_and", <<<<<<"friend", <<<<"someHave", <<Named(1)>>>>>>>>>>, <<Named(2)>>>>>>>>,
   <<<<"_and", <<<<Named(2)>>, <<<<"_or", <<<<<<"best", <<>>>>>>, <<<<"age", "ne" :> 1>>>>>>>>>>>>>>>>,
   <<<<"_ids", <<"p1", "q1", "a">>>>>>, <<<<"best", <<<<"_ids", <<"p2">>>>>>>>>>,
   <<<<"_restriction", "recent">>, <<"_not", <<<<Named(9)>>>>>>>>}
By(path, order, fields) == <<"some", [path |-> path, order |-> order, fields |-> fields]>>
Few == [NoArguments EXCEPT !.limit = 2]
ArgumentSets ==
  {[NoArguments EXCEPT !.filter = f] : f \in Filters} \union
  {[a EXCEPT !.filter = f] : f \in {<<>>, <<<<"age", "ge" :> 1>>>>, <<<<"_or", <<<<Named(1)>>, <<Named(2)>>, <<>>>>>>>>},
     a \in {[NoArguments EXCEPT !.children = FALSE], [NoArguments EXCEPT !.offset = 1],
            [NoArguments EXCEPT !.ids = <<"some", <<"p2", "q1", "p1">>>>],
            [NoArguments EXCEPT !.ids = <<"some", <<"p1">>>>, !.path = <<"friend", "|", "best", "*", ",", "chain">>],
            [NoArguments EXCEPT !.ids = <<"some", <<"p2", "p1">>>>, !.path = <<"<", "best", "+">>],
            [Few EXCEPT !.by = By(<<"best", "age">>, "Asc", <<>>)],
            [Few EXCEPT !.by = By(<<"best", "best", "name">>, "Desc", <<<<"name", "Desc">>>>), !.offset = 1],
            [Few EXCEPT !.by = By(<<"age">>, "Desc", <<>>)],
            [NoArguments EXCEPT !.by = By(<<>>, "Asc", <<<<"age", "Desc">>, <<"name", "Asc">>>>)]}}
Plain == {a \in ArgumentSets : a.ids = <<"none">> /\ a.by = <<"none">> /\ a.children /\ a.offset = 0}
Linked == {g \in QueryLayers : <<"p2", "best", "p1">> \in g}
QueryQuestions ==
  {[kind : {"query"}, schema : {QuerySchema}, layer : QueryLayers, name : {"P"}, args : Plain],
   [kind : {"query"}, schema : {QuerySchema}, layer : Linked, name : {"P"}, args : ArgumentSets \ Plain],
   [kind : {"query"}, schema : {QuerySchema}, layer : {g \in Linked : <<"p1", "chain", "nil">> \notin g},
    name : {"Q", "recent"}, args : {a \in ArgumentSets : a.path = <<>>}]}
FieldQuestions == {[kind : {"fields"}, schema : {QuerySchema}, layer : QueryLayers]}
RestrictionClasses == [recent |-> "P"]
RestrictedDocuments == [recent |-> {"p1", "q1"}]

-------------------------------------------------------------------------------
(* Frames with names that GraphQL does not accept *)

SomeFields == {[n \in ns |-> Field("Required", IF n = "name" THEN "P" ELSE "string")] :
                 ns \in SUBSET {"a-b", "a.b", "name"}}
SomeFrames ==
  UNION {[cs -> {Class(f, o, {}) : f \in SomeFields, o \in {<<>>, <<[url |-> Field("Required", "X-Y")]>>}}] :
           cs \in {{"P"}, {"X-Y", "P"}, {"X-Y", "X.Y"}, {"BigInt"}}} \union
  {[P |-> Class(f, <<[n \in {"a-b"} |-> Field("Required", "string")]>>, {}),
    E |-> [kind |-> "enum", values |-> v]] : f \in SomeFields, v \in {<<"red", "a.b">>, <<"a-b", "a.b">>}}
FrameQuestions ==
  {[kind : {"frames"}, unclean : SomeFrames, restrictions : {<<>>, <<"recent">>, <<"P">>}]}

AllQuestions ==
  DocumentQuestions \union PathQuestions \union QueryQuestions \union FieldQuestions \union FrameQuestions
  \union ExchangeQuestions
===============================================================================
