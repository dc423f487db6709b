--------------------------------- MODULE Reading ---------------------------------
(***************************************************************************)
(* Requests that read: documents are printed in parallel, or a question is *)
(* asked of a document, a path, a query, the links between documents or    *)
(* the frames, and answered in one step from a layer that does not change. *)
(* The answers are compared with definitions that say what they ought to   *)
(* be and not how they are found.                                          *)
(***************************************************************************)
EXTENDS DocumentPrinting, GraphResolve, Exchange

CONSTANTS
  Requests,        \* what may be printed
  Questions,       \* what may be asked: sets of records with a kind
  Unclean,         \* the frames of the queries
  Restrictions,    \* restriction of the queries -> its class
  Restricted       \* restriction -> the documents it holds for

vars == <<printVars, exchangeVars>>

\* The frames of the queries, which are made once
TheAllFrames == AllFrames(Unclean, InOrder(DOMAIN Restrictions))

QueriesOf(r) ==
  [layer |-> r.layer, all |-> TheAllFrames, restricted |-> Restricted,
   documents |-> DocumentContext(r.schema, r.layer)]

Init ==
  \/ question = [kind |-> "none"] /\ answer = <<>> /\ PrintInit(Requests)
  \/ ExchangeInit(Questions) /\ PrintIdle

Answer(value) == Respond(value) /\ UNCHANGED printVars

ReadDocument ==
  /\ question.kind = "document"
  /\ Answer(GetIdDocument(DocumentContext(question.schema, question.layer),
                          question.id, question.unfold))

FollowPath ==
  /\ question.kind = "path"
  /\ LET nodes(path) == CompilePath(question.layer, path, <<question.node>>) IN
     Answer([parsed |-> ParsePath(question.tokens), there |-> nodes(question.path),
             back |-> nodes(ReversePath(question.path))])

QueryAnswer(q, name, args) ==
  [documents |-> ResolveQuery(q, Restrictions, name, args)[2],
   count |-> CountField(q, name :> args.filter)]
RunQuery ==
  /\ question.kind = "query"
  /\ Answer(QueryAnswer(QueriesOf(question), question.name, question.args))

\* Every field of every document, and every link of it from the other end
FieldsAnswer(q) ==
  [own |-> [m \in OwnFields(q) |->
              ResolveDocument(q, GraphqlType(q, m[1]), m[1], <<"field", m[2]>>, NoArguments)],
   documents |-> [d \in DocumentsOf(q) |-> GetDocument(q, d)],
   back |-> [m \in Ends(q) |-> Sources(q, m[3], GraphqlType(q, m[1]), m[2])]]
ResolveFields ==
  /\ question.kind = "fields"
  /\ Answer(FieldsAnswer(QueriesOf(question)))

MakeFrames ==
  /\ question.kind = "frames"
  /\ Answer(AllFrames(question.unclean, question.restrictions))

Next ==
  \/ PrintStep /\ UNCHANGED exchangeVars
  \/ ExchangeNext /\ UNCHANGED printVars
  \/ ReadDocument \/ FollowPath \/ RunQuery \/ ResolveFields \/ MakeFrames

\* The threads of the pool and the thread of the request are never starved
Spec == Init /\ [][Next]_vars /\ PrintFairness

-------------------------------------------------------------------------------
(* Properties *)

RECURSIVE From(_, _)
From(c, nodes) ==
  LET next == {t[3] : t \in {u \in c.layer : u[1] \in nodes /\ u[2] # "type"}}
  IN IF next \subseteq nodes THEN nodes ELSE From(c, nodes \union next)

\* A link that was followed into a circle through a list or an array is not remembered
\* and followed again, up to the limit of the work (get_id_document, visited.pop)
RemembersAll(c, id) ==
  LET reached == From(c, {id}) IN
  \/ \A t \in c.layer : t[1] \in reached /\ t[2] # "type" => t[1] \notin From(c, {t[3]})
  \/ \A n \in reached : TypeOf(c, n) \notin {"List", "Array"}

\* The stack builds the tree that the links, the lists and the places of the arrays
\* describe, with every unfolded document once on each way (get_id_document)
DocumentsAreTrees ==
  Answered("document") =>
    LET c == DocumentContext(question.schema, question.layer)
        id == question.id
    IN ~(TypeOf(c, id) = "none" /\ IsRaw(c, id)) /\ RemembersAll(c, id) =>
         answer[1] = Tree(c, question.unfold, id, {id})

\* What is read from the schema is what the inheritance relation says (schema.rs)
ClassesAreClosed ==
  Answered("document") =>
    LET s == question.schema
        graph == InheritanceGraph(s)
        classes == UNION {{p[1], p[2]} : p \in graph}
        up == TransitiveClosure([x, y \in classes |-> <<x, y>> \in graph], classes)
        below(supers) == {c \in classes : \E d \in supers \cap classes : up[c, d]}
    IN /\ \A c \in ToSet(Order) : SubtypeIds(s, c) = below({c})
       /\ \A annotation \in {"subdocument", "unfoldable"} :
            LET said == Subjects(TriplesP(s, annotation))
            IN Annotated(s, annotation) = said \union below(said)

\* A path reads as it is written, leads where its parts lead, and back where it came from;
\* a search that counts its steps finds no more, and at least once leaves out only the
\* node it starts from (compile_path, ManySearchIterator)
PathsAreRelations ==
  Answered("path") =>
    LET path == question.path
        meaning == Meaning(question.layer, path)
        there == {m[2] : m \in {n \in meaning : n[1] = question.node}}
        back == {m[1] : m \in {n \in meaning : n[2] = question.node}}
        found == ToSet(answer[1].there)
    IN /\ answer[1].parsed = Parsed(path, <<>>)
       /\ found \subseteq there /\ ToSet(answer[1].back) \subseteq back
       /\ ~Counts(path) => found = there /\ ToSet(answer[1].back) = back
       /\ (path[1] = "times" /\ path[3] = 1 /\ path[4] = NoStop /\ ~Counts(path[2])) =>
            there \ found \subseteq {question.node}

\* The two searches that the rest of reading relies on, down the classes of a schema and
\* along the links of a layer, find what the relations say
SearchesAreRelations == ClassesAreClosed /\ PathsAreRelations

-------------------------------------------------------------------------------
(* Queries *)

ClassOf(name) == IF name \in DOMAIN Restrictions THEN Restrictions[name] ELSE name
NodesOf(documents) == [i \in 1..Len(documents) |-> documents[i][2]]
Unlimited(args) == args.offset = 0 /\ args.limit = NoArguments.limit

\* Filters for which the search starts from a value and misses what passes: all of nothing
\* equals the value, or the graph knows the value under the type that is looked for and
\* under that of the field (generate_iterator_from_edges, filter_value_to_entry)
RECURSIVE StartsFromValue(_, _)
StartsFromValue(g, filter) ==
  \E i \in 1..Len(filter.edges) :
    LET e == filter.edges[i] IN
    CASE e.scope \in Connectives -> \E j \in 1..Len(e.of) : StartsFromValue(g, e.of[j])
      [] e.scope \notin Connectives /\ e.of.is = "node" -> StartsFromValue(g, e.of.filter)
      [] OTHER -> /\ ValueIds(g, e.of) # {}
                  /\ e.scope = "allHave" \/ e.of.type # EntryType[e.of.kind]

\* The documents a query is about, before its filter
Asked(q, name, args) ==
  LET class == ByLeft(q.all.class_renaming, ClassOf(name))
      just == {n \in Known(q.layer) : <<n, "type", class>> \in q.layer}
      named == IF name \in DOMAIN Restrictions
               THEN Restricted[name] \cap (IF args.ids = <<"none">> THEN Known(q.layer) ELSE ToSet(args.ids[2]))
               ELSE just \cap ToSet(args.ids[2])
  IN IF args.path # <<>>
     THEN {m[2] : m \in {r \in Meaning(q.layer, ParsePath(args.path).path) : r[1] \in named}} \cap just
     ELSE IF args.ids = <<"none">> /\ name \notin DOMAIN Restrictions
     THEN IF args.children THEN Matching(q, ClassOf(name), EmptyFilter) ELSE just
     ELSE named

Said(q, name, args) ==
  LET filter == CompileFilter(q.all, ClassOf(name), args.filter)
  IN {n \in Asked(q, name, args) : Satisfies(q, filter, n)}
MissesNothing(q, name, args) ==
  /\ ~StartsFromValue(q.layer, CompileFilter(q.all, ClassOf(name), args.filter))
  /\ args.path # <<>> => ~Counts(ParsePath(args.path).path)

Finds(q, name, args, found) ==
  /\ found \subseteq Said(q, name, args)
  /\ Unlimited(args) /\ MissesNothing(q, name, args) => found = Said(q, name, args)

\* A query finds the documents its filter holds for, wherever the search starts
\* (generate_initial_iterator, compile_query)
QueriesFindWhatTheySay ==
  Answered("query") =>
    Finds(QueriesOf(question), question.name, question.args, ToSet(NodesOf(answer[1].documents)))

CountIs(q, filter, said, count) ==
  ~StartsFromValue(q.layer, filter) =>
    /\ count >= said
    /\ ~Anywhere(filter, {"_or"}) => count = said

\* A class has as many documents as it counts, unless an alternative counts them twice
\* (run_count_query)
CountsAgree ==
  Answered("query") /\ question.name \notin DOMAIN Restrictions =>
    LET filter == CompileFilter(TheAllFrames, question.name, question.args.filter) IN
    CountIs(QueriesOf(question), filter,
            Cardinality(Matching(QueriesOf(question), question.name, filter)), answer[1].count[2])

\* What a query finds and what it counts are the same documents, the ones it says
QueriesAndCountsAgree == QueriesFindWhatTheySay /\ CountsAgree

\* The values documents are ordered by, and whether one may come before another: without a
\* value a document is the greatest
KeysOf(g, n, path) ==
  LET way == [i \in 1..Len(path) |-> <<"positive", path[i]>>]
  IN {ValueOf(m[2])[2] : m \in {r \in Meaning(g, <<"seq", way>>) : r[1] = n}}
MayPrecede(first, second, order) ==
  LET least == IF order = "Asc" THEN first ELSE second
      greatest == IF order = "Asc" THEN second ELSE first
  IN greatest = {} \/ \E a \in least, b \in greatest : a <= b
InOrderOf(g, by, page, behind) ==
  LET precedes(m, n) == MayPrecede(KeysOf(g, m, by.path), KeysOf(g, n, by.path), by.order)
  IN \A i \in 1..Len(page) :
       /\ \A j \in 1..(i - 1) : precedes(page[j], page[i])
       /\ \A n \in behind : precedes(page[i], n)

\* An ordered page of a query has no document twice, its documents are in the order that was asked for,
\* and what the first page leaves out belongs behind it (run_filter_query, QueryOrderKey)
QueryPagesAreInOrder ==
  Answered("query") /\ question.args.by # <<"none">> =>
    LET page == NodesOf(answer[1].documents)
        rest == IF question.args.offset > 0 THEN {}
                ELSE Said(QueriesOf(question), question.name, question.args) \ ToSet(page)
    IN /\ Len(page) = Cardinality(ToSet(page))
       /\ question.args.by[2].path # <<>> =>
            InOrderOf(question.layer, question.args.by[2], page, rest)

\* A page of a query has what comes first, and a page that is printed in parallel is the one
\* that is printed in turn
PagesAreInOrder == QueryPagesAreInOrder /\ PrintedPagesAgree

-------------------------------------------------------------------------------
(* Fields *)

\* Each link of a document is found from its other end as often as it is there: a list
\* that names a document twice comes back twice (resolve_field, reverse_link)
LinksGoBothWays ==
  Answered("fields") =>
    LET count(x, seq) == Cardinality({i \in DOMAIN seq : seq[i] = Document(x)})
    IN \A m \in DOMAIN answer[1].back :
         LET there == answer[1].own[<<m[1], m[2]>>]
             targets == IF there[1] = "list" THEN there[2] ELSE <<there>>
         IN count(m[3], targets) = count(m[1], answer[1].back[m])

\* The places of an array, in order
RECURSIVE Flattened(_)
Flattened(json) ==
  IF json[1] = "array" THEN FlattenSeq([i \in 1..Len(json[2]) |-> Flattened(json[2][i])])
  ELSE IF json = Null THEN <<>> ELSE <<json>>

AsJson(all, v, range) ==
  CASE v[1] = "node" -> <<"name", v[2]>>
    [] v[1] = "value" /\ IsEnum(all, range) -> <<"value", ByLeft(all.frames[range].names, v[2])>>
    [] OTHER -> v
SameField(all, d, p, value, doc) ==
  IF p \notin DOMAIN doc THEN value \in {<<"null">>, <<"list", <<>>>>, <<"panic">>}
  ELSE IF IsCollection(d)
  THEN Flattened(doc[p]) = [i \in 1..Len(value[2]) |-> AsJson(all, value[2][i], d.range)]
  ELSE doc[p] = AsJson(all, value, d.range)
SaysTheSame(all, class, f, value, doc) ==
  SameField(all, ResolveField(class, f), IriOf(class, f), value, doc)

\* The fields of a document are those of its JSON: the same values in the same order
\* (resolve_field and get_id_document read lists, arrays and sets each in their way)
FieldsSayWhatTheDocumentSays ==
  Answered("fields") =>
    \A m \in DOMAIN answer[1].own :
      SaysTheSame(TheAllFrames, TheAllFrames.frames[GraphqlType(QueriesOf(question), m[1])], m[2],
                  answer[1].own[m], answer[1].documents[m[1]][2])

\* Frames name every class, property and value once, and know each by its own name, unless
\* two properties of a class or two values get one name (sanitize, finalize)
FramesKeepNames ==
  Answered("frames") /\ ~Merged(question.unclean) =>
    NamesAreInvertible(question.unclean, answer[1])
===============================================================================
