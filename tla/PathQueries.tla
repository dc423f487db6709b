------------------------------ MODULE PathQueries ------------------------------
(***************************************************************************)
(* Path queries of GraphQL: how a path is read (path/parse.rs) and how the *)
(* nodes it leads to are found (path/compile.rs).  A path is a tuple: a    *)
(* step <<"positive", p>> or <<"negative", p>>, where p is a property or   *)
(* "." for any; <<"seq", ps>>, <<"choice", ps>>, <<"branch", ps>>,         *)
(* <<"collide", ps>>; and <<"times", path, n, m>>, the repetition from n   *)
(* times on, before m.                                                     *)
(***************************************************************************)
EXTENDS SchemaTypes, TLC

NoStop == 99     \* a repetition without an upper limit

Plus(path) == <<"times", path, 1, NoStop>>
Star(path) == <<"times", path, 0, NoStop>>
Composed == {"seq", "choice", "branch", "collide"}

-------------------------------------------------------------------------------
(* Reading: a path is a sequence of tokens, and so is what is left of it *)

Punctuation == {"(", ")", "<", ">", "+", "*", ",", "|", "{", "}"}
Numbers == {"0", "1", "2", "3"}
ToNumber(token) == CHOOSE i \in 0..3 : ToString(i) = token

Failed == [ok |-> FALSE, path |-> <<>>, rest |-> <<>>]
Parsed(path, rest) == [ok |-> TRUE, path |-> path, rest |-> rest]
Starts(tokens, prefix) == IsPrefix(prefix, tokens)
Drop(tokens, n) == SubSeq(tokens, n + 1, Len(tokens))

\* positive, negative: a property with the arrow that may be left out, or one backwards
Step(t) ==
  LET at == IF Starts(t, <<"<">>) THEN 2 ELSE 1 IN
  IF Len(t) < at \/ t[at] \in Punctuation THEN Failed
  ELSE IF at = 2 THEN Parsed(<<"negative", t[2]>>, Drop(t, 2))
  ELSE Parsed(<<"positive", t[1]>>, Drop(t, IF Starts(Tail(t), <<">">>) THEN 2 ELSE 1))

\* plus, star, times: what does not read as a repetition is left over
Repeated(p) ==
  LET t == p.rest IN
  IF ~p.ok THEN Failed
  ELSE IF Starts(t, <<"+">>) THEN Parsed(Plus(p.path), Tail(t))
  ELSE IF Starts(t, <<"*">>) THEN Parsed(Star(p.path), Tail(t))
  ELSE IF /\ Len(t) >= 5 /\ t[1] = "{" /\ t[3] = "," /\ t[5] = "}"
          /\ {t[2], t[4]} \subseteq Numbers
       THEN Parsed(<<"times", p.path, ToNumber(t[2]), ToNumber(t[4])>>, Drop(t, 5))
       ELSE p

RECURSIVE Ands(_), Patterns(_), Listed(_, _, _)
Patterns(t) ==
  IF ~Starts(t, <<"(">>) THEN Step(t)
  ELSE LET inner == Ands(Tail(t)) IN
       IF inner.ok /\ Starts(inner.rest, <<")">>)
       THEN Parsed(inner.path, Tail(inner.rest)) ELSE Failed

\* ors and ands: one path, or those that a separator divides
Listed(separator, t, found) ==
  LET next == IF separator = "," THEN Listed("|", t, <<>>) ELSE Repeated(Patterns(t))
      kind == IF separator = "," THEN "seq" ELSE "choice"
      paths == Append(found, next.path)
      more == Listed(separator, Tail(next.rest), paths)
  IN IF ~next.ok THEN Failed
     ELSE IF Starts(next.rest, <<separator>>) /\ more.ok THEN more
     ELSE Parsed(IF Len(paths) = 1 THEN next.path ELSE <<kind, paths>>, next.rest)

Ands(t) == Listed(",", t, <<>>)

\* parse_path; path_to_class takes the path and drops what is left
ParsePath(tokens) == Ands(tokens)

-------------------------------------------------------------------------------
(* The nodes a path leads to, from a sequence of nodes *)

\* Mutant: the parts of a path are turned round and stay in their order
RECURSIVE InPlace(_)
InPlace(path) ==
  CASE path[1] = "positive" -> <<"negative", path[2]>>
    [] path[1] = "negative" -> <<"positive", path[2]>>
    [] path[1] = "times" -> <<"times", InPlace(path[2]), path[3], path[4]>>
    [] OTHER -> <<path[1], [i \in 1..Len(path[2]) |-> InPlace(path[2][i])]>>

RECURSIVE ReversePath(_)
ReversePath(path) ==
  LET each == [i \in 1..Len(path[2]) |-> ReversePath(path[2][i])] IN
  CASE path[1] = "positive" -> <<"negative", path[2]>>
    [] path[1] = "negative" -> <<"positive", path[2]>>
    [] path[1] = "seq" -> <<"seq", Reverse(each)>>
    [] path[1] = "choice" -> <<"choice", each>>
    [] path[1] = "branch" -> <<"collide", each>>
    [] path[1] = "collide" -> <<"branch", each>>
    [] path[1] = "times" -> <<"times", ReversePath(path[2]), path[3], path[4]>>

Objects(triples) == [i \in 1..Len(triples) |-> triples[i][3]]
SubjectsOf(triples) == [i \in 1..Len(triples) |-> triples[i][1]]
Forward(g, p, n) ==
  Objects(IF p = "." THEN ListS(g, n) ELSE WithPredicate(ListS(g, n), p))
Backward(g, p, n) ==
  SubjectsOf(IF p = "." THEN ListO(g, n) ELSE WithPredicate(ListO(g, n), p))

RECURSIVE Unvisited(_, _)
Unvisited(nodes, visited) ==
  IF nodes = <<>> THEN <<>>
  ELSE IF Head(nodes) \in visited THEN Unvisited(Tail(nodes), visited)
  ELSE <<Head(nodes)>> \o Unvisited(Tail(nodes), visited \union {Head(nodes)})

RECURSIVE CompilePath(_, _, _), ManySearch(_, _, _, _, _)
CompilePath(g, path, nodes) ==
  CASE path[1] = "positive" -> FlattenSeq([i \in 1..Len(nodes) |-> Forward(g, path[2], nodes[i])])
    [] path[1] = "negative" -> FlattenSeq([i \in 1..Len(nodes) |-> Backward(g, path[2], nodes[i])])
    [] path[1] = "seq" -> FoldLeft(LAMBDA found, p : CompilePath(g, p, found), nodes, path[2])
    [] path[1] = "choice" ->
         FlattenSeq([i \in 1..Len(path[2]) |-> CompilePath(g, path[2][i], nodes)])
    [] path[1] = "branch" ->
         InOrder({n \in ToSet(CompilePath(g, Last(path[2]), nodes)) :
                    \A i \in 1..Len(path[2]) : n \in ToSet(CompilePath(g, path[2][i], nodes))})
    [] path[1] = "collide" ->
         SelectSeq(CompilePath(g, Last(path[2]), nodes),
                   LAMBDA n : \A i \in 1..(Len(path[2]) - 1) :
                                CompilePath(g, ReversePath(path[2][i]), <<n>>) # <<>>)
    [] path[1] = "times" ->
         IF path[4] = 0 THEN nodes ELSE ManySearch(g, path, nodes, 0, {})

\* ManySearchIterator: breadth first, one search for all of the nodes it starts from, and
\* a node is visited once
ManySearch(g, path, nodes, current, visited) ==
  LET fresh == Unvisited(nodes, visited) IN
  IF current >= path[4] \/ fresh = <<>> THEN <<>>
  ELSE (IF current >= path[3] THEN fresh ELSE <<>>) \o
       ManySearch(g, path, CompilePath(g, path[2], fresh), current + 1,
                  visited \union ToSet(fresh))

\* path_to_class: those of the nodes that are of the class, adjacent copies once
PathToClass(g, tokens, class, nodes) ==
  LET found == SelectSeq(CompilePath(g, ParsePath(tokens).path, nodes),
                         LAMBDA n : <<n, "type", class>> \in g)
  IN SelectSeq([i \in 1..Len(found) |-> IF i > 1 /\ found[i] = found[i - 1] THEN "" ELSE found[i]],
               LAMBDA n : n # "")

-------------------------------------------------------------------------------
(* What a path means: a relation between nodes *)

Compose(r, s) == {<<a[1], b[2]>> : <<a, b>> \in {<<x, y>> \in r \X s : x[2] = y[1]}}
Identity(g) == {<<n, n>> : n \in Known(g)}

RECURSIVE Meaning(_, _), Power(_, _, _)
Power(g, r, n) == IF n = 0 THEN Identity(g) ELSE Compose(Power(g, r, n - 1), r)
Meaning(g, path) ==
  CASE path[1] = "positive" ->
         {<<t[1], t[3]>> : t \in IF path[2] = "." THEN g ELSE TriplesP(g, path[2])}
    [] path[1] = "negative" ->
         {<<t[3], t[1]>> : t \in IF path[2] = "." THEN g ELSE TriplesP(g, path[2])}
    [] path[1] = "seq" -> FoldLeft(LAMBDA r, p : Compose(r, Meaning(g, p)), Identity(g), path[2])
    [] path[1] = "choice" -> UNION {Meaning(g, path[2][i]) : i \in 1..Len(path[2])}
    [] path[1] = "times" ->
         LET r == Meaning(g, path[2])
             most == IF path[4] = NoStop THEN Cardinality(Known(g)) ELSE path[4] - 1
         IN UNION {Power(g, r, n) : n \in path[3]..most}

\* Whether a path repeats something at least once
RECURSIVE Counts(_)
Counts(path) ==
  \/ path[1] = "times" /\ (path[3] > 0 \/ path[4] # NoStop \/ Counts(path[2]))
  \/ path[1] \in Composed /\ \E i \in 1..Len(path[2]) : Counts(path[2][i])

\* The tokens of a path
RECURSIVE Tokens(_)
Bracketed(path) == IF path[1] \in Composed THEN <<"(">> \o Tokens(path) \o <<")">> ELSE Tokens(path)
Tokens(path) ==
  CASE path[1] = "positive" -> <<path[2], ">">>
    [] path[1] = "negative" -> <<"<", path[2]>>
    [] path[1] = "seq" -> Tail(FlattenSeq([i \in 1..Len(path[2]) |-> <<",">> \o Bracketed(path[2][i])]))
    [] path[1] = "choice" -> Tail(FlattenSeq([i \in 1..Len(path[2]) |-> <<"|">> \o Bracketed(path[2][i])]))
    [] path[1] = "times" ->
         (IF path[2][1] = "times" THEN <<"(">> \o Tokens(path[2]) \o <<")">> ELSE Bracketed(path[2]))
         \o (CASE path[3] = 1 /\ path[4] = NoStop -> <<"+">>
               [] path[3] = 0 /\ path[4] = NoStop -> <<"*">>
               [] OTHER -> <<"{", ToString(path[3]), ",", ToString(path[4]), "}">>)
===============================================================================
